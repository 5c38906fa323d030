----------------------------- MODULE MCTenants -----------------------------
(***************************************************************************)
(* Tenants on small sets.  Nothing orders requests or tenants, so           *)
(* exchanging either is a symmetry of the specification.                    *)
(***************************************************************************)
EXTENDS Tenants, TLC

Symmetry == Permutations(Requests) \cup Permutations(TenantIDs)
=============================================================================
