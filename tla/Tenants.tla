------------------------------- MODULE Tenants -------------------------------
(***************************************************************************)
(* The tenant service of src/launch-k8s/manage_cilium_longhorn.go.  Every   *)
(* POST /create-tenant is served by a goroutine of its own, which creates a *)
(* namespace, a network policy and a volume claim, one call of the          *)
(* Kubernetes API after the other and without taking anything back.  The    *)
(* API server is external: a Create is atomic and refuses a name that       *)
(* exists.  Nothing here deletes, so neither does the model.                *)
(***************************************************************************)
EXTENDS Integers, FiniteSets

CONSTANTS
  Requests,   \* POST /create-tenant requests, retries included
  TenantIDs,  \* what tenant_id may be
  EnvFaults   \* whether a call of the Kubernetes API may fail by itself

ASSUME ConstantsOK == TenantIDs # {} /\ EnvFaults \in BOOLEAN

VARIABLES
  pc,        \* control point of each handler
  tenant,    \* its request.TenantID
  size,      \* its request.StorageSize, by who accepts it
  ns,        \* tenants whose namespace exists
  policy,    \* tenants whose <id>-isolation exists
  pvc        \* tenants whose <id>-storage exists

reqVars == <<pc, tenant, size>>
vars    == <<reqVars, ns, policy, pvc>>

TypeOK ==
  /\ pc \in [Requests -> {"idle", "ns", "policy", "pvc", "ok", "failed"}]
  /\ tenant \in [Requests -> TenantIDs]
  /\ size \in [Requests -> {"invalid", "nonPositive", "valid"}]
  /\ ns \subseteq TenantIDs /\ policy \subseteq ns /\ pvc \subseteq ns

Init ==
  /\ pc = [r \in Requests |-> "idle"]
  /\ tenant \in [Requests -> TenantIDs]
  /\ size \in [Requests -> {"invalid", "nonPositive", "valid"}]
  /\ ns = {} /\ policy = {} /\ pvc = {}

Goto(r, l) == pc' = [pc EXCEPT ![r] = l]

-----------------------------------------------------------------------------
\* Variant: the namespace is left to be created by the others.
Receive_NoNamespace(r) ==
  /\ pc[r] = "idle"
  /\ Goto(r, IF size[r] = "invalid" THEN "failed" ELSE "policy")
  /\ UNCHANGED <<tenant, size, ns, policy, pvc>>

\* The body is bound and its quantity parsed; 400 if either fails.  A quantity
\* that is zero or less parses.
Receive(r) ==
  /\ pc[r] = "idle"
  /\ Goto(r, IF size[r] = "invalid" THEN "failed" ELSE "ns")
  /\ UNCHANGED <<tenant, size, ns, policy, pvc>>

\* External: Create of an object of tenant t, of which `objects' exist.  A name
\* in use is refused, and so is what does not validate; a call that fails by
\* itself may have been carried out.
Created(objects, new, t) == t \notin objects /\ new = objects \cup {t}

Refused(objects, new, t) ==
  \/ t \in objects /\ new = objects
  \/ EnvFaults /\ new \in {objects, objects \cup {t}}

\* Variant: a namespace that exists is taken for the tenant's.
CreateNamespace_AcceptExisting(r) ==
  /\ pc[r] = "ns"
  /\ \/ ns' = ns \cup {tenant[r]} /\ Goto(r, "policy")
     \/ EnvFaults /\ UNCHANGED ns /\ Goto(r, "failed")
  /\ UNCHANGED <<tenant, size, policy, pvc>>

\* Namespaces().Create; 500 on an error.
CreateNamespace(r) ==
  /\ pc[r] = "ns"
  /\ \/ Created(ns, ns', tenant[r]) /\ Goto(r, "policy")
     \/ Refused(ns, ns', tenant[r]) /\ Goto(r, "failed")
  /\ UNCHANGED <<tenant, size, policy, pvc>>

\* Variant: the error of the call is logged only.
CreatePolicy_LogOnly(r) ==
  /\ pc[r] = "policy"
  /\ \/ Created(policy, policy', tenant[r])
     \/ Refused(policy, policy', tenant[r])
  /\ Goto(r, "pvc")
  /\ UNCHANGED <<tenant, size, ns, pvc>>

\* NetworkPolicies(tenant).Create; 500 on an error, and the namespace stays.
CreatePolicy(r) ==
  /\ pc[r] = "policy"
  /\ \/ Created(policy, policy', tenant[r]) /\ Goto(r, "pvc")
     \/ Refused(policy, policy', tenant[r]) /\ Goto(r, "failed")
  /\ UNCHANGED <<tenant, size, ns, pvc>>

\* Variant: the answer does not wait for the error.
CreatePVC_AlwaysOk(r) ==
  /\ pc[r] = "pvc"
  /\ \/ size[r] = "valid" /\ Created(pvc, pvc', tenant[r])
     \/ size[r] # "valid" /\ UNCHANGED pvc
     \/ Refused(pvc, pvc', tenant[r])
  /\ Goto(r, "ok")
  /\ UNCHANGED <<tenant, size, ns, policy>>

\* PersistentVolumeClaims(tenant).Create; the API server accepts no claim that
\* is not positive.  200, or 500 on an error, and the other two stay.
CreatePVC(r) ==
  /\ pc[r] = "pvc"
  /\ \/ size[r] = "valid" /\ Created(pvc, pvc', tenant[r]) /\ Goto(r, "ok")
     \/ size[r] # "valid" /\ UNCHANGED pvc /\ Goto(r, "failed")
     \/ size[r] = "valid" /\ Refused(pvc, pvc', tenant[r]) /\ Goto(r, "failed")
  /\ UNCHANGED <<tenant, size, ns, policy>>

Handler(r) ==
  Receive(r) \/ CreateNamespace(r) \/ CreatePolicy(r) \/ CreatePVC(r)

Next == \E r \in Requests : Handler(r)

Spec == Init /\ [][Next]_vars

-----------------------------------------------------------------------------
(***************************************************************************)
(* Properties                                                              *)
(***************************************************************************)

\* A tenant that was answered with 200 has its namespace, its isolation and its
\* storage, whatever other requests named it (lines 64-121).
OkMeansComplete ==
  \A r \in Requests : pc[r] = "ok" => tenant[r] \in ns \cap policy \cap pvc

\* No storage is ever claimed in a namespace that is not isolated yet, also
\* after a failure half-way (lines 94-115).
StorageIsIsolated == pvc \subseteq policy

\* The namespace is the lock of its tenant: of all requests that name one
\* tenant at most one ever gets past it, and so at most one is answered with
\* 200 (lines 64-68).
NamespaceIsLock ==
  \A r, q \in Requests :
    /\ r # q /\ tenant[r] = tenant[q]
    /\ pc[r] \in {"policy", "pvc", "ok"}
    => pc[q] \notin {"policy", "pvc", "ok"}

\* That as a claim, made once: the requests of each tenant that are past its
\* namespace.
Past == [t \in TenantIDs |-> {r \in Requests :
           tenant[r] = t /\ pc[r] \in {"policy", "pvc", "ok"}}]

Claim == INSTANCE OneClaim
  WITH Names <- TenantIDs, Clients <- Requests, taken <- ns, past <- Past

\* Requests that name one tenant, at once or as retries, get past its namespace as
\* OneClaim says (lines 64-68, 94, 115).
ImplementsClaim == Claim!Spec

\* What is left of a tenant whose request failed after its namespace was
\* created: something is missing and nobody is at work on it.
Abandoned(t) ==
  /\ t \in ns \ (policy \cap pvc)
  /\ \A r \in Requests : tenant[r] = t => pc[r] \notin {"policy", "pvc"}

\* No retry ever completes such a tenant: its namespace refuses every later
\* request (lines 64-68).
AbandonedForGood == [][\A t \in TenantIDs : Abandoned(t) => Abandoned(t)']_vars
=============================================================================
