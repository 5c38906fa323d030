--------------------------- MODULE TenantsProofs ---------------------------
(***************************************************************************)
(* Theorems about Tenants, for any requests and tenants.                    *)
(*                                                                         *)
(* A request that is past a call knows that its object exists.  That only   *)
(* one request per tenant ever is past the first call is inherited from     *)
(* OneClaim, which the handlers implement.                                  *)
(***************************************************************************)
EXTENDS Tenants, TLAPS

\* What a request that is past a call can rely on.
Progress ==
  \A r \in Requests :
    /\ pc[r] \in {"policy", "pvc", "ok"} => tenant[r] \in ns
    /\ pc[r] \in {"pvc", "ok"} => tenant[r] \in policy
    /\ pc[r] = "ok" => tenant[r] \in pvc

Inv == TypeOK /\ Progress /\ StorageIsIsolated

LEMMA InitInv == Init => Inv
  BY DEF Init, Inv, TypeOK, Progress, StorageIsIsolated

\* Every step of every handler keeps the invariant.
LEMMA NextInv == Inv /\ [Next]_vars => Inv'
<1> SUFFICES ASSUME Inv, [Next]_vars PROVE Inv'
  OBVIOUS
<1> USE DEF Inv, TypeOK, Progress, StorageIsIsolated, Goto
<1>1. ASSUME NEW r \in Requests, Receive(r) PROVE Inv'
  BY <1>1 DEF Receive
<1>2. ASSUME NEW r \in Requests, CreateNamespace(r) PROVE Inv'
  <2>1. CASE Created(ns, ns', tenant[r]) /\ Goto(r, "policy")
    BY <1>2, <2>1 DEF CreateNamespace, Created
  <2>2. CASE Refused(ns, ns', tenant[r]) /\ Goto(r, "failed")
    BY <1>2, <2>2 DEF CreateNamespace, Refused
  <2> QED BY <1>2, <2>1, <2>2 DEF CreateNamespace
<1>3. ASSUME NEW r \in Requests, CreatePolicy(r) PROVE Inv'
  <2>1. CASE Created(policy, policy', tenant[r]) /\ Goto(r, "pvc")
    BY <1>3, <2>1 DEF CreatePolicy, Created
  <2>2. CASE Refused(policy, policy', tenant[r]) /\ Goto(r, "failed")
    BY <1>3, <2>2 DEF CreatePolicy, Refused
  <2> QED BY <1>3, <2>1, <2>2 DEF CreatePolicy
<1>4. ASSUME NEW r \in Requests, CreatePVC(r) PROVE Inv'
  <2>1. CASE Created(pvc, pvc', tenant[r]) /\ Goto(r, "ok")
    BY <1>4, <2>1 DEF CreatePVC, Created
  <2>2. CASE UNCHANGED pvc /\ Goto(r, "failed")
    BY <1>4, <2>2 DEF CreatePVC
  <2>3. CASE Refused(pvc, pvc', tenant[r]) /\ Goto(r, "failed")
    BY <1>4, <2>3 DEF CreatePVC, Refused
  <2> QED BY <1>4, <2>1, <2>2, <2>3 DEF CreatePVC
<1>5. CASE UNCHANGED vars
  BY <1>5 DEF vars, reqVars
<1> QED BY <1>1, <1>2, <1>3, <1>4, <1>5 DEF Next, Handler

LEMMA AlwaysInv == Spec => []Inv
  BY InitInv, NextInv, PTL DEF Spec

\* Every variable keeps to its range; in particular no policy and no claim is
\* ever created outside a namespace of the service.
THEOREM TypeCorrect == Spec => []TypeOK
<1>1. Inv => TypeOK
  BY DEF Inv
<1> QED BY <1>1, AlwaysInv, PTL

\* 200 means that all three objects exist.
THEOREM OkIsComplete == Spec => []OkMeansComplete
<1>1. Inv => OkMeansComplete
  BY DEF Inv, Progress, OkMeansComplete
<1> QED BY <1>1, AlwaysInv, PTL

\* Isolation comes before storage.
THEOREM IsolatedStorage == Spec => []StorageIsIsolated
<1>1. Inv => StorageIsIsolated
  BY DEF Inv
<1> QED BY <1>1, AlwaysInv, PTL

-----------------------------------------------------------------------------
(***************************************************************************)
(* The namespace as a claim.                                                *)
(***************************************************************************)

\* A request that gives up or goes on is past no name that it was not past before.
LEMMA NobodyComesPast ==
  ASSUME Inv, UNCHANGED <<tenant, ns>>,
         \A r \in Requests : pc'[r] \in {"policy", "pvc", "ok"}
                             => pc[r] \in {"policy", "pvc", "ok"}
  PROVE  Claim!Leave
BY DEF Claim!Leave, Past

\* Each step of a handler is a step of the claim: Created is Claim, a Refused
\* that was carried out is Waste, and any other end is Leave.
THEOREM NamespaceIsClaim == Spec => ImplementsClaim
<1>1. Init => Claim!Init
  BY DEF Init, Claim!Init, Past
<1>2. Inv /\ [Next]_vars => [Claim!Next]_(Claim!vars)
  <2> SUFFICES ASSUME Inv, Next PROVE Claim!Next \/ UNCHANGED Claim!vars
    BY DEF vars, reqVars, Claim!vars, Past
  <2> USE DEF Inv, TypeOK, Goto
  <2>1. ASSUME NEW r \in Requests, CreateNamespace(r)
        PROVE  Claim!Next \/ UNCHANGED Claim!vars
    <3>1. CASE Created(ns, ns', tenant[r]) /\ Goto(r, "policy")
      <4>1. pc'[r] = "policy" /\ \A q \in Requests \ {r} : pc'[q] = pc[q]
        BY <3>1
      <4>2. \A t \in TenantIDs :
              Past'[t] = IF t = tenant[r] THEN Past[t] \cup {r} ELSE Past[t]
        BY <2>1, <4>1 DEF CreateNamespace, Past
      <4>3. Past' = [Past EXCEPT ![tenant[r]] = @ \cup {r}]
        <5>1. /\ Past  = [t \in TenantIDs |-> Past[t]]
              /\ Past' = [t \in TenantIDs |-> Past'[t]]
          BY DEF Past
        <5> QED BY <4>2, <5>1
      <4> QED BY <3>1, <4>3 DEF Created, Claim!Next, Claim!Claim
    <3>2. CASE Refused(ns, ns', tenant[r]) /\ Goto(r, "failed")
      <4>1. Past' = Past
        BY <2>1, <3>2 DEF CreateNamespace, Past
      <4>2. ns' = ns \/ (tenant[r] \notin ns /\ ns' = ns \cup {tenant[r]})
        BY <3>2 DEF Refused
      <4> QED BY <4>1, <4>2 DEF Claim!Next, Claim!Waste, Claim!vars
    <3> QED BY <2>1, <3>1, <3>2 DEF CreateNamespace
  <2>2. ASSUME NEW r \in Requests, Receive(r) \/ CreatePolicy(r) \/ CreatePVC(r)
        PROVE  Claim!Leave
    BY <2>2, NobodyComesPast DEF Receive, CreatePolicy, CreatePVC
  <2> QED BY <2>1, <2>2 DEF Next, Handler, Claim!Next
<1> QED BY <1>1, <1>2, AlwaysInv, PTL DEF Spec, ImplementsClaim, Claim!Spec

\* One request per tenant gets past the namespace.
THEOREM NamespaceLock == Spec => []NamespaceIsLock
<1>1. Spec => []Claim!Exclusive
  BY NamespaceIsClaim, Claim!AtMostOne DEF ImplementsClaim
<1>2. Inv /\ Claim!Exclusive => NamespaceIsLock
  BY DEF Inv, TypeOK, Claim!Exclusive, Past, NamespaceIsLock
<1> QED BY <1>1, <1>2, AlwaysInv, PTL

\* What is half-made and left stays half-made: only a request past the
\* namespace could add to it, and none can get there any more.
THEOREM NeverRepaired == Spec => AbandonedForGood
<1> DEFINE Stays == \A t \in TenantIDs : Abandoned(t) => Abandoned(t)'
<1>1. Inv /\ [Next]_vars => [Stays]_vars
  <2> SUFFICES ASSUME Inv, Next, NEW t \in TenantIDs, Abandoned(t)
               PROVE  Abandoned(t)'
    OBVIOUS
  <2> USE DEF Inv, TypeOK, Abandoned, Goto
  <2>1. ASSUME NEW r \in Requests, Receive(r) PROVE Abandoned(t)'
    BY <2>1 DEF Receive
  <2>2. ASSUME NEW r \in Requests, CreateNamespace(r) PROVE Abandoned(t)'
    BY <2>2 DEF CreateNamespace, Created, Refused
  <2>3. ASSUME NEW r \in Requests, CreatePolicy(r) PROVE Abandoned(t)'
    BY <2>3 DEF CreatePolicy, Created, Refused
  <2>4. ASSUME NEW r \in Requests, CreatePVC(r) PROVE Abandoned(t)'
    BY <2>4 DEF CreatePVC, Created, Refused
  <2> QED BY <2>1, <2>2, <2>3, <2>4 DEF Next, Handler
<1>2. Spec => [][Stays]_vars
  BY <1>1, AlwaysInv, PTL DEF Spec
<1> QED BY <1>2 DEF AbandonedForGood
=============================================================================
