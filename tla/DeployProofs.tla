------------------------------ MODULE DeployProofs ------------------------------
(***************************************************************************)
(* Theorems about Deploy, for any requests and microVMs.                     *)
(***************************************************************************)
EXTENDS Deploy, TLAPS

States == AtRest \cup Making \cup Removing
          \cup {"pull", "snapshot", "container", "load", "check"}

LEMMA GotoType ==
  ASSUME TypeOK, NEW r \in Requests, NEW l \in States, Goto(r, l)
  PROVE  /\ pc' \in [Requests -> States] /\ pc'[r] = l
         /\ \A s \in Requests \ {r} : pc'[s] = pc[s]
BY DEF Goto, TypeOK, States

LEMMA InitType == Init => TypeOK
<1> SUFFICES ASSUME Init PROVE TypeOK
  OBVIOUS
<1>1. pc \in [Requests -> {"idle"}]
  BY DEF Init
<1> QED BY <1>1 DEF Init, TypeOK, AtRest, Requests

\* A step of a handler moves its own control point only.
LEMMA StepMoves ==
  ASSUME TypeOK, NEW r \in Requests, DeployStep(r) \/ DeleteStep(r)
  PROVE  /\ UNCHANGED <<up, key>> /\ pc' \in [Requests -> States]
         /\ \A s \in Requests \ {r} : pc'[s] = pc[s]
         /\ pc[r] # "idle"
<1> USE DEF AtRest, Making, Removing, States
<1>1. UNCHANGED <<up, key>> /\ pc[r] # "idle"
  BY DEF DeployStep, DeleteStep, Pull, Prepare, NewContainer, NewTask, CreateTask,
         Start, Load, Check, Get, RemoveSnapshot, RemoveContainer
<1>2. PICK l \in States : Goto(r, l)
  BY DEF DeployStep, DeleteStep, Pull, Prepare, NewContainer, NewTask, CreateTask,
         Start, Load, Check, Get, RemoveSnapshot, RemoveContainer
<1> HIDE DEF States
<1> QED BY <1>1, <1>2, GotoType

LEMMA NextType == TypeOK /\ [Next]_vars => TypeOK'
<1> SUFFICES ASSUME TypeOK, [Next]_vars PROVE TypeOK'
  OBVIOUS
<1> USE DEF Requests, ctrd
<1>1. CASE Serve
  BY <1>1 DEF Serve, TypeOK
<1>2. CASE Crash
  BY <1>2 DEF Crash, TypeOK, AtRest
<1>3. ASSUME NEW r \in Deploys, ReceiveDeploy(r) PROVE TypeOK'
  <2>1. pc' \in [Requests -> States] /\ \A s \in Requests \ {r} : pc'[s] = pc[s]
    BY <1>3, GotoType DEF ReceiveDeploy, States, AtRest
  <2>2. key' \in [Requests -> Keys] /\ \A s \in Requests \ {r} : key'[s] = key[s]
    BY <1>3 DEF ReceiveDeploy, TypeOK
  <2>3. r \notin Deletes
    BY DeployConstants
  <2> QED BY <1>3, <2>1, <2>2, <2>3 DEF ReceiveDeploy, TypeOK, States
<1>4. ASSUME NEW r \in Deletes, ReceiveDelete(r) PROVE TypeOK'
  <2>1. pc' \in [Requests -> States] /\ \A s \in Requests \ {r} : pc'[s] = pc[s]
    BY <1>4, GotoType DEF ReceiveDelete, States
  <2>2. /\ key' \in [Requests -> Keys] /\ \A s \in Requests \ {r} : key'[s] = key[s]
        /\ key'[r] \in InDefault
    BY <1>4, DeployConstants DEF ReceiveDelete, TypeOK
  <2> QED BY <1>4, <2>1, <2>2 DEF ReceiveDelete, TypeOK, States
<1>5. ASSUME NEW r \in Deploys, DeployStep(r) PROVE TypeOK'
  <2>1. /\ snap' \subseteq Keys /\ cont' \subseteq Keys /\ task' \subseteq Keys
        /\ lease' \subseteq snap' \cup InDefault
    BY <1>5 DEF DeployStep, Pull, Prepare, NewContainer, NewTask, CreateTask, Start,
                TypeOK
  <2> QED BY <1>5, <2>1, StepMoves, DeployConstants DEF TypeOK, States
<1>6. ASSUME NEW r \in Deletes, DeleteStep(r) PROVE TypeOK'
  <2>1. key[r] \in InDefault
    BY <1>6, StepMoves DEF TypeOK
  <2>2. /\ snap' \subseteq Keys /\ cont' \subseteq Keys /\ UNCHANGED <<task, lease>>
        /\ lease \subseteq snap' \cup InDefault
    BY <1>6, <2>1 DEF DeleteStep, Load, Check, Get, RemoveSnapshot, RemoveContainer,
                      TypeOK
  <2> QED BY <1>6, <2>1, <2>2, StepMoves DEF TypeOK, States
<1>7. ASSUME NEW k \in Keys, LeaseExpires(k) \/ Collect(k) \/ TaskVanishes(k)
      PROVE TypeOK'
  BY <1>7 DEF LeaseExpires, Collect, TaskVanishes, TypeOK
<1>8. CASE UNCHANGED vars
  BY <1>8 DEF vars, TypeOK
<1> QED
  BY <1>1, <1>2, <1>3, <1>4, <1>5, <1>6, <1>7, <1>8 DEF Next

\* Every handler, and the service, has its own state (lines 61-164).
THEOREM TypeCorrect == Spec => []TypeOK
BY InitType, NextType, PTL DEF Spec

-----------------------------------------------------------------------------
(***************************************************************************)
(* Namespaces other than "default".                                         *)
(***************************************************************************)

\* Containers outside "default" stay, and a deploy gets beyond its own one only
\* when there was none.
LEMMA OutsideStays ==
  ASSUME TypeOK, [Next]_vars
  PROVE  /\ cont \ InDefault \subseteq cont'
         /\ \A r \in Deploys :
              pc'[r] \in Making =>
                /\ key'[r] = key[r]
                /\ \/ pc[r] \in Making
                   \/ /\ key[r] \in cont' \ cont
                      /\ \A s \in Deploys \ {r} : pc'[s] = pc[s]
<1> USE DEF Requests, ctrd, Making
<1>1. CASE Serve \/ UNCHANGED vars
  BY <1>1 DEF Serve, vars
<1>2. CASE Crash
  BY <1>2 DEF Crash
<1>3. ASSUME NEW r \in Deploys, ReceiveDeploy(r)
      PROVE  UNCHANGED cont /\ \A s \in Deploys : pc'[s] \in Making =>
               key'[s] = key[s] /\ pc[s] \in Making
  BY <1>3 DEF ReceiveDeploy, Goto, TypeOK
<1>4. ASSUME NEW r \in Deletes, ReceiveDelete(r)
      PROVE  UNCHANGED cont /\ \A s \in Deploys : pc'[s] \in Making =>
               key'[s] = key[s] /\ pc[s] \in Making
  BY <1>4 DEF ReceiveDelete, Goto, TypeOK
<1>5. ASSUME NEW r \in Deploys, DeployStep(r)
      PROVE  /\ cont \subseteq cont'
             /\ pc'[r] \in Making => pc[r] \in Making \/ key[r] \in cont' \ cont
  BY <1>5 DEF DeployStep, Pull, Prepare, NewContainer, NewTask, CreateTask, Start,
              Goto, TypeOK
<1>6. ASSUME NEW r \in Deletes, DeleteStep(r)
      PROVE  /\ cont \ InDefault \subseteq cont'
             /\ \A s \in Deploys : pc'[s] = pc[s]
  <2>1. key[r] \in InDefault /\ \A s \in Deploys : s # r
    BY <1>6, StepMoves, DeployConstants DEF TypeOK
  <2> QED BY <1>6, <2>1, StepMoves DEF DeleteStep, Load, Check, Get, RemoveSnapshot,
                                       RemoveContainer
<1>7. ASSUME NEW k \in Keys, LeaseExpires(k) \/ Collect(k) \/ TaskVanishes(k)
      PROVE  UNCHANGED <<cont, pc, key>>
  BY <1>7 DEF LeaseExpires, Collect, TaskVanishes
<1> QED
  BY <1>1, <1>2, <1>3, <1>4, <1>5, <1>6, <1>7, StepMoves DEF Next

\* A container outside "default" comes from NewContainer only.
LEMMA OnlyNewContainer ==
  ASSUME TypeOK, [Next]_vars
  PROVE  \/ UNCHANGED (cont \ InDefault)
         \/ \E r \in Deploys : /\ NewContainer(r) /\ key[r] \notin cont \cup InDefault
                               /\ cont' = cont \cup {key[r]}
<1>1. CASE \E r \in Deploys : NewContainer(r)
  BY <1>1 DEF NewContainer
<1>2. ASSUME NEW r \in Deploys, DeployStep(r), ~NewContainer(r)
      PROVE  UNCHANGED cont
  BY <1>2 DEF DeployStep, Pull, Prepare, NewTask, CreateTask, Start, ctrd
<1>3. ASSUME NEW r \in Deletes, DeleteStep(r) PROVE UNCHANGED (cont \ InDefault)
  <2>1. key[r] \in InDefault
    BY <1>3, StepMoves DEF TypeOK, Requests
  <2> QED BY <1>3, <2>1 DEF DeleteStep, Load, Check, Get, RemoveSnapshot,
                            RemoveContainer, ctrd
<1>4. CASE \/ Serve \/ Crash \/ UNCHANGED vars
           \/ \E r \in Deploys : ReceiveDeploy(r)
           \/ \E r \in Deletes : ReceiveDelete(r)
           \/ \E k \in Keys : LeaseExpires(k) \/ Collect(k) \/ TaskVanishes(k)
  BY <1>4 DEF Serve, Crash, vars, ReceiveDeploy, ReceiveDelete, LeaseExpires, Collect,
              TaskVanishes, ctrd
<1> QED BY <1>1, <1>2, <1>3, <1>4 DEF Next

\* Without a new container nobody comes beyond one.
LEMMA NobodyComesBeyond ==
  ASSUME TypeOK, [Next]_vars, UNCHANGED (cont \ InDefault)
  PROVE  Claim!Leave
<1>1. \A r \in Deploys : pc'[r] \in Making /\ key'[r] \in Outside
                        => pc[r] \in Making /\ key'[r] = key[r]
  BY OutsideStays DEF Outside
<1> QED BY <1>1 DEF Claim!Leave, Beyond

\* NewContainer that succeeds is Claim, one that fails after the container was made
\* is Waste, and everything else, the end of the service included, is Leave.
THEOREM ContainerIsClaim == Spec => ImplementsClaim
<1>1. Init => Claim!Init
  BY DEF Init, Claim!Init, Beyond, Making, Requests
<1>2. TypeOK /\ [Next]_vars => [Claim!Next]_(Claim!vars)
  <2> SUFFICES ASSUME TypeOK, [Next]_vars PROVE Claim!Next
    OBVIOUS
  <2>1. CASE UNCHANGED (cont \ InDefault)
    BY <2>1, NobodyComesBeyond DEF Claim!Next
  <2>2. ASSUME NEW r \in Deploys, NewContainer(r), key[r] \notin cont \cup InDefault,
               cont' = cont \cup {key[r]}
        PROVE  Claim!Next
    <3> DEFINE k == key[r]
    <3>1. /\ k \in Outside /\ k \notin cont \ InDefault /\ UNCHANGED key
          /\ (cont \ InDefault)' = (cont \ InDefault) \cup {k}
      BY <2>2 DEF NewContainer, Outside, TypeOK, Requests
    <3>2. CASE Goto(r, "task")
      <4>1. pc'[r] \in Making /\ \A s \in Deploys \ {r} : pc'[s] = pc[s]
        BY <3>2 DEF Goto, TypeOK, Requests, Making
      <4>2. \A j \in Outside :
              Beyond'[j] = IF j = k THEN Beyond[j] \cup {r} ELSE Beyond[j]
        BY <3>1, <4>1 DEF Beyond
      <4>3. Beyond' = [Beyond EXCEPT ![k] = @ \cup {r}]
        <5>1. /\ Beyond  = [j \in Outside |-> Beyond[j]]
              /\ Beyond' = [j \in Outside |-> Beyond'[j]]
          BY DEF Beyond
        <5> QED BY <4>2, <5>1
      <4> QED BY <3>1, <4>3 DEF Claim!Next, Claim!Claim
    <3>3. CASE Goto(r, "failed")
      <4>1. pc[r] \notin Making /\ pc'[r] \notin Making
            /\ \A s \in Deploys \ {r} : pc'[s] = pc[s]
        BY <2>2, <3>3 DEF NewContainer, Goto, TypeOK, Requests, Making
      <4>2. Beyond' = Beyond
        BY <3>1, <4>1 DEF Beyond
      <4> QED BY <3>1, <4>2 DEF Claim!Next, Claim!Waste
    <3> QED BY <2>2, <3>2, <3>3 DEF NewContainer
  <2> QED BY <2>1, <2>2, OnlyNewContainer
<1> QED BY <1>1, <1>2, TypeCorrect, PTL DEF Spec, ImplementsClaim, Claim!Spec

\* However many deploys of one name outside "default" run at once, one of them at
\* most is beyond its container (lines 82-92, 150).
THEOREM DeployersDiffer == Spec => []OneDeployer
<1>1. Spec => []Claim!Exclusive
  BY ContainerIsClaim, Claim!AtMostOne DEF ImplementsClaim
<1>2. TypeOK /\ Claim!Exclusive => OneDeployer
  BY DEF TypeOK, Requests, Claim!Exclusive, Outside, Beyond, OneDeployer
<1> QED BY <1>1, <1>2, TypeCorrect, PTL

\* There, what one deploy has left, or finished, no later one gets beyond: its name is
\* closed to all (lines 82-104, 150).
THEOREM NamesAreUsedUp == Spec => UsedUpForGood
<1> DEFINE Kept == \A k \in Keys : UsedUp(k) => UsedUp(k)'
<1>1. Spec => [][Claim!NoneNew]_(Claim!vars)
  BY ContainerIsClaim, Claim!OnceForAll DEF ImplementsClaim, Claim!Closed
<1>2. \A k \in Keys : UsedUp(k) <=> k \in cont \ InDefault /\ Beyond[k] = {}
  BY DEF UsedUp, Outside, Beyond
<1>3. \A k \in Keys : UsedUp(k)' <=> k \in (cont \ InDefault)' /\ Beyond'[k] = {}
  BY DEF UsedUp, Outside, Beyond
<1>4. [Claim!NoneNew]_(Claim!vars) => [Kept]_vars
  BY <1>2, <1>3 DEF Claim!vars, Claim!NoneNew
<1>5. Spec => [][Kept]_vars
  BY <1>1, <1>4, PTL
<1> QED BY <1>5 DEF UsedUpForGood

=============================================================================
