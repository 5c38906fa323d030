------------------------- MODULE OrchestratorProofs -------------------------
(***************************************************************************)
(* Theorems about Orchestrator, for any set of creates and stops.           *)
(***************************************************************************)
EXTENDS Orchestrator, FiniteSetTheorems, FunctionTheorems, TLAPS

-----------------------------------------------------------------------------
(***************************************************************************)
(* Types                                                                    *)
(*                                                                         *)
(* That len(instances)+1 names one of as many ids as there are creates      *)
(* follows from the map being injective: an entry is the instance of an     *)
(* answered create, under the id of that create.                            *)
(***************************************************************************)

\* Who is in the map, and whom a stop holds.
Entries ==
  /\ \A i \in Ids : instances[i] # None
       => cpc[instances[i]] = "ok" /\ id[instances[i]] = i
  /\ \A s \in Stops : spc[s] \in {"kill", "delete", "ok", "failed"}
       => /\ found[s] \in Creates
          /\ cpc[found[s]] = "ok" /\ id[found[s]] = sid[s]

Inv == TypeOK /\ Entries

LEMMA CreatesCount ==
  Cardinality(Creates) \in Nat /\ Cardinality(Creates) >= 1
<1>1. Cardinality(Creates) \in Nat /\ Cardinality(Creates) # 0
  BY RequestsOK, FS_CardinalityType, FS_EmptySet
<1> QED BY <1>1

LEMMA InitInv == Init => Inv
  BY CreatesCount DEF Init, Inv, TypeOK, Entries, Ids, Listed

\* The map has no more entries than creates were answered.
LEMMA NextIdInRange ==
  ASSUME Inv, NEW c \in Creates, cpc[c] = "idle"
  PROVE  Cardinality(Listed) + 1 \in Ids
<1>1. \A i \in Listed : instances[i] \in Creates \ {c}
  BY RequestsOK DEF Inv, TypeOK, Entries, Listed
<1>2. \A i, j \in Listed : instances[i] = instances[j] => i = j
  BY DEF Inv, Entries, Listed
<1>3. /\ IsFiniteSet(Creates \ {c})
      /\ Cardinality(Creates \ {c}) = Cardinality(Creates) - 1
  BY RequestsOK, FS_RemoveElement
<1>4. [i \in Listed |-> instances[i]] \in Injection(Listed, Creates \ {c})
  BY <1>1, <1>2 DEF Injection, IsInjective
<1>5. /\ IsFiniteSet(Listed)
      /\ Cardinality(Listed) <= Cardinality(Creates) - 1
  BY <1>3, <1>4, FS_Injection
<1>6. Cardinality(Listed) \in Nat
  BY <1>5, FS_CardinalityType
<1> QED BY <1>5, <1>6, CreatesCount DEF Ids

LEMMA NextInv == Inv /\ [Next]_vars => Inv'
<1> SUFFICES ASSUME Inv, [Next]_vars PROVE Inv'
  OBVIOUS
<1> USE RequestsOK DEF Inv, TypeOK, Entries, createVars, stopVars
<1>1. ASSUME NEW c \in Creates, ReadLen(c) PROVE Inv'
  <2>1. Cardinality(Listed) + 1 \in Ids
    BY <1>1, NextIdInRange DEF ReadLen
  <2> QED BY <1>1, <2>1 DEF ReadLen
<1>2. ASSUME NEW c \in Creates, StartProcess(c) PROVE Inv'
  BY <1>2 DEF StartProcess
<1>3. ASSUME NEW c \in Creates, StoreInstance(c) PROVE Inv'
  BY <1>3 DEF StoreInstance
<1>4. ASSUME NEW s \in Stops, LookUp(s) PROVE Inv'
  BY <1>4 DEF LookUp
<1>5. ASSUME NEW s \in Stops, KillProcess(s) PROVE Inv'
  BY <1>5 DEF KillProcess, Live
<1>6. ASSUME NEW s \in Stops, DeleteInstance(s) PROVE Inv'
  BY <1>6 DEF DeleteInstance
<1>7. ASSUME NEW c \in Creates, OpenSocket(c) PROVE Inv'
  BY <1>7 DEF OpenSocket
<1>8. ASSUME NEW c \in Creates, Die(c) PROVE Inv'
  BY <1>8 DEF Die
<1>9. CASE UNCHANGED vars
  BY <1>9 DEF vars
<1> QED
  BY <1>1, <1>2, <1>3, <1>4, <1>5, <1>6, <1>7, <1>8, <1>9
  DEF Next, Create, Stop, Process

\* Every variable keeps to its range; in particular no id is ever derived that
\* exceeds the number of creates.
THEOREM TypeCorrect == Spec => []TypeOK
<1>1. Inv => TypeOK
  BY DEF Inv
<1> QED BY <1>1, InitInv, NextInv, PTL DEF Spec

-----------------------------------------------------------------------------
(***************************************************************************)
(* Stopping                                                                 *)
(*                                                                         *)
(* A stop holds an instance of an answered create, whose process nothing    *)
(* starts again, and the entry it deletes is the only one that can lead to  *)
(* that instance.                                                           *)
(***************************************************************************)

\* What a stop has achieved once it has killed.
Stopped ==
  /\ \A s \in Stops : spc[s] \in {"delete", "ok"} => ~Live(found[s])
  /\ \A s \in Stops : spc[s] = "ok" => \A i \in Ids : instances[i] # found[s]

\* Every step keeps what stops have achieved.
LEMMA NextStopped == Inv /\ Stopped /\ [Next]_vars => Stopped'
<1> SUFFICES ASSUME Inv, Stopped, [Next]_vars PROVE Stopped'
  OBVIOUS
<1> USE RequestsOK
    DEF Inv, TypeOK, Entries, Stopped, Live, createVars, stopVars
<1>1. ASSUME NEW c \in Creates, ReadLen(c) PROVE Stopped'
  BY <1>1 DEF ReadLen
<1>2. ASSUME NEW c \in Creates, StartProcess(c) PROVE Stopped'
  BY <1>2 DEF StartProcess
<1>3. ASSUME NEW c \in Creates, StoreInstance(c) PROVE Stopped'
  BY <1>3 DEF StoreInstance
<1>4. ASSUME NEW s \in Stops, LookUp(s) PROVE Stopped'
  BY <1>4 DEF LookUp
<1>5. ASSUME NEW s \in Stops, KillProcess(s) PROVE Stopped'
  BY <1>5 DEF KillProcess
<1>6. ASSUME NEW s \in Stops, DeleteInstance(s) PROVE Stopped'
  BY <1>6 DEF DeleteInstance
<1>7. ASSUME NEW c \in Creates, OpenSocket(c) PROVE Stopped'
  BY <1>7 DEF OpenSocket
<1>8. ASSUME NEW c \in Creates, Die(c) PROVE Stopped'
  BY <1>8 DEF Die
<1>9. CASE UNCHANGED vars
  BY <1>9 DEF vars
<1> QED
  BY <1>1, <1>2, <1>3, <1>4, <1>5, <1>6, <1>7, <1>8, <1>9
  DEF Next, Create, Stop, Process

\* A stop answered with 200 has ended its process, for good.
THEOREM StopsForGood == Spec => []StoppedForGood
<1>1. Init => Stopped
  BY DEF Init, Stopped
<1>2. Stopped => StoppedForGood
  BY DEF Stopped, StoppedForGood
<1> QED BY <1>1, <1>2, InitInv, NextInv, NextStopped, PTL DEF Spec

-----------------------------------------------------------------------------
(***************************************************************************)
(* Losing a process                                                         *)
(***************************************************************************)

\* Only a second holder of its id can take a live process out of the map: the
\* entry a stop deletes is live, its own process is not, so they are two.
LEMMA NextLost ==
  Inv /\ Stopped /\ LostOnlyByCollision /\ [Next]_vars
    => LostOnlyByCollision'
<1> SUFFICES ASSUME Inv, Stopped, LostOnlyByCollision, [Next]_vars,
                    NEW c \in Creates, (cpc[c] = "ok" /\ Live(c))'
             PROVE  \/ (instances[id[c]] = c)'
                    \/ \E d \in Creates \ {c} : cpc'[d] # "idle" /\ id'[d] = id'[c]
  BY DEF LostOnlyByCollision
<1> DEFINE Kept == (instances[id[c]] = c)'
           Collided == \E d \in Creates \ {c} : cpc'[d] # "idle" /\ id'[d] = id'[c]
<1> USE RequestsOK
    DEF Inv, TypeOK, Entries, LostOnlyByCollision, Live, createVars, stopVars
<1>1. ASSUME NEW b \in Creates, ReadLen(b) PROVE Kept \/ Collided
  BY <1>1 DEF ReadLen
<1>2. ASSUME NEW b \in Creates, StartProcess(b) PROVE Kept \/ Collided
  BY <1>2 DEF StartProcess
<1>3. ASSUME NEW b \in Creates, StoreInstance(b) PROVE Kept \/ Collided
  <2>1. CASE b = c
    BY <1>3, <2>1 DEF StoreInstance
  <2>2. CASE b # c /\ id[b] = id[c]
    BY <1>3, <2>2 DEF StoreInstance
  <2>3. CASE b # c /\ id[b] # id[c]
    BY <1>3, <2>3 DEF StoreInstance
  <2> QED BY <2>1, <2>2, <2>3
<1>4. ASSUME NEW s \in Stops, LookUp(s) PROVE Kept \/ Collided
  BY <1>4 DEF LookUp
<1>5. ASSUME NEW s \in Stops, KillProcess(s) PROVE Kept \/ Collided
  BY <1>5 DEF KillProcess
<1>6. ASSUME NEW s \in Stops, DeleteInstance(s) PROVE Kept \/ Collided
  <2>1. CASE instances[id[c]] = c /\ sid[s] = id[c]
    <3>1. ~Live(found[s])
      BY <1>6 DEF DeleteInstance, Stopped
    <3>2. found[s] \in Creates \ {c} /\ cpc[found[s]] = "ok" /\ id[found[s]] = id[c]
      BY <1>6, <2>1, <3>1 DEF DeleteInstance
    <3> QED BY <1>6, <3>2 DEF DeleteInstance
  <2>2. CASE ~(instances[id[c]] = c /\ sid[s] = id[c])
    BY <1>6, <2>2 DEF DeleteInstance
  <2> QED BY <2>1, <2>2
<1>7. ASSUME NEW b \in Creates, OpenSocket(b) PROVE Kept \/ Collided
  BY <1>7 DEF OpenSocket
<1>8. ASSUME NEW b \in Creates, Die(b) PROVE Kept \/ Collided
  BY <1>8 DEF Die
<1>9. CASE UNCHANGED vars
  BY <1>9 DEF vars
<1> QED
  BY <1>1, <1>2, <1>3, <1>4, <1>5, <1>6, <1>7, <1>8, <1>9
  DEF Next, Create, Stop, Process

\* No interleaving of creates and stops loses a live process, but for two
\* creates that were given one id.
THEOREM LostByCollision == Spec => []LostOnlyByCollision
<1>1. Init => Stopped /\ LostOnlyByCollision
  BY DEF Init, Stopped, LostOnlyByCollision
<1> QED BY <1>1, InitInv, NextInv, NextStopped, NextLost, PTL DEF Spec

-----------------------------------------------------------------------------
(***************************************************************************)
(* Sharing an id                                                            *)
(*                                                                         *)
(* A create derives its id before it has a process, and a process that      *)
(* serves has its socket file in /tmp: the second to open it finds the file *)
(* of the first.                                                            *)
(***************************************************************************)

Serving ==
  \A c \in Creates : /\ cpc[c] \in {"idle", "start"} => proc[c] = "none"
                     /\ proc[c] = "running" => id[c] \in sockets

\* A process begins to serve only while no other of its id does, and no step
\* changes the id of one that does.
LEMMA NextServing ==
  Inv /\ Serving /\ OneRunsPerId /\ [Next]_vars => Serving' /\ OneRunsPerId'
<1> SUFFICES ASSUME Inv, Serving, OneRunsPerId, [Next]_vars
             PROVE  Serving' /\ OneRunsPerId'
  OBVIOUS
<1> USE DEF Inv, TypeOK, Entries, Serving, OneRunsPerId, Live, createVars, stopVars
<1>1. ASSUME NEW c \in Creates, ReadLen(c) PROVE Serving' /\ OneRunsPerId'
  BY <1>1 DEF ReadLen
<1>2. ASSUME NEW c \in Creates, StartProcess(c) PROVE Serving' /\ OneRunsPerId'
  BY <1>2 DEF StartProcess
<1>3. ASSUME NEW c \in Creates, StoreInstance(c) PROVE Serving' /\ OneRunsPerId'
  BY <1>3 DEF StoreInstance
<1>4. ASSUME NEW s \in Stops, LookUp(s) PROVE Serving' /\ OneRunsPerId'
  BY <1>4 DEF LookUp
<1>5. ASSUME NEW s \in Stops, KillProcess(s) PROVE Serving' /\ OneRunsPerId'
  BY <1>5 DEF KillProcess
<1>6. ASSUME NEW s \in Stops, DeleteInstance(s) PROVE Serving' /\ OneRunsPerId'
  BY <1>6 DEF DeleteInstance
<1>7. ASSUME NEW c \in Creates, OpenSocket(c) PROVE Serving' /\ OneRunsPerId'
  BY <1>7 DEF OpenSocket
<1>8. ASSUME NEW c \in Creates, Die(c) PROVE Serving' /\ OneRunsPerId'
  BY <1>8 DEF Die
<1>9. CASE UNCHANGED vars
  BY <1>9 DEF vars
<1> QED
  BY <1>1, <1>2, <1>3, <1>4, <1>5, <1>6, <1>7, <1>8, <1>9
  DEF Next, Create, Stop, Process

\* Of any creates that were given one id, at most one has a firecracker that
\* serves.
THEOREM OneServes == Spec => []OneRunsPerId
<1>1. Init => Serving /\ OneRunsPerId
  BY DEF Init, Serving, OneRunsPerId
<1> QED BY <1>1, InitInv, NextInv, NextServing, PTL DEF Spec

-----------------------------------------------------------------------------
(***************************************************************************)
(* Fresh ids                                                                *)
(*                                                                         *)
(* As long as nothing is deleted the ids in the map are 1..k, and a create  *)
(* that is under way was given at most k+1.                                 *)
(***************************************************************************)

\* The ids given out when k of them are in the map.
Dense(k) ==
  /\ Listed = 1..k
  /\ \A c \in Creates :
       /\ cpc[c] \in {"start", "store"} => id[c] <= k + 1
       /\ cpc[c] = "ok" => id[c] \in 1..k

NoStopYet == \A s \in Stops : spc[s] # "ok"
Fresh     == NoStopYet => \E k \in Nat : Dense(k)

\* len(instances) of a dense map.
LEMMA ListedCount ==
  ASSUME NEW k \in Nat, Dense(k)
  PROVE  Cardinality(Listed) = k
BY FS_Interval DEF Dense

\* Every step but a delete keeps the map dense.
LEMMA NextFresh == Inv /\ Fresh /\ [Next]_vars => Fresh'
<1> SUFFICES ASSUME Inv, Fresh, [Next]_vars, NoStopYet'
             PROVE  \E k \in Nat : Dense(k)'
  BY DEF Fresh
<1> USE RequestsOK DEF Inv, TypeOK, createVars, stopVars
<1>0. NoStopYet
  <2>1. ASSUME NEW s \in Stops, spc[s] = "ok" PROVE spc'[s] = "ok"
    BY <2>1 DEF Next, Create, Stop, Process, ReadLen, StartProcess,
       StoreInstance, LookUp, KillProcess, DeleteInstance, OpenSocket, Die,
       vars
  <2> QED BY <2>1 DEF NoStopYet
<1>k. PICK k \in Nat : Dense(k)
  BY <1>0 DEF Fresh
<1>1. ASSUME NEW c \in Creates, ReadLen(c) PROVE Dense(k)'
  <2>1. id' = [id EXCEPT ![c] = k + 1]
    BY <1>1, <1>k, ListedCount DEF ReadLen
  <2>2. Listed' = 1..k
    BY <1>1, <1>k DEF ReadLen, Dense, Listed
  <2>3. \A d \in Creates : cpc'[d] = "ok" => cpc[d] = "ok" /\ d # c
    BY <1>1 DEF ReadLen
  <2>4. \A d \in Creates : d # c => id'[d] = id[d] /\ cpc'[d] = cpc[d]
    BY <1>1, <2>1 DEF ReadLen
  <2>5. id'[c] = k + 1
    BY <2>1
  <2> QED BY <1>k, <2>2, <2>3, <2>4, <2>5 DEF Dense
<1>2. ASSUME NEW c \in Creates, StartProcess(c) PROVE Dense(k)'
  BY <1>2, <1>k DEF StartProcess, Dense, Listed
<1>3. ASSUME NEW c \in Creates, StoreInstance(c) PROVE Dense(k)' \/ Dense(k + 1)'
  <2>1. /\ id[c] \in Ids /\ id[c] <= k + 1
        /\ Listed' = Listed \cup {id[c]}
    BY <1>3, <1>k DEF StoreInstance, Dense, Listed
  <2>2. CASE id[c] \in 1..k
    <3>1. Listed' = 1..k
      BY <1>k, <2>1, <2>2 DEF Dense
    <3> QED BY <1>3, <1>k, <2>2, <3>1 DEF StoreInstance, Dense
  <2>3. CASE id[c] \notin 1..k
    <3>1. id[c] = k + 1
      BY <2>1, <2>3, CreatesCount DEF Ids
    <3>2. Listed' = 1..(k + 1)
      BY <1>k, <2>1, <3>1 DEF Dense
    <3>3. \A d \in Creates : id[d] \in Nat
      BY CreatesCount DEF Ids
    <3> QED BY <1>3, <1>k, <3>1, <3>2, <3>3 DEF StoreInstance, Dense
  <2> QED BY <2>2, <2>3
<1>4. ASSUME NEW s \in Stops, LookUp(s) PROVE Dense(k)'
  BY <1>4, <1>k DEF LookUp, Dense, Listed
<1>5. ASSUME NEW s \in Stops, KillProcess(s) PROVE Dense(k)'
  BY <1>5, <1>k DEF KillProcess, Dense, Listed
<1>6. ASSUME NEW s \in Stops, DeleteInstance(s) PROVE FALSE
  BY <1>6 DEF DeleteInstance, NoStopYet
<1>7. ASSUME NEW c \in Creates, OpenSocket(c) PROVE Dense(k)'
  BY <1>7, <1>k DEF OpenSocket, Dense, Listed
<1>8. ASSUME NEW c \in Creates, Die(c) PROVE Dense(k)'
  BY <1>8, <1>k DEF Die, Dense, Listed
<1>9. CASE UNCHANGED vars
  BY <1>9, <1>k DEF vars, Dense, Listed
<1>10. k + 1 \in Nat
  OBVIOUS
<1> QED
  BY <1>1, <1>2, <1>3, <1>4, <1>5, <1>6, <1>7, <1>8, <1>9, <1>10
  DEF Next, Create, Stop, Process

\* As long as no stop was answered, only overlapping creates can be given one
\* id.
THEOREM FreshIds == Spec => FreshUntilStop
<1> DEFINE Given == \A c, d \in Creates :
             /\ cpc[c] = "idle" /\ cpc'[c] = "start" /\ cpc[d] = "ok"
             /\ \A s \in Stops : spc[s] # "ok"
             => id'[c] # id[d]
<1>1. Init => Fresh
  <2>1. Init => Dense(0)
    BY DEF Init, Dense, Listed
  <2> QED BY <2>1 DEF Fresh
<1>2. Inv /\ Fresh /\ [Next]_vars => [Given]_vars
  <2> SUFFICES ASSUME Inv, Fresh, [Next]_vars, ~UNCHANGED vars,
                      NEW c \in Creates, NEW d \in Creates,
                      cpc[c] = "idle", cpc'[c] = "start", cpc[d] = "ok",
                      NoStopYet
               PROVE  id'[c] # id[d]
    BY DEF NoStopYet
  <2>1. ReadLen(c)
    BY DEF Inv, TypeOK, Next, Create, Stop, Process, ReadLen, StartProcess,
       StoreInstance, LookUp, KillProcess, DeleteInstance, OpenSocket, Die,
       vars, createVars, stopVars
  <2>2. PICK k \in Nat : Dense(k)
    BY DEF Fresh
  <2>3. id'[c] = k + 1
    BY <2>1, <2>2, ListedCount DEF ReadLen, Inv, TypeOK
  <2>4. id[d] \in 1..k
    BY <2>2 DEF Dense
  <2> QED BY <2>3, <2>4
<1>3. Spec => [][Given]_vars
  BY <1>1, <1>2, InitInv, NextInv, NextFresh, PTL DEF Spec
<1> QED BY <1>3 DEF FreshUntilStop
=============================================================================
