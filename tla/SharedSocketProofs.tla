--------------------------- MODULE SharedSocketProofs ---------------------------
(***************************************************************************)
(* Theorems about SharedSocket, for any number of nodes.                    *)
(***************************************************************************)
EXTENDS SharedSocket, FiniteSetTheorems, FunctionTheorems, TLAPS

-----------------------------------------------------------------------------
(***************************************************************************)
(* Types                                                                    *)
(***************************************************************************)

LEMMA InitType == Init => TypeOK
<1> SUFFICES ASSUME Init PROVE TypeOK
  OBVIOUS
<1> USE DEF All, Nobody
<1>1. 1 \in Nodes /\ 1 \in 1..(NodeCount + 1)
  BY SharedSocketConstants DEF Nodes
<1>2. /\ npc \in [Nodes -> {"idle"}] /\ dir \in [Nodes -> {FALSE}]
      /\ proc \in [Nodes -> {"none"}]
      /\ cfg \in [Nodes -> {0}] /\ by \in [Nodes -> {0}]
  BY DEF Init
<1> QED BY <1>1, <1>2 DEF Init, TypeOK, Master

LEMMA StartFailsType ==
  ASSUME TypeOK, NEW n \in Nodes, StartFails(n),
         npc[n] \notin {"idle", "prepare", "launch"}
  PROVE  /\ npc' \in [Nodes -> {"idle", "prepare", "launch", "wait", "config",
                                "boot"} \cup Ended]
         /\ swept' \subseteq Nodes
         /\ at' \in {at, Nobody}
         /\ npc'[n] = "failed"
         /\ \A m \in Nodes : npc'[m] = "idle" <=> npc[m] = "idle"
         /\ \A m \in Nodes : npc'[m] \in {"idle", "prepare", "launch"}
                             => npc[m] \in {"idle", "prepare", "launch"}
BY DEF TypeOK, StartFails, Goto, Ended

LEMMA NextType == TypeOK /\ [Next]_vars => TypeOK'
<1> SUFFICES ASSUME TypeOK, [Next]_vars PROVE TypeOK'
  OBVIOUS
<1> USE SharedSocketConstants DEF Nodes, Master, Nobody, Ended, mainVars, sdkVars, Goto
<1>1. CASE MkBaseDir
  BY <1>1 DEF MkBaseDir, TypeOK
<1>2. CASE SpawnNodes
  <2>1. /\ npc' \in [Nodes -> {"prepare"}] /\ pc' = "wait"
        /\ \A n \in Nodes : proc[n] = "none"
    BY <1>2 DEF SpawnNodes, TypeOK, All
  <2> QED BY <1>2, <2>1 DEF SpawnNodes, TypeOK
<1>3. CASE WaitNodes
  <2>1. pc' \in {"cleanup", "configure"}
    BY <1>3 DEF WaitNodes
  <2>2. target \in Nodes
    BY <1>3 DEF WaitNodes, TypeOK
  <2> QED BY <1>3, <2>1, <2>2 DEF WaitNodes, TypeOK
<1>4. CASE Configure
  <2> DEFINE last == step \in {"token", "join"}
  <2>1. target \in Nodes /\ step' \in {"ssh", "init", "calico", "token", "join"}
    BY <1>4 DEF Configure, TypeOK, Following
  <2>2. /\ target' \in 1..(NodeCount + 1)
        /\ pc' \in {"configure", "cleanup", "ok"}
        /\ pc' = "configure" => target' \in Nodes
    BY <1>4, <2>1 DEF Configure
  <2> QED BY <1>4, <2>1, <2>2 DEF Configure, TypeOK
<1>5. CASE Cleanup
  <2>1. dir' \in [Nodes -> BOOLEAN]
    <3>1. All(FALSE) \in [Nodes -> BOOLEAN] /\ dir \in [Nodes -> BOOLEAN]
      BY DEF All, TypeOK
    <3>2. \A n \in Nodes : [All(FALSE) EXCEPT ![n] = dir[n]] \in [Nodes -> BOOLEAN]
      BY <3>1
    <3> QED BY <1>5, <3>1, <3>2 DEF Cleanup
  <2> QED BY <1>5, <2>1 DEF Cleanup, TypeOK
<1>6. ASSUME NEW n \in Nodes, Prepare(n) PROVE TypeOK'
  BY <1>6 DEF Prepare, TypeOK
<1>7. ASSUME NEW n \in Nodes, Launch(n) PROVE TypeOK'
  <2>1. proc[n] = "none" /\ by[n] = 0
    BY <1>7 DEF Launch, TypeOK
  <2>2. CASE /\ at = Nobody /\ proc' = [proc EXCEPT ![n] = "spawned"]
             /\ npc' = [npc EXCEPT ![n] = "wait"]
    BY <1>7, <2>1, <2>2 DEF Launch, TypeOK
  <2>3. CASE npc' = [npc EXCEPT ![n] = "failed"] /\ UNCHANGED proc
    BY <1>7, <2>3 DEF Launch, TypeOK
  <2> QED BY <1>7, <2>2, <2>3 DEF Launch
<1>8. ASSUME NEW n \in Nodes, WaitForSocket(n) PROVE TypeOK'
  <2>1. CASE StartFails(n)
    BY <1>8, <2>1, StartFailsType DEF WaitForSocket, TypeOK
  <2>2. CASE Goto(n, "config") /\ UNCHANGED <<at, swept>>
    BY <1>8, <2>2 DEF WaitForSocket, TypeOK
  <2> QED BY <1>8, <2>1, <2>2 DEF WaitForSocket
<1>9. ASSUME NEW n \in Nodes, SendConfig(n) PROVE TypeOK'
  <2>1. CASE StartFails(n) /\ UNCHANGED cfg
    BY <1>9, <2>1, StartFailsType DEF SendConfig, TypeOK
  <2>2. ASSUME NEW v \in Open, cfg' = [cfg EXCEPT ![v] = n],
               Goto(n, "boot"), UNCHANGED <<at, swept>>
        PROVE TypeOK'
    BY <1>9, <2>2 DEF SendConfig, TypeOK, Open, Live
  <2> QED BY <1>9, <2>1, <2>2 DEF SendConfig
<1>10. ASSUME NEW n \in Nodes, StartInstance(n) PROVE TypeOK'
  <2>1. CASE StartFails(n) /\ UNCHANGED by
    BY <1>10, <2>1, StartFailsType DEF StartInstance, TypeOK
  <2>2. ASSUME NEW v \in Open, cfg[v] # Nobody, by' = [by EXCEPT ![v] = n],
               (Goto(n, "up") /\ UNCHANGED <<at, swept>>) \/ StartFails(n)
        PROVE TypeOK'
    <3>1. CASE Goto(n, "up") /\ UNCHANGED <<at, swept>>
      BY <1>10, <2>2, <3>1 DEF StartInstance, TypeOK, Open, Live
    <3>2. CASE StartFails(n)
      BY <1>10, <2>2, <3>2, StartFailsType DEF StartInstance, TypeOK, Open, Live
    <3> QED BY <2>2, <3>1, <3>2
  <2> QED BY <1>10, <2>1, <2>2 DEF StartInstance
<1>11. ASSUME NEW v \in Nodes, Bind(v) PROVE TypeOK'
  <2>1. CASE at = Nobody
    BY <1>11, <2>1 DEF Bind, TypeOK
  <2>2. CASE at # Nobody
    <3>1. /\ UNCHANGED <<mainVars, npc, dir, at, cfg, by, swept>>
          /\ proc[v] = "spawned" /\ proc' = [proc EXCEPT ![v] = "refused"]
      BY <1>11, <2>2 DEF Bind
    <3>2. at # v /\ by[v] = Nobody /\ npc[v] \notin {"idle", "prepare", "launch"}
      BY <3>1 DEF TypeOK
    <3> QED BY <3>1, <3>2 DEF TypeOK
  <2> QED BY <2>1, <2>2
<1>12. ASSUME NEW v \in Nodes, Die(v) PROVE TypeOK'
  BY <1>12 DEF Die, TypeOK
<1>13. ASSUME NEW v \in Nodes, Sweep(v) PROVE TypeOK'
  BY <1>13 DEF Sweep, TypeOK
<1>14. CASE UNCHANGED vars
  BY <1>14 DEF vars, TypeOK
<1>15. CASE CallerEnds
  BY <1>15 DEF CallerEnds, TypeOK
<1> QED
  BY <1>1, <1>2, <1>3, <1>4, <1>5, <1>6, <1>7, <1>8, <1>9, <1>10, <1>11,
     <1>12, <1>13, <1>14, <1>15 DEF Next, MainStep, NodeStep, External

-----------------------------------------------------------------------------
(***************************************************************************)
(* The invariant.                                                           *)
(***************************************************************************)

\* What Provision knows of the goroutines, and that only Cleanup cancels.
Control ==
  /\ pc \in {"configure", "ok"} => \A n \in Nodes : npc[n] = "up"
  /\ pc \in {"cleanup", "err"} => \A n \in Nodes : npc[n] \in Ended
  /\ ctxDone => pc \in {"err", "gone"}

\* A Start that returned nil has started a guest.
Starters == \A n \in Nodes : npc[n] = "up" => \E v \in Nodes : by[v] = n

\* As long as no Start failed and no process was refused its socket, the path
\* leads to the one process that is alive, or that ended last.
AllWell ==
  /\ \A n \in Nodes : npc[n] # "failed" /\ proc[n] # "refused"
  /\ ~ctxDone

OnPath ==
  AllWell =>
    /\ \A v \in Live : v = at
    /\ \A v \in Nodes : proc[v] = "dead" /\ v \notin swept => v = at
    /\ \A v \in swept : proc[v] = "dead"

\* Once the master was reached it is the only one that can be.
Stage ==
  NodeCount > 1 =>
    /\ pc # "ok"
    /\ pc = "configure" /\ target # Master
         => /\ target = 2 /\ step = "ssh"
    /\ pc = "configure" /\ target = Master => step # "join"
    /\ pc = "configure" /\ (target # Master \/ step # "ssh")
         => \A v \in Live : cfg[v] = Master
    /\ pc \in {"mkBase", "spawn", "wait"} => target = Master /\ step = "ssh"

Inv == TypeOK /\ Control /\ Starters /\ OnPath

LEMMA InitInv == Init => Inv /\ Stage
<1> SUFFICES ASSUME Init PROVE Control /\ Starters /\ OnPath /\ Stage
  BY InitType DEF Inv
<1> QED
  BY DEF Init, Control, Starters, OnPath, Stage, All, Live, Ended

LEMMA NextControl == Inv /\ [Next]_vars => Control'
<1> SUFFICES ASSUME Inv, [Next]_vars PROVE Control'
  OBVIOUS
<1> USE DEF Inv, TypeOK, Control, Ended, mainVars, sdkVars, Goto
<1>1. CASE MainStep \/ Configure
  <2>1. CASE MkBaseDir \/ SpawnNodes
    <3>1. pc' \in {"spawn", "wait", "noBase"} /\ ~ctxDone'
      BY <2>1 DEF MkBaseDir, SpawnNodes
    <3> QED BY <3>1
  <2>2. CASE WaitNodes
    <3>1. UNCHANGED <<npc, ctxDone>> /\ ~ctxDone /\ \A n \in Nodes : npc[n] \in Ended
      BY <2>2 DEF WaitNodes
    <3>2. pc' = "cleanup" \/ (pc' = "configure" /\ \A n \in Nodes : npc[n] # "failed")
      BY <2>2 DEF WaitNodes
    <3> QED BY <3>1, <3>2
  <2>3. CASE Configure
    <3>1. UNCHANGED <<npc, ctxDone>> /\ pc' \in {"configure", "cleanup", "ok"}
      BY <2>3 DEF Configure
    <3>2. ~ctxDone /\ \A n \in Nodes : npc[n] = "up"
      BY <2>3 DEF Configure
    <3> QED BY <3>1, <3>2
  <2>4. CASE Cleanup
    <3>1. pc' = "err" /\ UNCHANGED npc /\ \A n \in Nodes : npc[n] \in Ended
      BY <2>4 DEF Cleanup
    <3> QED BY <3>1
  <2> QED BY <1>1, <2>1, <2>2, <2>3, <2>4 DEF MainStep
<1>2. ASSUME NEW n \in Nodes, NodeStep(n) PROVE Control'
  <2>1. npc[n] \notin Ended \cup {"idle"} /\ UNCHANGED mainVars
    BY <1>2 DEF NodeStep, Prepare, Launch, WaitForSocket, SendConfig, StartInstance
  <2> QED BY <2>1
<1>3. ASSUME NEW v \in Nodes, External(v) PROVE Control'
  BY <1>3 DEF External, Bind, Die, Sweep
<1>4. CASE CallerEnds \/ UNCHANGED vars
  BY <1>4 DEF CallerEnds, vars
<1> QED
  BY <1>1, <1>2, <1>3, <1>4 DEF Next

LEMMA NextStarters == Inv /\ [Next]_vars => Starters'
<1> SUFFICES ASSUME Inv, [Next]_vars PROVE Starters'
  OBVIOUS
<1> USE DEF Inv, Starters, mainVars, sdkVars, Goto
<1>1. CASE MainStep \/ Configure
  BY <1>1 DEF MainStep, MkBaseDir, SpawnNodes, WaitNodes, Configure, Cleanup, All
<1>2. ASSUME NEW n \in Nodes, StartInstance(n) PROVE Starters'
  <2>1. /\ npc \in [Nodes -> {"idle", "prepare", "launch", "wait", "config", "boot"}
                             \cup Ended]
        /\ by \in [Nodes -> Nodes \cup {Nobody}]
    BY DEF TypeOK
  <2>2. CASE StartFails(n) /\ UNCHANGED by
    BY <2>1, <2>2 DEF StartFails
  <2>3. ASSUME NEW v \in Open, by' = [by EXCEPT ![v] = n],
               npc' = [npc EXCEPT ![n] = "up"] \/ npc' = [npc EXCEPT ![n] = "failed"]
        PROVE Starters'
    <3>1. v \in Nodes /\ by[v] = Nobody
      BY DEF Open, Live
    <3>2. by'[v] = n /\ \A w \in Nodes : w # v => by'[w] = by[w]
      BY <2>1, <2>3, <3>1
    <3>3. ASSUME NEW m \in Nodes, npc'[m] = "up" PROVE \E w \in Nodes : by'[w] = m
      <4>1. CASE m = n
        BY <3>1, <3>2, <4>1
      <4>2. CASE m # n
        <5>1. PICK w \in Nodes : by[w] = m
          BY <2>1, <2>3, <3>3, <4>2
        <5>2. w # v
          BY <3>1, <5>1 DEF Nodes, Nobody
        <5> QED BY <3>2, <5>1, <5>2
      <4> QED BY <4>1, <4>2
    <3> QED BY <3>3
  <2> QED BY <1>2, <2>2, <2>3 DEF StartInstance, StartFails
<1>3. ASSUME NEW n \in Nodes,
             Prepare(n) \/ Launch(n) \/ WaitForSocket(n) \/ SendConfig(n)
      PROVE Starters'
  <2>1. /\ UNCHANGED by
        /\ \E l \in {"launch", "wait", "config", "boot", "failed"} :
             npc' = [npc EXCEPT ![n] = l]
    BY <1>3 DEF Prepare, Launch, WaitForSocket, SendConfig, StartFails
  <2> QED BY <2>1 DEF TypeOK
<1>4. ASSUME NEW v \in Nodes, External(v) PROVE Starters'
  BY <1>4 DEF External, Bind, Die, Sweep
<1>5. CASE CallerEnds \/ UNCHANGED vars
  BY <1>5 DEF CallerEnds, vars
<1> QED
  BY <1>1, <1>2, <1>3, <1>4, <1>5 DEF Next, NodeStep

LEMMA NextOnPath == Inv /\ [Next]_vars => OnPath'
<1> SUFFICES ASSUME Inv, [Next]_vars, AllWell' PROVE OnPath'
  BY DEF OnPath
<1> USE DEF Inv, Live, mainVars, sdkVars, Goto
<1>1. CASE MainStep \/ Configure
  <2>1. AllWell /\ UNCHANGED sdkVars
    BY <1>1 DEF MainStep, MkBaseDir, SpawnNodes, WaitNodes, Configure, Cleanup,
                AllWell, Control, Ended, All, TypeOK
  <2> QED BY <2>1 DEF OnPath
<1>2. ASSUME NEW n \in Nodes, NodeStep(n) PROVE OnPath'
  <2>1. npc'[n] # "failed" /\ npc[n] # "failed"
    BY <1>2 DEF AllWell, NodeStep, Prepare, Launch, WaitForSocket, SendConfig,
                StartInstance
  <2>2. ~StartFails(n) /\ npc' # [npc EXCEPT ![n] = "failed"]
    BY <2>1 DEF StartFails, TypeOK
  <2>3. /\ UNCHANGED <<at, swept, ctxDone>>
        /\ UNCHANGED proc \/ (npc[n] = "launch" /\ proc' = [proc EXCEPT ![n] = "spawned"])
        /\ \A m \in Nodes : m # n => npc'[m] = npc[m]
    BY <1>2, <2>2 DEF NodeStep, Prepare, Launch, WaitForSocket, SendConfig,
                      StartInstance, TypeOK
  <2>4. AllWell
    BY <2>1, <2>3 DEF AllWell, TypeOK
  <2> QED BY <2>3, <2>4 DEF OnPath, TypeOK
<1>3. ASSUME NEW v \in Nodes, Bind(v) PROVE OnPath'
  <2>1. CASE at # Nobody
    <3>1. proc'[v] = "refused"
      BY <1>3, <2>1 DEF Bind, TypeOK
    <3> QED BY <3>1 DEF AllWell
  <2>2. CASE at = Nobody
    <3>1. /\ at' = v /\ proc' = [proc EXCEPT ![v] = "listening"] /\ proc[v] = "spawned"
          /\ UNCHANGED <<npc, swept, ctxDone>>
      BY <1>3, <2>2 DEF Bind
    <3>2. AllWell
      BY <3>1 DEF AllWell, TypeOK
    <3>3. /\ \A w \in Nodes : proc[w] # "listening"
          /\ \A w \in Nodes : proc[w] = "dead" => w \in swept
          /\ \A w \in swept : proc[w] = "dead"
      BY <2>2, <3>2 DEF OnPath, TypeOK, Nodes, Nobody
    <3> QED BY <3>1, <3>3 DEF OnPath, TypeOK
  <2> QED BY <2>1, <2>2
<1>4. ASSUME NEW v \in Nodes, Die(v) PROVE OnPath'
  BY <1>4 DEF Die, Killing, AllWell, OnPath, TypeOK
<1>5. ASSUME NEW v \in Nodes, Sweep(v) PROVE OnPath'
  BY <1>5 DEF Sweep, AllWell, OnPath, TypeOK, Nodes, Nobody
<1>6. CASE CallerEnds \/ UNCHANGED vars
  BY <1>6 DEF CallerEnds, vars, OnPath, AllWell
<1> QED
  BY <1>1, <1>2, <1>3, <1>4, <1>5, <1>6 DEF Next, External

LEMMA Invariance == Spec => []Inv
<1>1. Inv /\ [Next]_vars => Inv'
  BY NextType, NextControl, NextStarters, NextOnPath DEF Inv
<1> QED BY InitInv, <1>1, PTL DEF Spec

-----------------------------------------------------------------------------
(***************************************************************************)
(* What is left when all nodes are up.                                      *)
(***************************************************************************)

\* As many guests were started as there are nodes, so every process started one.
LEMMA AllStarted ==
  ASSUME Inv, \A n \in Nodes : npc[n] = "up"
  PROVE  \A v \in Nodes : by[v] \in Nodes
<1> DEFINE T == {v \in Nodes : by[v] \in Nodes}
           f == [v \in T |-> by[v]]
<1>1. IsFiniteSet(Nodes)
  BY SharedSocketConstants, FS_Interval DEF Nodes
<1>2. T \in SUBSET Nodes /\ IsFiniteSet(T) /\ Cardinality(T) <= Cardinality(Nodes)
  BY <1>1, FS_Subset
<1>3. f \in Surjection(T, Nodes)
  BY DEF Surjection, Inv, Starters
<1>4. Cardinality(Nodes) <= Cardinality(T)
  BY <1>2, <1>3, FS_Surjection
<1>5. Cardinality(T) \in Nat /\ Cardinality(Nodes) \in Nat
  BY <1>1, <1>2, FS_CardinalityType
<1>6. T = Nodes
  BY <1>1, <1>2, <1>4, <1>5, FS_Subset
<1> QED BY <1>6

LEMMA Survivor ==
  ASSUME Inv, pc \in {"configure", "ok"}
  PROVE  /\ \A v \in Nodes : by[v] \in Nodes /\ cfg[v] # Nobody
         /\ \A v \in Live : v = at
<1>1. \A n \in Nodes : npc[n] = "up"
  BY DEF Inv, Control
<1>2. \A v \in Nodes : by[v] \in Nodes
  BY <1>1, AllStarted
<1>3. \A v \in Nodes : proc[v] \in {"listening", "dead"} /\ cfg[v] # Nobody
  BY <1>2 DEF Inv, TypeOK, Nodes, Nobody
<1>4. AllWell
  BY <1>1, <1>3 DEF AllWell, Inv, Control
<1> QED BY <1>2, <1>3, <1>4 DEF Inv, OnPath

\* Two nodes never have one address.
LEMMA AddressesDiffer ==
  ASSUME NEW m \in Nodes, NEW n \in Nodes, HostPart(m) = HostPart(n)
  PROVE  m = n
BY DEF HostPart, Nodes, Master

LEMMA NextStage == Inv /\ Stage /\ [Next]_vars => Stage'
<1> SUFFICES ASSUME Inv, Stage, [Next]_vars, NodeCount > 1 PROVE Stage'
  BY DEF Stage
<1> USE DEF Stage, mainVars, sdkVars
<1>1. CASE MainStep
  BY <1>1 DEF MainStep, MkBaseDir, SpawnNodes, WaitNodes, Cleanup, Master
<1>2. CASE Configure
  <2>1. pc = "configure" /\ UNCHANGED <<cfg, Live>>
    BY <1>2 DEF Configure, Live
  <2>2. \A v \in Live : cfg[v] \in Nodes /\ v = at
    BY <2>1, Survivor DEF Inv, TypeOK, Live
  <2>3. ASSUME Reachable(target) PROVE \A v \in Live : cfg[v] = target
    <3>1. target \in Nodes
      BY <2>1 DEF Inv, TypeOK
    <3> QED BY <2>2, <2>3, <3>1, AddressesDiffer DEF Reachable
  <2>4. CASE pc' = "cleanup" /\ UNCHANGED <<step, target>>
    BY <2>4
  <2>5. CASE /\ Reachable(target) /\ step' = Following(target)[step]
             /\ target' = IF step \in {"token", "join"} THEN target + 1 ELSE target
             /\ pc' = IF step \in {"token", "join"} /\ target = NodeCount
                        THEN "ok" ELSE "configure"
    <3>1. target = Master
      <4>1. ASSUME target # Master PROVE FALSE
        <5>1. \A v \in Live : cfg[v] = Master /\ cfg[v] = target
          BY <2>1, <2>3, <2>5, <4>1
        <5>2. Live # {}
          BY <2>5 DEF Reachable
        <5> QED BY <4>1, <5>1, <5>2
      <4> QED BY <4>1
    <3>2. \A v \in Live : cfg[v] = Master
      BY <2>3, <2>5, <3>1
    <3>3. step \in {"ssh", "init", "calico", "token"}
      BY <2>1, <3>1 DEF Inv, TypeOK
    <3> QED BY <2>1, <2>5, <3>1, <3>2, <3>3 DEF Following, Master
  <2> QED BY <1>2, <2>4, <2>5 DEF Configure
<1>3. ASSUME NEW n \in Nodes, NodeStep(n) PROVE Stage'
  <2>1. npc[n] \notin Ended \cup {"idle"} /\ UNCHANGED mainVars
    BY <1>3 DEF NodeStep, Prepare, Launch, WaitForSocket, SendConfig, StartInstance,
                Ended
  <2>2. pc \notin {"configure", "ok"}
    BY <2>1 DEF Inv, Control, Ended
  <2> QED BY <2>1, <2>2
<1>4. ASSUME NEW v \in Nodes, External(v) PROVE Stage'
  <2>1. UNCHANGED <<mainVars, cfg>>
    BY <1>4 DEF External, Bind, Die, Sweep
  <2>2. CASE pc # "configure"
    BY <2>1, <2>2
  <2>3. CASE pc = "configure"
    <3>1. proc[v] # "spawned"
      <4>1. by[v] \in Nodes
        BY <2>3, Survivor
      <4>2. by[v] # Nobody
        BY <4>1 DEF Nodes, Nobody
      <4> QED BY <4>2 DEF Inv, TypeOK
    <3>2. Live' \subseteq Live
      BY <1>4, <3>1 DEF External, Bind, Die, Sweep, Live, Inv, TypeOK
    <3> QED BY <2>1, <2>3, <3>2
  <2> QED BY <2>2, <2>3
<1>5. CASE CallerEnds \/ UNCHANGED vars
  BY <1>5 DEF CallerEnds, vars, Live
<1> QED
  BY <1>1, <1>2, <1>3, <1>4, <1>5 DEF Next

-----------------------------------------------------------------------------
(***************************************************************************)
(* Theorems                                                                *)
(***************************************************************************)

\* The variables keep their types, and what the processes hold is consistent
\* with what the goroutines did (lines 121-225).
THEOREM TypeCorrect == Spec => []TypeOK
<1>1. Inv => TypeOK
  BY DEF Inv
<1> QED BY Invariance, <1>1, PTL

\* However many nodes: when all were started on the one socket path, at most one
\* of their microVMs is alive (lines 91-110 and 143).
THEOREM OnlyOneSurvives == Spec => []OneSurvivor
<1>1. Inv => OneSurvivor
  <2> SUFFICES ASSUME Inv, pc \in {"configure", "ok"} PROVE Cardinality(Live) <= 1
    BY DEF OneSurvivor
  <2>1. Live \subseteq {at}
    BY Survivor
  <2>2. IsFiniteSet({at}) /\ Cardinality({at}) = 1
    BY FS_Singleton
  <2> QED BY <2>1, <2>2, FS_Subset
<1> QED BY Invariance, <1>1, PTL

\* With two nodes or more Provision never returns nil: the worker that is still
\* alive is not beside the master that was initialised (lines 112-118).
THEOREM ProvisionNeverSucceeds == Spec => []NeverSucceeds
<1>1. Stage => NeverSucceeds
  BY DEF Stage, NeverSucceeds
<1>2. Spec => []Stage
  BY Invariance, InitInv, NextStage, PTL DEF Spec
<1> QED BY <1>1, <1>2, PTL

\* After a failed Provision, while its caller lives, each process that is still alive is
\* at most two steps from its end, and none is launched any more (lines 87-116, 244).
THEOREM AllDoomed == Spec => EndsAfterError
<1> DEFINE Near(v) == /\ ProcSteps(v)' <= ProcSteps(v)
                      /\ Bind(v) \/ Die(v) => ProcSteps(v)' < ProcSteps(v)
           Nearer == pc = "err" => /\ ctxDone /\ pc' \in {"err", "gone"}
                                   /\ \A v \in Nodes : Near(v)
           Cancelled == pc = "err" => ctxDone
<1> USE DEF mainVars, sdkVars
<1>1. Init => Cancelled
  BY DEF Init
<1>2. Cancelled /\ [Next]_vars => Cancelled'
  BY DEF Next, MainStep, MkBaseDir, SpawnNodes, WaitNodes, Cleanup, Configure, NodeStep,
         Prepare, Launch, WaitForSocket, SendConfig, StartInstance, External, Bind,
         Die, Sweep, CallerEnds, vars
<1>3. Inv /\ Cancelled /\ [Next]_vars => [Nearer]_vars
  <2> SUFFICES ASSUME Inv, Cancelled, Next, pc = "err"
               PROVE  pc' \in {"err", "gone"} /\ \A v \in Nodes : Near(v)
    OBVIOUS
  <2>0. CASE CallerEnds
    <3>1. pc' = "gone" /\ UNCHANGED <<proc, at>>
      BY <2>0 DEF CallerEnds
    <3>2. \A v \in Nodes : ~Bind(v) /\ ~Die(v)
      BY <2>0, <3>1 DEF CallerEnds, Bind, Die, Inv, TypeOK
    <3> QED BY <3>1, <3>2 DEF ProcSteps
  <2> SUFFICES ASSUME ~CallerEnds PROVE pc' = "err" /\ \A v \in Nodes : Near(v)
    BY <2>0
  <2>1. ASSUME NEW n \in Nodes PROVE ~NodeStep(n)
    BY DEF Inv, Control, Ended, NodeStep, Prepare, Launch, WaitForSocket, SendConfig,
           StartInstance
  <2>2. PICK n \in Nodes : External(n)
    BY <2>1 DEF Next, MainStep, MkBaseDir, SpawnNodes, WaitNodes, Cleanup, Configure
  <2>3. pc' = "err"
    BY <2>2 DEF External, Bind, Die, Sweep
  <2>4. ASSUME NEW v \in Nodes PROVE Near(v)
    <3>1. CASE Bind(n)
      <4>1. /\ proc[n] = "spawned" /\ proc'[n] \in {"listening", "refused"}
            /\ \A u \in Nodes : u # n => proc'[u] = proc[u]
        BY <3>1 DEF Bind, Inv, TypeOK
      <4>2. v # n => ~Bind(v) /\ ~Die(v)
        BY <3>1, <4>1 DEF Bind, Die, Inv, TypeOK
      <4> QED BY <4>1, <4>2 DEF ProcSteps
    <3>2. CASE Die(n)
      <4>1. /\ proc[n] \in {"spawned", "listening"} /\ proc'[n] = "dead"
            /\ \A u \in Nodes : u # n => proc'[u] = proc[u]
        BY <3>2 DEF Die, Inv, TypeOK
      <4>2. v # n => ~Bind(v) /\ ~Die(v)
        BY <3>2, <4>1 DEF Bind, Die, Inv, TypeOK
      <4> QED BY <4>1, <4>2 DEF ProcSteps
    <3>3. CASE Sweep(n)
      <4>1. UNCHANGED proc /\ ~Bind(v) /\ ~Die(v)
        BY <3>3 DEF Sweep, Bind, Die, Inv, TypeOK
      <4> QED BY <4>1 DEF ProcSteps
    <3> QED BY <2>2, <3>1, <3>2, <3>3 DEF External
  <2> QED BY <2>3, <2>4
<1>4. Spec => [][Nearer]_vars
  BY <1>1, <1>2, <1>3, Invariance, PTL DEF Spec
<1> QED BY <1>4 DEF EndsAfterError

\* Provision is the same fork-join as that of cluster/cluster.go (lines 87-116).
THEOREM VariantIsBarrier == Spec => ImplementsBarrier
<1> USE DEF Barrier!vars
<1>1. Init => Barrier!Init
  BY DEF Init, Barrier!Init, Barrier!AllPending, Outcome, Decision, All, Ended
<1>2. Inv /\ Inv' /\ [Next]_vars => [Barrier!Next]_(Barrier!vars)
  <2> SUFFICES ASSUME Inv, Inv', [Next]_vars
               PROVE  [Barrier!Next]_(Barrier!vars)
    OBVIOUS
  <2> USE DEF Outcome, Decision, Ended, mainVars, sdkVars
  <2>1. CASE MkBaseDir \/ SpawnNodes
    BY <2>1 DEF MkBaseDir, SpawnNodes, All, Inv, TypeOK
  <2>2. CASE WaitNodes
    <3>1. CASE \E n \in Nodes : npc[n] = "failed"
      BY <2>2, <3>1 DEF WaitNodes, Barrier!Next, Barrier!Abort
    <3>2. CASE ~\E n \in Nodes : npc[n] = "failed"
      BY <2>2, <3>2 DEF WaitNodes, Barrier!Next, Barrier!Configure
    <3> QED BY <3>1, <3>2
  <2>3. CASE Configure
    BY <2>3 DEF Configure, Barrier!Next, Barrier!Abort
  <2>4. CASE Cleanup
    BY <2>4 DEF Cleanup
  <2>5. ASSUME NEW n \in Nodes, NodeStep(n) PROVE [Barrier!Next]_(Barrier!vars)
    <3>1. npc[n] \notin Ended \cup {"idle"} /\ UNCHANGED mainVars /\ pc # "gone"
      BY <2>5 DEF NodeStep, Prepare, Launch, WaitForSocket, SendConfig, StartInstance
    <3>2. Decision = "none" /\ UNCHANGED Decision
      BY <3>1 DEF Inv, Control
    <3>3. PICK l \in {"launch", "wait", "config", "boot", "up", "failed"} :
            npc' = [npc EXCEPT ![n] = l]
      BY <2>5 DEF NodeStep, Prepare, Launch, WaitForSocket, SendConfig, StartInstance,
                  StartFails, Goto
    <3>4. CASE l \in Ended
      <4>1. /\ npc' \in [Nodes -> {"idle", "prepare", "launch", "wait", "config",
                                   "boot"} \cup Ended]
            /\ npc'[n] = l /\ \A m \in Nodes \ {n} : npc'[m] = npc[m]
        BY <3>3 DEF Inv, TypeOK
      <4>2. Outcome[n] = "pending" /\ Outcome'[n] = l
        BY <3>1, <3>4, <4>1
      <4>3. \A m \in Nodes \ {n} : Outcome'[m] = Outcome[m]
        <5>1. pc' = pc
          BY <3>1
        <5> QED BY <4>1, <5>1
      <4>4. Outcome' = [Outcome EXCEPT ![n] = l]
        <5> HIDE DEF Ended
        <5>1. \A m \in Nodes : Outcome'[m] = [Outcome EXCEPT ![n] = l][m]
          BY <4>2, <4>3
        <5> QED BY <5>1
      <4> QED BY <3>2, <3>4, <4>2, <4>4 DEF Barrier!Next, Barrier!NodeEnds
    <3>5. CASE l \notin Ended
      <4>1. Outcome' = Outcome
        BY <3>1, <3>3, <3>5 DEF Inv, TypeOK
      <4> QED BY <3>2, <4>1
    <3> QED BY <3>4, <3>5
  <2>6. ASSUME NEW v \in Nodes, External(v) PROVE [Barrier!Next]_(Barrier!vars)
    BY <2>6 DEF External, Bind, Die, Sweep
  <2>7. CASE UNCHANGED vars
    BY <2>7 DEF vars
  <2>8. CASE CallerEnds
    <3>1. Outcome' = [n \in Nodes |-> "pending"] /\ Decision' = "none"
      BY <2>8 DEF CallerEnds
    <3> QED BY <3>1 DEF Barrier!Next, Barrier!Restart, Barrier!AllPending
  <2> QED BY <2>1, <2>2, <2>3, <2>4, <2>5, <2>6, <2>7, <2>8 DEF Next, MainStep
<1> QED
  BY Invariance, <1>1, <1>2, PTL DEF Spec, ImplementsBarrier, Barrier!Spec
=============================================================================
