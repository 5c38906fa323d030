---------------------------- MODULE ClusterProofs ----------------------------
(***************************************************************************)
(* Theorems about Cluster, for every number of nodes and starts and for     *)
(* every setting of the other constants.                                    *)
(***************************************************************************)
EXTENDS Cluster, FiniteSetTheorems, TLAPS

LEMMA Numbers ==
  NodeCount \in Nat /\ NodeCount >= 1 /\ MaxRuns \in Nat /\ MaxRuns >= 1
  BY ConstantsOK

-----------------------------------------------------------------------------
(***************************************************************************)
(* Types                                                                    *)
(***************************************************************************)

LEMMA InitType == Init => TypeOK
<1> SUFFICES ASSUME Init PROVE TypeOK
  OBVIOUS
<1> USE Numbers DEF Nodes, Cleaners, All
<1>1. ControlOK
  BY DEF Init, ControlOK, FreshPc, MainPcs, SigPcs, ProvisionPcs, NodePcs
<1>2. MemoryOK
  <2>1. /\ machine \in [Nodes -> BOOLEAN]
        /\ kube \in [Nodes -> {"none", "init", "cni", "joined"}]
    BY DEF Init
  <2>2. /\ cursor \in [Cleaners -> 1..(NodeCount + 1)]
        /\ target \in 2..(NodeCount + 1)
    BY DEF Init
  <2> QED BY <2>1, <2>2 DEF Init, MemoryOK
<1>3. HostOK
  BY DEF Init, HostOK
<1>4. LoopsOK
  BY DEF Init, LoopsOK, FreshPc
<1> QED BY <1>1, <1>2, <1>3, <1>4 DEF TypeOK

LEMMA NextControlOK ==
  TypeOK /\ [Next]_vars => ControlOK'
<1> SUFFICES ASSUME TypeOK, [Next]_vars PROVE ControlOK'
  OBVIOUS
<1> USE Numbers DEF Nodes, Master, Cleaners, All, At, NodeAt, Goto, NodeGoto,
                    hostVars, diskVars, vmVars, TypeOK
<1>MkBaseDir. CASE MkBaseDir
  BY <1>MkBaseDir
  DEF MkBaseDir, ControlOK, MainPcs, SigPcs, ProvisionPcs, ConfigurePcs,
      CleanupPcs, NodePcs
<1>BuildNodes. CASE BuildNodes
  BY <1>BuildNodes
  DEF BuildNodes, ControlOK, MainPcs, SigPcs, ProvisionPcs, ConfigurePcs,
      CleanupPcs, NodePcs
<1>SpawnNodes. CASE SpawnNodes
  BY <1>SpawnNodes
  DEF SpawnNodes, ControlOK, MainPcs, SigPcs, ProvisionPcs, ConfigurePcs,
      CleanupPcs, NodePcs
<1>WaitNodes. CASE WaitNodes
  BY <1>WaitNodes
  DEF WaitNodes, ControlOK, MainPcs, SigPcs, ProvisionPcs, ConfigurePcs,
      CleanupPcs, NodePcs
<1>WaitMasterSSH. CASE WaitMasterSSH
  BY <1>WaitMasterSSH
  DEF WaitMasterSSH, WaitForSSH, configFrame, ControlOK, MainPcs, SigPcs,
      ProvisionPcs, ConfigurePcs, CleanupPcs, NodePcs
<1>KubeadmInit. CASE KubeadmInit
  BY <1>KubeadmInit
  DEF KubeadmInit, ExecuteCommand, configFrame, ControlOK, MainPcs, SigPcs,
      ProvisionPcs, ConfigurePcs, CleanupPcs, NodePcs
<1>InstallCalico. CASE InstallCalico
  BY <1>InstallCalico
  DEF InstallCalico, ExecuteCommand, configFrame, ControlOK, MainPcs, SigPcs,
      ProvisionPcs, ConfigurePcs, CleanupPcs, NodePcs
<1>GetJoinCommand. CASE GetJoinCommand
  BY <1>GetJoinCommand
  DEF GetJoinCommand, configFrame, ControlOK, MainPcs, SigPcs, ProvisionPcs,
      ConfigurePcs, CleanupPcs, NodePcs
<1>WaitWorkerSSH. CASE WaitWorkerSSH
  BY <1>WaitWorkerSSH
  DEF WaitWorkerSSH, WaitForSSH, configFrame, ControlOK, MainPcs, SigPcs,
      ProvisionPcs, ConfigurePcs, CleanupPcs, NodePcs
<1>JoinWorker. CASE JoinWorker
  BY <1>JoinWorker
  DEF JoinWorker, ExecuteCommand, configFrame, ControlOK, MainPcs, SigPcs,
      ProvisionPcs, ConfigurePcs, CleanupPcs, NodePcs
<1>JoinsDone. CASE JoinsDone
  BY <1>JoinsDone
  DEF JoinsDone, configFrame, ControlOK, MainPcs, SigPcs, ProvisionPcs,
      ConfigurePcs, CleanupPcs, NodePcs
<1>PrintClusterInfo. CASE PrintClusterInfo
  BY <1>PrintClusterInfo
  DEF PrintClusterInfo, ControlOK, MainPcs, SigPcs, ProvisionPcs,
      ConfigurePcs, CleanupPcs, NodePcs
<1>Signal. CASE Signal
  BY <1>Signal
  DEF Signal, ControlOK, MainPcs, SigPcs, ProvisionPcs, ConfigurePcs,
      CleanupPcs, NodePcs
<1>CancelCtx. ASSUME NEW g \in Cleaners, CancelCtx(g) PROVE ControlOK'
  BY <1>CancelCtx
  DEF CancelCtx, ControlOK, MainPcs, SigPcs, ProvisionPcs, ConfigurePcs,
      CleanupPcs, NodePcs
<1>RangeNodes. ASSUME NEW g \in Cleaners, RangeNodes(g) PROVE ControlOK'
  BY <1>RangeNodes
  DEF RangeNodes, ControlOK, MainPcs, SigPcs, ProvisionPcs, ConfigurePcs,
      CleanupPcs, NodePcs
<1>ShutdownNode. ASSUME NEW g \in Cleaners, ShutdownNode(g) PROVE ControlOK'
  BY <1>ShutdownNode
  DEF ShutdownNode, loopFrame, Running, ControlOK, MainPcs, SigPcs,
      ProvisionPcs, ConfigurePcs, CleanupPcs, NodePcs
<1>RemoveNode. ASSUME NEW g \in Cleaners, RemoveNode(g) PROVE ControlOK'
  BY <1>RemoveNode
  DEF RemoveNode, RemoveAll, loopFrame, ControlOK, MainPcs, SigPcs,
      ProvisionPcs, ConfigurePcs, CleanupPcs, NodePcs
<1>CleanupDone. ASSUME NEW g \in Cleaners, CleanupDone(g) PROVE ControlOK'
  BY <1>CleanupDone
  DEF CleanupDone, loopFrame, ControlOK, MainPcs, SigPcs, ProvisionPcs,
      ConfigurePcs, CleanupPcs, NodePcs
<1>Killed. CASE Killed
  BY <1>Killed
  DEF Killed, memVars, ControlOK, MainPcs, SigPcs, ProvisionPcs, ConfigurePcs,
      CleanupPcs, NodePcs
<1>Exit. ASSUME NEW g \in Cleaners, Exit(g) PROVE ControlOK'
  BY <1>Exit
  DEF Exit, memVars, ControlOK, MainPcs, SigPcs, ProvisionPcs, ConfigurePcs,
      CleanupPcs, NodePcs
<1>MkNodeDir. ASSUME NEW n \in Nodes, MkNodeDir(n) PROVE ControlOK'
  BY <1>MkNodeDir
  DEF MkNodeDir, nodeFrame, ControlOK, MainPcs, SigPcs, ProvisionPcs,
      ConfigurePcs, CleanupPcs, NodePcs
<1>CopyOpen. ASSUME NEW n \in Nodes, CopyOpen(n) PROVE ControlOK'
  BY <1>CopyOpen
  DEF CopyOpen, nodeFrame, ControlOK, MainPcs, SigPcs, ProvisionPcs,
      ConfigurePcs, CleanupPcs, NodePcs
<1>CopyDone. ASSUME NEW n \in Nodes, CopyDone(n) PROVE ControlOK'
  BY <1>CopyDone
  DEF CopyDone, nodeFrame, ControlOK, MainPcs, SigPcs, ProvisionPcs,
      ConfigurePcs, CleanupPcs, NodePcs
<1>TapShow. ASSUME NEW n \in Nodes, TapShow(n) PROVE ControlOK'
  BY <1>TapShow
  DEF TapShow, nodeFrame, ControlOK, MainPcs, SigPcs, ProvisionPcs,
      ConfigurePcs, CleanupPcs, NodePcs
<1>TapAdd. ASSUME NEW n \in Nodes, TapAdd(n) PROVE ControlOK'
  BY <1>TapAdd
  DEF TapAdd, nodeFrame, ControlOK, MainPcs, SigPcs, ProvisionPcs,
      ConfigurePcs, CleanupPcs, NodePcs
<1>TapUp. ASSUME NEW n \in Nodes, TapUp(n) PROVE ControlOK'
  BY <1>TapUp
  DEF TapUp, nodeFrame, ControlOK, MainPcs, SigPcs, ProvisionPcs,
      ConfigurePcs, CleanupPcs, NodePcs
<1>StartVMM. ASSUME NEW n \in Nodes, StartVMM(n) PROVE ControlOK'
  BY <1>StartVMM
  DEF StartVMM, nodeFrame, ControlOK, MainPcs, SigPcs, ProvisionPcs,
      ConfigurePcs, CleanupPcs, NodePcs
<1>StartRefused. ASSUME NEW n \in Nodes, StartRefused(n) PROVE ControlOK'
  BY <1>StartRefused
  DEF StartRefused, nodeFrame, ControlOK, MainPcs, SigPcs, ProvisionPcs,
      ConfigurePcs, CleanupPcs, NodePcs
<1>StartReturns. ASSUME NEW n \in Nodes, StartReturns(n) PROVE ControlOK'
  BY <1>StartReturns
  DEF StartReturns, nodeFrame, ControlOK, MainPcs, SigPcs, ProvisionPcs,
      ConfigurePcs, CleanupPcs, NodePcs
<1>AssignMachine. ASSUME NEW n \in Nodes, AssignMachine(n) PROVE ControlOK'
  BY <1>AssignMachine
  DEF AssignMachine, nodeFrame, ControlOK, MainPcs, SigPcs, ProvisionPcs,
      ConfigurePcs, CleanupPcs, NodePcs
<1>SendErr. ASSUME NEW n \in Nodes, SendErr(n) PROVE ControlOK'
  BY <1>SendErr
  DEF SendErr, nodeFrame, ControlOK, MainPcs, SigPcs, ProvisionPcs,
      ConfigurePcs, CleanupPcs, NodePcs
<1>Restart. CASE Restart
  BY <1>Restart
  DEF Restart, FreshPc, Running, ControlOK, MainPcs, SigPcs, ProvisionPcs,
      ConfigurePcs, CleanupPcs, NodePcs
<1>others. CASE
    \/ JustCleanUp
    \/ \E n \in Nodes : KillVM(n) \/ ReapVM(n) \/ GuestHalts(n)
         \/ GuestWrites(n)
  <2>1. UNCHANGED <<pc, npc, exit, run>>
    BY <1>others
    DEF KillVM, ReapVM, GuestHalts, GuestWrites, JustCleanUp, vmFrame,
        memVars, Running
  <2> QED BY <2>1 DEF ControlOK, MainPcs, SigPcs, ProvisionPcs, ConfigurePcs, CleanupPcs, NodePcs
<1>stutter. CASE UNCHANGED vars
  BY <1>stutter
  DEF vars, memVars, ControlOK, MainPcs, SigPcs, ProvisionPcs, ConfigurePcs,
      CleanupPcs, NodePcs
<1> QED
  BY <1>MkBaseDir, <1>BuildNodes, <1>SpawnNodes, <1>WaitNodes,
     <1>WaitMasterSSH, <1>KubeadmInit, <1>InstallCalico, <1>GetJoinCommand,
     <1>WaitWorkerSSH, <1>JoinWorker, <1>JoinsDone, <1>PrintClusterInfo,
     <1>Signal, <1>CancelCtx, <1>RangeNodes, <1>ShutdownNode, <1>RemoveNode,
     <1>CleanupDone, <1>Exit, <1>Killed, <1>MkNodeDir, <1>CopyOpen, <1>CopyDone,
     <1>TapShow, <1>TapAdd, <1>TapUp, <1>StartVMM, <1>StartRefused,
     <1>StartReturns, <1>AssignMachine, <1>SendErr, <1>Restart, <1>others,
     <1>stutter
  DEF Next, MainStep, Configure, Cleanup, NodeStep, HostStep

LEMMA NextMemoryOK ==
  TypeOK /\ [Next]_vars => MemoryOK'
<1> SUFFICES ASSUME TypeOK, [Next]_vars PROVE MemoryOK'
  OBVIOUS
<1> USE Numbers DEF Nodes, Master, Cleaners, All, At, NodeAt, Goto, NodeGoto,
                    hostVars, diskVars, vmVars, TypeOK
<1>BuildNodes. CASE BuildNodes
  BY <1>BuildNodes DEF BuildNodes, MemoryOK
<1>SpawnNodes. CASE SpawnNodes
  BY <1>SpawnNodes DEF SpawnNodes, MemoryOK
<1>KubeadmInit. CASE KubeadmInit
  BY <1>KubeadmInit DEF KubeadmInit, ExecuteCommand, configFrame, MemoryOK
<1>InstallCalico. CASE InstallCalico
  BY <1>InstallCalico
  DEF InstallCalico, ExecuteCommand, configFrame, MemoryOK
<1>GetJoinCommand. CASE GetJoinCommand
  BY <1>GetJoinCommand DEF GetJoinCommand, configFrame, MemoryOK
<1>JoinWorker. CASE JoinWorker
  <2>1. target \in Nodes
    BY <1>JoinWorker DEF JoinWorker, ExecuteCommand, LoopsOK
  <2>2. target' \in 2..(NodeCount + 1)
    BY <1>JoinWorker, <2>1 DEF JoinWorker, MemoryOK
  <2>3. kube' \in [Nodes -> {"none", "init", "cni", "joined"}]
    BY <1>JoinWorker, <2>1 DEF JoinWorker, ExecuteCommand, MemoryOK
  <2> QED
    BY <1>JoinWorker, <2>2, <2>3 DEF JoinWorker, configFrame, MemoryOK
<1>CancelCtx. ASSUME NEW g \in Cleaners, CancelCtx(g) PROVE MemoryOK'
  BY <1>CancelCtx DEF CancelCtx, MemoryOK
<1>RangeNodes. ASSUME NEW g \in Cleaners, RangeNodes(g) PROVE MemoryOK'
  BY <1>RangeNodes DEF RangeNodes, MemoryOK
<1>RemoveNode. ASSUME NEW g \in Cleaners, RemoveNode(g) PROVE MemoryOK'
  <2>1. cursor[g] \in Nodes
    BY <1>RemoveNode DEF RemoveNode, LoopsOK
  <2>2. cursor' \in [Cleaners -> 1..(NodeCount + 1)]
    BY <1>RemoveNode, <2>1 DEF RemoveNode, MemoryOK
  <2>3. logged' \subseteq Nodes
    <3>1. logged' = logged \/ logged' = logged \cup {cursor[g]}
      BY <1>RemoveNode DEF RemoveNode, RemoveAll
    <3> QED BY <2>1, <3>1 DEF MemoryOK
  <2> QED
    BY <1>RemoveNode, <2>2, <2>3 DEF RemoveNode, loopFrame, MemoryOK
<1>AssignMachine. ASSUME NEW n \in Nodes, AssignMachine(n) PROVE MemoryOK'
  BY <1>AssignMachine DEF AssignMachine, nodeFrame, MemoryOK
<1>SendErr. ASSUME NEW n \in Nodes, SendErr(n) PROVE MemoryOK'
  BY <1>SendErr DEF SendErr, nodeFrame, MemoryOK
<1>Restart. CASE Restart
  <2>1. machine' \in [Nodes -> BOOLEAN] /\ logged' \subseteq Nodes
    BY <1>Restart DEF Restart
  <2>2. /\ cursor' \in [Cleaners -> 1..(NodeCount + 1)]
        /\ target' \in 2..(NodeCount + 1)
    BY <1>Restart DEF Restart
  <2>3. kube' \in [Nodes -> {"none", "init", "cni", "joined"}]
    BY <1>Restart DEF Restart
  <2> QED BY <1>Restart, <2>1, <2>2, <2>3 DEF Restart, MemoryOK
<1>others. CASE
    \/ MkBaseDir \/ WaitNodes \/ WaitMasterSSH \/ WaitWorkerSSH \/ JoinsDone
         \/ PrintClusterInfo \/ Signal \/ JustCleanUp \/ Killed
    \/ \E g \in Cleaners : ShutdownNode(g) \/ CleanupDone(g) \/ Exit(g)
    \/ \E n \in Nodes : MkNodeDir(n) \/ CopyOpen(n) \/ CopyDone(n)
         \/ TapShow(n) \/ TapAdd(n) \/ TapUp(n) \/ StartVMM(n)
         \/ StartRefused(n) \/ StartReturns(n) \/ KillVM(n) \/ ReapVM(n)
         \/ GuestHalts(n) \/ GuestWrites(n)
  <2>1. UNCHANGED <<nodes, machine, errCh, ctxDone, cursor, target, joinCommand, kube, logged>>
    BY <1>others
    DEF MkBaseDir, WaitNodes, WaitMasterSSH, WaitWorkerSSH, JoinsDone,
        PrintClusterInfo, Signal, ShutdownNode, CleanupDone, Exit, Killed, MkNodeDir,
        CopyOpen, CopyDone, TapShow, TapAdd, TapUp, StartVMM, StartRefused,
        StartReturns, KillVM, ReapVM, GuestHalts, GuestWrites, JustCleanUp,
        WaitForSSH, configFrame, loopFrame, Running, memVars, nodeFrame,
        vmFrame
  <2> QED BY <2>1 DEF MemoryOK
<1>stutter. CASE UNCHANGED vars
  BY <1>stutter DEF vars, memVars, MemoryOK
<1> QED
  BY <1>BuildNodes, <1>SpawnNodes, <1>KubeadmInit, <1>InstallCalico,
     <1>GetJoinCommand, <1>JoinWorker, <1>CancelCtx, <1>RangeNodes,
     <1>RemoveNode, <1>AssignMachine, <1>SendErr, <1>Restart, <1>others,
     <1>stutter
  DEF Next, MainStep, Configure, Cleanup, NodeStep, HostStep

LEMMA NextHostOK ==
  TypeOK /\ [Next]_vars => HostOK'
<1> SUFFICES ASSUME TypeOK, [Next]_vars PROVE HostOK'
  OBVIOUS
<1> USE Numbers DEF Nodes, Master, Cleaners, All, At, NodeAt, Goto, NodeGoto,
                    hostVars, diskVars, vmVars, TypeOK
<1>ShutdownNode. ASSUME NEW g \in Cleaners, ShutdownNode(g) PROVE HostOK'
  BY <1>ShutdownNode DEF ShutdownNode, loopFrame, Running, HostOK
<1>RemoveNode. ASSUME NEW g \in Cleaners, RemoveNode(g) PROVE HostOK'
  <2> DEFINE n == cursor[g]
  <2>1. CASE Persistent
    BY <1>RemoveNode, <2>1 DEF RemoveNode, loopFrame, HostOK
  <2>2. CASE ~Persistent
    <3>1. n \in Nodes
      BY <1>RemoveNode DEF RemoveNode, LoopsOK
    <3>2. RemoveAll(n) /\ tap' = tap
      BY <1>RemoveNode, <2>2 DEF RemoveNode, loopFrame
    <3>3. PICK dirGone \in BOOLEAN, filesGone \in BOOLEAN :
            /\ dir' = [dir EXCEPT ![n] = @ /\ ~dirGone]
            /\ IF filesGone
               THEN /\ img' = [img EXCEPT ![n] = "none"]
                    /\ sock' = [sock EXCEPT ![n] = FALSE]
                    /\ vm' = [vm EXCEPT ![n] =
                                IF @ = "linked" THEN "unlinked" ELSE @]
                    /\ orphan' = [orphan EXCEPT ![n] =
                                IF @ = "linked" THEN "unlinked" ELSE @]
               ELSE UNCHANGED <<img, sock, vmVars>>
      BY <3>2 DEF RemoveAll
    <3> HIDE DEF n
    <3>4. dir' \in [Nodes -> BOOLEAN]
      BY <3>1, <3>3 DEF HostOK
    <3>5. CASE filesGone
      <4>1. sock' \in [Nodes -> BOOLEAN]
        BY <3>1, <3>3, <3>5 DEF HostOK
      <4>2. img' \in [Nodes -> {"none", "partial", "base", "used"}]
        BY <3>1, <3>3, <3>5 DEF HostOK
      <4>3. vm' \in [Nodes -> {"none", "linked", "unlinked",
                             "halted", "killed"}]
        BY <3>1, <3>3, <3>5 DEF HostOK
      <4>4. orphan' \in [Nodes -> {"none", "linked", "unlinked"}]
        BY <3>1, <3>3, <3>5 DEF HostOK
      <4> QED BY <3>2, <3>4, <4>1, <4>2, <4>3, <4>4
        DEF HostOK
    <3>6. CASE ~filesGone
      BY <3>1, <3>2, <3>3, <3>4, <3>6 DEF HostOK
    <3> QED BY <3>5, <3>6
  <2> QED BY <2>1, <2>2
<1>MkNodeDir. ASSUME NEW n \in Nodes, MkNodeDir(n) PROVE HostOK'
  BY <1>MkNodeDir DEF MkNodeDir, nodeFrame, HostOK
<1>CopyOpen. ASSUME NEW n \in Nodes, CopyOpen(n) PROVE HostOK'
  BY <1>CopyOpen DEF CopyOpen, nodeFrame, HostOK
<1>CopyDone. ASSUME NEW n \in Nodes, CopyDone(n) PROVE HostOK'
  BY <1>CopyDone DEF CopyDone, nodeFrame, HostOK
<1>TapAdd. ASSUME NEW n \in Nodes, TapAdd(n) PROVE HostOK'
  BY <1>TapAdd DEF TapAdd, nodeFrame, HostOK
<1>TapUp. ASSUME NEW n \in Nodes, TapUp(n) PROVE HostOK'
  BY <1>TapUp DEF TapUp, nodeFrame, HostOK
<1>StartVMM. ASSUME NEW n \in Nodes, StartVMM(n) PROVE HostOK'
  BY <1>StartVMM DEF StartVMM, nodeFrame, HostOK
<1>StartReturns. ASSUME NEW n \in Nodes, StartReturns(n) PROVE HostOK'
  <2>1. UNCHANGED <<dir, img, tap, vm, orphan>>
    BY <1>StartReturns DEF StartReturns, nodeFrame
  <2>2. sock' \in [Nodes -> BOOLEAN]
    <3>1. CASE sock' = sock
      BY <3>1 DEF HostOK
    <3>2. CASE \E s \in {sock[n], FALSE} : sock' = [sock EXCEPT ![n] = s]
      <4>1. PICK s \in {sock[n], FALSE} : sock' = [sock EXCEPT ![n] = s]
        BY <3>2
      <4>2. s \in BOOLEAN
        BY <4>1 DEF HostOK
      <4> QED BY <4>1, <4>2 DEF HostOK
    <3> QED BY <1>StartReturns, <3>1, <3>2 DEF StartReturns
  <2> QED BY <2>1, <2>2 DEF HostOK
<1>KillVM. ASSUME NEW n \in Nodes, KillVM(n) PROVE HostOK'
  BY <1>KillVM DEF KillVM, vmFrame, memVars, HostOK
<1>ReapVM. ASSUME NEW n \in Nodes, ReapVM(n) PROVE HostOK'
  BY <1>ReapVM DEF ReapVM, vmFrame, memVars, HostOK
<1>GuestHalts. ASSUME NEW n \in Nodes, GuestHalts(n) PROVE HostOK'
  BY <1>GuestHalts DEF GuestHalts, vmFrame, memVars, HostOK
<1>GuestWrites. ASSUME NEW n \in Nodes, GuestWrites(n) PROVE HostOK'
  BY <1>GuestWrites DEF GuestWrites, vmFrame, memVars, HostOK
<1>Restart. CASE Restart
  BY <1>Restart DEF Restart, FreshPc, Running, HostOK
<1>JustCleanUp. CASE JustCleanUp
  <2>1. PICK gone \in {{}, Named} :
          tap' = [n \in Nodes |-> IF n \in gone THEN "absent" ELSE tap[n]]
    BY <1>JustCleanUp DEF JustCleanUp
  <2>2. tap' \in [Nodes -> {"absent", "down", "up"}]
    BY <2>1 DEF HostOK
  <2>3. CASE UNCHANGED <<diskVars, vmVars>>
    BY <2>2, <2>3 DEF HostOK
  <2>4. CASE ~UNCHANGED <<diskVars, vmVars>>
    <3>1. /\ dir' = [n \in Nodes |-> FALSE] /\ img' = [n \in Nodes |-> "none"]
          /\ sock' = [n \in Nodes |-> FALSE] /\ orphan' = [n \in Nodes |-> "none"]
      BY <1>JustCleanUp, <2>4 DEF JustCleanUp
    <3>2. vm' = [n \in Nodes |-> IF Running(n) THEN "killed" ELSE vm[n]]
      BY <1>JustCleanUp, <2>4 DEF JustCleanUp
    <3>3. vm' \in [Nodes -> {"none", "linked", "unlinked", "halted", "killed"}]
      BY <3>2 DEF HostOK
    <3> QED BY <2>2, <3>1, <3>3 DEF HostOK
  <2> QED BY <2>3, <2>4
<1>others. CASE
    \/ MkBaseDir \/ BuildNodes \/ SpawnNodes \/ WaitNodes \/ WaitMasterSSH
         \/ KubeadmInit \/ InstallCalico \/ GetJoinCommand \/ WaitWorkerSSH
         \/ JoinWorker \/ JoinsDone \/ PrintClusterInfo \/ Signal
    \/ \E g \in Cleaners : CancelCtx(g) \/ RangeNodes(g) \/ CleanupDone(g)
         \/ Exit(g)
    \/ Killed
    \/ \E n \in Nodes : TapShow(n) \/ StartRefused(n)
         \/ AssignMachine(n) \/ SendErr(n)
  <2>1. UNCHANGED <<dir, img, sock, tap, vm, orphan>>
    BY <1>others
    DEF MkBaseDir, BuildNodes, SpawnNodes, WaitNodes, WaitMasterSSH,
        KubeadmInit, InstallCalico, GetJoinCommand, WaitWorkerSSH,
        JoinWorker, JoinsDone, PrintClusterInfo, Signal, CancelCtx,
        RangeNodes, CleanupDone, Exit, Killed, TapShow, StartRefused, AssignMachine,
        SendErr, WaitForSSH, configFrame, ExecuteCommand, loopFrame, memVars,
        nodeFrame
  <2> QED BY <2>1 DEF HostOK
<1>stutter. CASE UNCHANGED vars
  BY <1>stutter DEF vars, memVars, HostOK
<1> QED
  BY <1>ShutdownNode, <1>RemoveNode, <1>MkNodeDir, <1>CopyOpen, <1>CopyDone,
     <1>TapAdd, <1>TapUp, <1>StartVMM, <1>StartReturns, <1>KillVM, <1>ReapVM,
     <1>GuestHalts, <1>GuestWrites, <1>Restart, <1>JustCleanUp, <1>others, <1>stutter
  DEF Next, MainStep, Configure, Cleanup, NodeStep, HostStep

LEMMA NextLoopsOK ==
  TypeOK /\ [Next]_vars => LoopsOK'
<1> SUFFICES ASSUME TypeOK, [Next]_vars PROVE LoopsOK'
  OBVIOUS
<1> USE Numbers DEF Nodes, Master, Cleaners, All, At, NodeAt, Goto, NodeGoto,
                    hostVars, diskVars, vmVars, TypeOK
<1>MkBaseDir. CASE MkBaseDir
  BY <1>MkBaseDir DEF MkBaseDir, LoopsOK, ControlOK, MemoryOK
<1>BuildNodes. CASE BuildNodes
  BY <1>BuildNodes DEF BuildNodes, LoopsOK, ControlOK, MemoryOK
<1>SpawnNodes. CASE SpawnNodes
  BY <1>SpawnNodes DEF SpawnNodes, LoopsOK, ControlOK, MemoryOK
<1>WaitNodes. CASE WaitNodes
  BY <1>WaitNodes DEF WaitNodes, LoopsOK, ControlOK, MemoryOK
<1>WaitMasterSSH. CASE WaitMasterSSH
  BY <1>WaitMasterSSH
  DEF WaitMasterSSH, WaitForSSH, configFrame, LoopsOK, ControlOK, MemoryOK
<1>KubeadmInit. CASE KubeadmInit
  BY <1>KubeadmInit
  DEF KubeadmInit, ExecuteCommand, configFrame, LoopsOK, ControlOK, MemoryOK
<1>InstallCalico. CASE InstallCalico
  BY <1>InstallCalico
  DEF InstallCalico, ExecuteCommand, configFrame, LoopsOK, ControlOK,
      MemoryOK
<1>GetJoinCommand. CASE GetJoinCommand
  BY <1>GetJoinCommand
  DEF GetJoinCommand, configFrame, LoopsOK, ControlOK, MemoryOK
<1>WaitWorkerSSH. CASE WaitWorkerSSH
  BY <1>WaitWorkerSSH
  DEF WaitWorkerSSH, WaitForSSH, configFrame, LoopsOK, ControlOK, MemoryOK
<1>JoinWorker. CASE JoinWorker
  BY <1>JoinWorker
  DEF JoinWorker, ExecuteCommand, configFrame, LoopsOK, ControlOK, MemoryOK
<1>JoinsDone. CASE JoinsDone
  BY <1>JoinsDone DEF JoinsDone, configFrame, LoopsOK, ControlOK, MemoryOK
<1>PrintClusterInfo. CASE PrintClusterInfo
  BY <1>PrintClusterInfo DEF PrintClusterInfo, LoopsOK, ControlOK, MemoryOK
<1>Signal. CASE Signal
  BY <1>Signal DEF Signal, LoopsOK, ControlOK, MemoryOK
<1>CancelCtx. ASSUME NEW g \in Cleaners, CancelCtx(g) PROVE LoopsOK'
  BY <1>CancelCtx DEF CancelCtx, LoopsOK, ControlOK, MemoryOK
<1>RangeNodes. ASSUME NEW g \in Cleaners, RangeNodes(g) PROVE LoopsOK'
  BY <1>RangeNodes DEF RangeNodes, LoopsOK, ControlOK, MemoryOK
<1>ShutdownNode. ASSUME NEW g \in Cleaners, ShutdownNode(g) PROVE LoopsOK'
  BY <1>ShutdownNode
  DEF ShutdownNode, loopFrame, Running, LoopsOK, ControlOK, MemoryOK
<1>RemoveNode. ASSUME NEW g \in Cleaners, RemoveNode(g) PROVE LoopsOK'
  BY <1>RemoveNode
  DEF RemoveNode, RemoveAll, loopFrame, LoopsOK, ControlOK, MemoryOK
<1>CleanupDone. ASSUME NEW g \in Cleaners, CleanupDone(g) PROVE LoopsOK'
  BY <1>CleanupDone DEF CleanupDone, loopFrame, LoopsOK, ControlOK, MemoryOK
<1>Restart. CASE Restart
  BY <1>Restart DEF Restart, FreshPc, Running, LoopsOK, ControlOK, MemoryOK
<1>others. CASE
    \/ JustCleanUp \/ Killed
    \/ \E g \in Cleaners : Exit(g)
    \/ \E n \in Nodes : MkNodeDir(n) \/ CopyOpen(n) \/ CopyDone(n)
         \/ TapShow(n) \/ TapAdd(n) \/ TapUp(n) \/ StartVMM(n)
         \/ StartRefused(n) \/ StartReturns(n) \/ AssignMachine(n)
         \/ SendErr(n) \/ KillVM(n) \/ ReapVM(n) \/ GuestHalts(n)
         \/ GuestWrites(n)
  <2>1. UNCHANGED <<pc, target, cursor>>
    BY <1>others
    DEF Exit, Killed, MkNodeDir, CopyOpen, CopyDone, TapShow, TapAdd, TapUp,
        StartVMM, StartRefused, StartReturns, AssignMachine, SendErr, KillVM,
        ReapVM, GuestHalts, GuestWrites, JustCleanUp, memVars, nodeFrame,
        vmFrame, Running
  <2> QED BY <2>1 DEF LoopsOK, ControlOK, MemoryOK
<1>stutter. CASE UNCHANGED vars
  BY <1>stutter DEF vars, memVars, LoopsOK, ControlOK, MemoryOK
<1> QED
  BY <1>MkBaseDir, <1>BuildNodes, <1>SpawnNodes, <1>WaitNodes,
     <1>WaitMasterSSH, <1>KubeadmInit, <1>InstallCalico, <1>GetJoinCommand,
     <1>WaitWorkerSSH, <1>JoinWorker, <1>JoinsDone, <1>PrintClusterInfo,
     <1>Signal, <1>CancelCtx, <1>RangeNodes, <1>ShutdownNode, <1>RemoveNode,
     <1>CleanupDone, <1>Restart, <1>others, <1>stutter
  DEF Next, MainStep, Configure, Cleanup, NodeStep, HostStep

LEMMA NextType == TypeOK /\ [Next]_vars => TypeOK'
  BY NextControlOK, NextMemoryOK, NextHostOK, NextLoopsOK DEF TypeOK


\* Every variable keeps to its range: the launcher's goroutines have no other
\* control points, and no loop leaves c.Nodes.
THEOREM TypeCorrect == Spec => []TypeOK
  BY InitType, NextType, PTL DEF Spec

-----------------------------------------------------------------------------
(***************************************************************************)
(* The fork-join                                                            *)
(*                                                                         *)
(* ConfigureOnlyAfterAllUp and its like say something only once main is     *)
(* past wg.Wait; ForkJoin says what holds on the way there: where main and  *)
(* the goroutines may be together, and that a goroutine that has ended left *)
(* either a machine or an error, never both.                                *)
(***************************************************************************)

Spawned == nodes = "set"

Phase ==
  /\ pc["main"] \in {"mkBase", "build", "building"} => ~Spawned
  /\ pc["main"] \in {"wait", "cancel", "range", "shutdown", "remove"}
       => Spawned
  /\ Configuring => Spawned /\ errCh = {}
  /\ Spawned /\ pc["main"] # "wait" => \A n \in Nodes : npc[n] = "done"

NodeOutcome ==
  \A n \in Nodes :
    /\ npc[n] = "idle" <=> ~Spawned
    /\ npc[n] # "done" => ~machine[n] /\ n \notin errCh
    /\ npc[n] = "done" => (machine[n] <=> n \notin errCh)

ForkJoin == Phase /\ NodeOutcome

LEMMA InitForkJoin == Init => ForkJoin
  BY DEF Init, ForkJoin, Phase, NodeOutcome, Spawned, Configuring, ConfigurePcs,
         FreshPc, All, Cleaners

LEMMA NextPhase ==
  TypeOK /\ ForkJoin /\ [Next]_vars => Phase'
<1> SUFFICES ASSUME TypeOK, ForkJoin, [Next]_vars PROVE Phase'
  OBVIOUS
<1> USE Numbers DEF Nodes, Master, Cleaners, All, At, NodeAt, Goto, NodeGoto,
                    hostVars, diskVars, vmVars, TypeOK
<1>MkBaseDir. CASE MkBaseDir
  BY <1>MkBaseDir
  DEF MkBaseDir, ForkJoin, Phase, NodeOutcome, Spawned, Configuring,
      ConfigurePcs, ControlOK
<1>BuildNodes. CASE BuildNodes
  BY <1>BuildNodes
  DEF BuildNodes, ForkJoin, Phase, NodeOutcome, Spawned, Configuring,
      ConfigurePcs, ControlOK
<1>SpawnNodes. CASE SpawnNodes
  BY <1>SpawnNodes
  DEF SpawnNodes, ForkJoin, Phase, NodeOutcome, Spawned, Configuring,
      ConfigurePcs, ControlOK
<1>WaitNodes. CASE WaitNodes
  BY <1>WaitNodes
  DEF WaitNodes, ForkJoin, Phase, NodeOutcome, Spawned, Configuring,
      ConfigurePcs, ControlOK
<1>WaitMasterSSH. CASE WaitMasterSSH
  BY <1>WaitMasterSSH
  DEF WaitMasterSSH, WaitForSSH, configFrame, ForkJoin, Phase, NodeOutcome,
      Spawned, Configuring, ConfigurePcs, ControlOK
<1>KubeadmInit. CASE KubeadmInit
  BY <1>KubeadmInit
  DEF KubeadmInit, ExecuteCommand, configFrame, ForkJoin, Phase, NodeOutcome,
      Spawned, Configuring, ConfigurePcs, ControlOK
<1>InstallCalico. CASE InstallCalico
  BY <1>InstallCalico
  DEF InstallCalico, ExecuteCommand, configFrame, ForkJoin, Phase,
      NodeOutcome, Spawned, Configuring, ConfigurePcs, ControlOK
<1>GetJoinCommand. CASE GetJoinCommand
  BY <1>GetJoinCommand
  DEF GetJoinCommand, configFrame, ForkJoin, Phase, NodeOutcome, Spawned,
      Configuring, ConfigurePcs, ControlOK
<1>WaitWorkerSSH. CASE WaitWorkerSSH
  BY <1>WaitWorkerSSH
  DEF WaitWorkerSSH, WaitForSSH, configFrame, ForkJoin, Phase, NodeOutcome,
      Spawned, Configuring, ConfigurePcs, ControlOK
<1>JoinWorker. CASE JoinWorker
  BY <1>JoinWorker
  DEF JoinWorker, ExecuteCommand, configFrame, ForkJoin, Phase, NodeOutcome,
      Spawned, Configuring, ConfigurePcs, ControlOK
<1>JoinsDone. CASE JoinsDone
  BY <1>JoinsDone
  DEF JoinsDone, configFrame, ForkJoin, Phase, NodeOutcome, Spawned,
      Configuring, ConfigurePcs, ControlOK
<1>PrintClusterInfo. CASE PrintClusterInfo
  BY <1>PrintClusterInfo
  DEF PrintClusterInfo, ForkJoin, Phase, NodeOutcome, Spawned, Configuring,
      ConfigurePcs, ControlOK
<1>Signal. CASE Signal
  BY <1>Signal
  DEF Signal, ForkJoin, Phase, NodeOutcome, Spawned, Configuring,
      ConfigurePcs, ControlOK
<1>CancelCtx. ASSUME NEW g \in Cleaners, CancelCtx(g) PROVE Phase'
  BY <1>CancelCtx
  DEF CancelCtx, ForkJoin, Phase, NodeOutcome, Spawned, Configuring,
      ConfigurePcs, ControlOK
<1>RangeNodes. ASSUME NEW g \in Cleaners, RangeNodes(g) PROVE Phase'
  BY <1>RangeNodes
  DEF RangeNodes, ForkJoin, Phase, NodeOutcome, Spawned, Configuring,
      ConfigurePcs, ControlOK
<1>ShutdownNode. ASSUME NEW g \in Cleaners, ShutdownNode(g) PROVE Phase'
  BY <1>ShutdownNode
  DEF ShutdownNode, loopFrame, Running, ForkJoin, Phase, NodeOutcome,
      Spawned, Configuring, ConfigurePcs, ControlOK
<1>RemoveNode. ASSUME NEW g \in Cleaners, RemoveNode(g) PROVE Phase'
  BY <1>RemoveNode
  DEF RemoveNode, RemoveAll, loopFrame, ForkJoin, Phase, NodeOutcome,
      Spawned, Configuring, ConfigurePcs, ControlOK
<1>CleanupDone. ASSUME NEW g \in Cleaners, CleanupDone(g) PROVE Phase'
  BY <1>CleanupDone
  DEF CleanupDone, loopFrame, ForkJoin, Phase, NodeOutcome, Spawned,
      Configuring, ConfigurePcs, ControlOK
<1>MkNodeDir. ASSUME NEW n \in Nodes, MkNodeDir(n) PROVE Phase'
  BY <1>MkNodeDir
  DEF MkNodeDir, nodeFrame, ForkJoin, Phase, NodeOutcome, Spawned,
      Configuring, ConfigurePcs, ControlOK
<1>CopyOpen. ASSUME NEW n \in Nodes, CopyOpen(n) PROVE Phase'
  BY <1>CopyOpen
  DEF CopyOpen, nodeFrame, ForkJoin, Phase, NodeOutcome, Spawned,
      Configuring, ConfigurePcs, ControlOK
<1>CopyDone. ASSUME NEW n \in Nodes, CopyDone(n) PROVE Phase'
  BY <1>CopyDone
  DEF CopyDone, nodeFrame, ForkJoin, Phase, NodeOutcome, Spawned,
      Configuring, ConfigurePcs, ControlOK
<1>TapShow. ASSUME NEW n \in Nodes, TapShow(n) PROVE Phase'
  BY <1>TapShow
  DEF TapShow, nodeFrame, ForkJoin, Phase, NodeOutcome, Spawned, Configuring,
      ConfigurePcs, ControlOK
<1>TapAdd. ASSUME NEW n \in Nodes, TapAdd(n) PROVE Phase'
  BY <1>TapAdd
  DEF TapAdd, nodeFrame, ForkJoin, Phase, NodeOutcome, Spawned, Configuring,
      ConfigurePcs, ControlOK
<1>TapUp. ASSUME NEW n \in Nodes, TapUp(n) PROVE Phase'
  BY <1>TapUp
  DEF TapUp, nodeFrame, ForkJoin, Phase, NodeOutcome, Spawned, Configuring,
      ConfigurePcs, ControlOK
<1>StartVMM. ASSUME NEW n \in Nodes, StartVMM(n) PROVE Phase'
  BY <1>StartVMM
  DEF StartVMM, nodeFrame, ForkJoin, Phase, NodeOutcome, Spawned,
      Configuring, ConfigurePcs, ControlOK
<1>StartRefused. ASSUME NEW n \in Nodes, StartRefused(n) PROVE Phase'
  BY <1>StartRefused
  DEF StartRefused, nodeFrame, ForkJoin, Phase, NodeOutcome, Spawned,
      Configuring, ConfigurePcs, ControlOK
<1>StartReturns. ASSUME NEW n \in Nodes, StartReturns(n) PROVE Phase'
  BY <1>StartReturns
  DEF StartReturns, nodeFrame, ForkJoin, Phase, NodeOutcome, Spawned,
      Configuring, ConfigurePcs, ControlOK
<1>AssignMachine. ASSUME NEW n \in Nodes, AssignMachine(n) PROVE Phase'
  BY <1>AssignMachine
  DEF AssignMachine, nodeFrame, ForkJoin, Phase, NodeOutcome, Spawned,
      Configuring, ConfigurePcs, ControlOK
<1>SendErr. ASSUME NEW n \in Nodes, SendErr(n) PROVE Phase'
  BY <1>SendErr
  DEF SendErr, nodeFrame, ForkJoin, Phase, NodeOutcome, Spawned, Configuring,
      ConfigurePcs, ControlOK
<1>Restart. CASE Restart
  BY <1>Restart
  DEF Restart, FreshPc, Running, ForkJoin, Phase, NodeOutcome, Spawned,
      Configuring, ConfigurePcs, ControlOK
<1>others. CASE
    \/ JustCleanUp \/ Killed
    \/ \E g \in Cleaners : Exit(g)
    \/ \E n \in Nodes : KillVM(n) \/ ReapVM(n) \/ GuestHalts(n)
         \/ GuestWrites(n)
  <2>1. UNCHANGED <<pc, npc, nodes, errCh>>
    BY <1>others
    DEF Exit, Killed, KillVM, ReapVM, GuestHalts, GuestWrites, JustCleanUp, memVars,
        vmFrame, Running
  <2> QED BY <2>1 DEF ForkJoin, Phase, NodeOutcome, Spawned, Configuring, ConfigurePcs, ControlOK
<1>stutter. CASE UNCHANGED vars
  BY <1>stutter
  DEF vars, memVars, ForkJoin, Phase, NodeOutcome, Spawned, Configuring,
      ConfigurePcs, ControlOK
<1> QED
  BY <1>MkBaseDir, <1>BuildNodes, <1>SpawnNodes, <1>WaitNodes,
     <1>WaitMasterSSH, <1>KubeadmInit, <1>InstallCalico, <1>GetJoinCommand,
     <1>WaitWorkerSSH, <1>JoinWorker, <1>JoinsDone, <1>PrintClusterInfo,
     <1>Signal, <1>CancelCtx, <1>RangeNodes, <1>ShutdownNode, <1>RemoveNode,
     <1>CleanupDone, <1>MkNodeDir, <1>CopyOpen, <1>CopyDone, <1>TapShow,
     <1>TapAdd, <1>TapUp, <1>StartVMM, <1>StartRefused, <1>StartReturns,
     <1>AssignMachine, <1>SendErr, <1>Restart, <1>others, <1>stutter
  DEF Next, MainStep, Configure, Cleanup, NodeStep, HostStep

LEMMA NextNodeOutcome ==
  TypeOK /\ ForkJoin /\ [Next]_vars => NodeOutcome'
<1> SUFFICES ASSUME TypeOK, ForkJoin, [Next]_vars PROVE NodeOutcome'
  OBVIOUS
<1> USE Numbers DEF Nodes, Master, Cleaners, All, At, NodeAt, Goto, NodeGoto,
                    hostVars, diskVars, vmVars, TypeOK
<1>BuildNodes. CASE BuildNodes
  BY <1>BuildNodes
  DEF BuildNodes, ForkJoin, Phase, NodeOutcome, Spawned, ControlOK, MemoryOK
<1>SpawnNodes. CASE SpawnNodes
  BY <1>SpawnNodes
  DEF SpawnNodes, ForkJoin, Phase, NodeOutcome, Spawned, ControlOK, MemoryOK
<1>MkNodeDir. ASSUME NEW n \in Nodes, MkNodeDir(n) PROVE NodeOutcome'
  BY <1>MkNodeDir
  DEF MkNodeDir, nodeFrame, ForkJoin, Phase, NodeOutcome, Spawned, ControlOK,
      MemoryOK
<1>CopyOpen. ASSUME NEW n \in Nodes, CopyOpen(n) PROVE NodeOutcome'
  BY <1>CopyOpen
  DEF CopyOpen, nodeFrame, ForkJoin, Phase, NodeOutcome, Spawned, ControlOK,
      MemoryOK
<1>CopyDone. ASSUME NEW n \in Nodes, CopyDone(n) PROVE NodeOutcome'
  BY <1>CopyDone
  DEF CopyDone, nodeFrame, ForkJoin, Phase, NodeOutcome, Spawned, ControlOK,
      MemoryOK
<1>TapShow. ASSUME NEW n \in Nodes, TapShow(n) PROVE NodeOutcome'
  BY <1>TapShow
  DEF TapShow, nodeFrame, ForkJoin, Phase, NodeOutcome, Spawned, ControlOK,
      MemoryOK
<1>TapAdd. ASSUME NEW n \in Nodes, TapAdd(n) PROVE NodeOutcome'
  BY <1>TapAdd
  DEF TapAdd, nodeFrame, ForkJoin, Phase, NodeOutcome, Spawned, ControlOK,
      MemoryOK
<1>TapUp. ASSUME NEW n \in Nodes, TapUp(n) PROVE NodeOutcome'
  BY <1>TapUp
  DEF TapUp, nodeFrame, ForkJoin, Phase, NodeOutcome, Spawned, ControlOK,
      MemoryOK
<1>StartVMM. ASSUME NEW n \in Nodes, StartVMM(n) PROVE NodeOutcome'
  BY <1>StartVMM
  DEF StartVMM, nodeFrame, ForkJoin, Phase, NodeOutcome, Spawned, ControlOK,
      MemoryOK
<1>StartRefused. ASSUME NEW n \in Nodes, StartRefused(n) PROVE NodeOutcome'
  BY <1>StartRefused
  DEF StartRefused, nodeFrame, ForkJoin, Phase, NodeOutcome, Spawned,
      ControlOK, MemoryOK
<1>StartReturns. ASSUME NEW n \in Nodes, StartReturns(n) PROVE NodeOutcome'
  BY <1>StartReturns
  DEF StartReturns, nodeFrame, ForkJoin, Phase, NodeOutcome, Spawned,
      ControlOK, MemoryOK
<1>AssignMachine. ASSUME NEW n \in Nodes, AssignMachine(n) PROVE NodeOutcome'
  BY <1>AssignMachine
  DEF AssignMachine, nodeFrame, ForkJoin, Phase, NodeOutcome, Spawned,
      ControlOK, MemoryOK
<1>SendErr. ASSUME NEW n \in Nodes, SendErr(n) PROVE NodeOutcome'
  BY <1>SendErr
  DEF SendErr, nodeFrame, ForkJoin, Phase, NodeOutcome, Spawned, ControlOK,
      MemoryOK
<1>Restart. CASE Restart
  BY <1>Restart
  DEF Restart, FreshPc, Running, ForkJoin, Phase, NodeOutcome, Spawned,
      ControlOK, MemoryOK
<1>others. CASE
    \/ MkBaseDir \/ WaitNodes \/ WaitMasterSSH \/ KubeadmInit
         \/ InstallCalico \/ GetJoinCommand \/ WaitWorkerSSH \/ JoinWorker
         \/ JoinsDone \/ PrintClusterInfo \/ Signal \/ JustCleanUp \/ Killed
    \/ \E g \in Cleaners : CancelCtx(g) \/ RangeNodes(g) \/ ShutdownNode(g)
         \/ RemoveNode(g) \/ CleanupDone(g) \/ Exit(g)
    \/ \E n \in Nodes : KillVM(n) \/ ReapVM(n) \/ GuestHalts(n)
         \/ GuestWrites(n)
  <2>1. UNCHANGED <<npc, nodes, machine, errCh>>
    BY <1>others
    DEF MkBaseDir, WaitNodes, WaitMasterSSH, KubeadmInit, InstallCalico,
        GetJoinCommand, WaitWorkerSSH, JoinWorker, JoinsDone,
        PrintClusterInfo, Signal, CancelCtx, RangeNodes, ShutdownNode,
        RemoveNode, CleanupDone, Exit, Killed, KillVM, ReapVM, GuestHalts,
        GuestWrites, JustCleanUp, WaitForSSH, configFrame, ExecuteCommand,
        loopFrame, Running, RemoveAll, memVars, vmFrame
  <2> QED BY <2>1 DEF ForkJoin, Phase, NodeOutcome, Spawned, ControlOK, MemoryOK
<1>stutter. CASE UNCHANGED vars
  BY <1>stutter
  DEF vars, memVars, ForkJoin, Phase, NodeOutcome, Spawned, ControlOK,
      MemoryOK
<1> QED
  BY <1>BuildNodes, <1>SpawnNodes, <1>MkNodeDir, <1>CopyOpen, <1>CopyDone,
     <1>TapShow, <1>TapAdd, <1>TapUp, <1>StartVMM, <1>StartRefused,
     <1>StartReturns, <1>AssignMachine, <1>SendErr, <1>Restart, <1>others,
     <1>stutter
  DEF Next, MainStep, Configure, Cleanup, NodeStep, HostStep

LEMMA AlwaysForkJoin == Spec => [](TypeOK /\ ForkJoin)
  BY InitType, NextType, InitForkJoin, NextPhase, NextNodeOutcome, PTL
  DEF Spec, ForkJoin

\* Nothing is done in a guest before every node is up (cluster.go:108-123).
THEOREM ConfigureAfterAllUp == Spec => []ConfigureOnlyAfterAllUp
<1>1. TypeOK /\ ForkJoin => ConfigureOnlyAfterAllUp
  BY DEF ForkJoin, Phase, NodeOutcome, ConfigureOnlyAfterAllUp, Configuring,
         ConfigurePcs
<1> QED BY <1>1, AlwaysForkJoin, PTL

\* main's Cleanup runs when no node is being started any more.  It sees every VM whose
\* Start succeeded; one it cannot see is that of a goroutine that has failed, whose
\* error may be one of those that Provision drops (cluster.go:108-117, 234-239).
THEOREM UnseenFailed == Spec => []UnseenMeansFailed
<1>1. TypeOK /\ ForkJoin => UnseenMeansFailed
  BY DEF ForkJoin, Phase, NodeOutcome, Spawned, UnseenMeansFailed, CleanupPcs
<1> QED BY <1>1, AlwaysForkJoin, PTL

\* A node goroutine never blocks on errCh, however many nodes there are: the
\* errors buffered are those of the goroutines that have ended
\* (cluster.go:96, 103).
THEOREM ErrChNeverFull == Spec => []ErrChHasRoom
<1>1. TypeOK /\ ForkJoin => ErrChHasRoom
  <2> SUFFICES ASSUME TypeOK, ForkJoin, NEW n \in Nodes, npc[n] = "fail"
               PROVE  Cardinality(errCh) < NodeCount
    BY DEF ErrChHasRoom, ErrChCapacity
  <2>1. errCh \subseteq Nodes /\ n \notin errCh
    BY DEF TypeOK, MemoryOK, ForkJoin, NodeOutcome
  <2>2. IsFiniteSet(Nodes) /\ Cardinality(Nodes) = NodeCount
    <3>1. NodeCount - 1 + 1 = NodeCount
      BY Numbers
    <3> QED BY Numbers, FS_Interval, <3>1 DEF Nodes
  <2>3. errCh # Nodes
    BY <2>1
  <2>4. /\ IsFiniteSet(errCh) /\ Cardinality(errCh) <= NodeCount
        /\ Cardinality(errCh) # NodeCount
    BY <2>1, <2>2, <2>3, FS_Subset
  <2> QED BY <2>4, FS_CardinalityType, Numbers
<1> QED BY <1>1, AlwaysForkJoin, PTL

-----------------------------------------------------------------------------
(***************************************************************************)
(* Root images                                                              *)
(***************************************************************************)

BeforeStart == {"idle", "mkdir", "copy", "copying", "tapShow", "tapAdd",
                "tapUp", "start"}
Copied      == {"tapShow", "tapAdd", "tapUp", "start"}

ImageOK ==
  \A n \in Nodes :
    /\ npc[n] \in BeforeStart => vm[n] = "none"
    /\ npc[n] \in Copied => img[n] # "partial"
    /\ vm[n] = "linked" => img[n] # "partial"

LEMMA NextImageOK ==
  TypeOK /\ ForkJoin /\ ImageOK /\ [Next]_vars => ImageOK'
<1> SUFFICES ASSUME TypeOK, ForkJoin, ImageOK, [Next]_vars PROVE ImageOK'
  OBVIOUS
<1> USE Numbers DEF Nodes, Master, Cleaners, All, At, NodeAt, Goto, NodeGoto,
                    hostVars, diskVars, vmVars, TypeOK
<1>SpawnNodes. CASE SpawnNodes
  BY <1>SpawnNodes
  DEF SpawnNodes, ImageOK, BeforeStart, Copied, ControlOK, HostOK, ForkJoin,
      NodeOutcome, Spawned, Phase
<1>ShutdownNode. ASSUME NEW g \in Cleaners, ShutdownNode(g) PROVE ImageOK'
  BY <1>ShutdownNode
  DEF ShutdownNode, loopFrame, Running, ImageOK, BeforeStart, Copied,
      ControlOK, HostOK
<1>RemoveNode. ASSUME NEW g \in Cleaners, RemoveNode(g) PROVE ImageOK'
  BY <1>RemoveNode
  DEF RemoveNode, RemoveAll, loopFrame, ImageOK, BeforeStart, Copied,
      ControlOK, HostOK
<1>MkNodeDir. ASSUME NEW n \in Nodes, MkNodeDir(n) PROVE ImageOK'
  BY <1>MkNodeDir
  DEF MkNodeDir, nodeFrame, ImageOK, BeforeStart, Copied, ControlOK, HostOK
<1>CopyOpen. ASSUME NEW n \in Nodes, CopyOpen(n) PROVE ImageOK'
  BY <1>CopyOpen
  DEF CopyOpen, nodeFrame, ImageOK, BeforeStart, Copied, ControlOK, HostOK
<1>CopyDone. ASSUME NEW n \in Nodes, CopyDone(n) PROVE ImageOK'
  BY <1>CopyDone
  DEF CopyDone, nodeFrame, ImageOK, BeforeStart, Copied, ControlOK, HostOK
<1>TapShow. ASSUME NEW n \in Nodes, TapShow(n) PROVE ImageOK'
  BY <1>TapShow
  DEF TapShow, nodeFrame, ImageOK, BeforeStart, Copied, ControlOK, HostOK
<1>TapAdd. ASSUME NEW n \in Nodes, TapAdd(n) PROVE ImageOK'
  BY <1>TapAdd
  DEF TapAdd, nodeFrame, ImageOK, BeforeStart, Copied, ControlOK, HostOK
<1>TapUp. ASSUME NEW n \in Nodes, TapUp(n) PROVE ImageOK'
  BY <1>TapUp
  DEF TapUp, nodeFrame, ImageOK, BeforeStart, Copied, ControlOK, HostOK
<1>StartVMM. ASSUME NEW n \in Nodes, StartVMM(n) PROVE ImageOK'
  BY <1>StartVMM
  DEF StartVMM, nodeFrame, ImageOK, BeforeStart, Copied, ControlOK, HostOK
<1>StartRefused. ASSUME NEW n \in Nodes, StartRefused(n) PROVE ImageOK'
  BY <1>StartRefused
  DEF StartRefused, nodeFrame, ImageOK, BeforeStart, Copied, ControlOK,
      HostOK
<1>StartReturns. ASSUME NEW n \in Nodes, StartReturns(n) PROVE ImageOK'
  BY <1>StartReturns
  DEF StartReturns, nodeFrame, ImageOK, BeforeStart, Copied, ControlOK,
      HostOK
<1>AssignMachine. ASSUME NEW n \in Nodes, AssignMachine(n) PROVE ImageOK'
  BY <1>AssignMachine
  DEF AssignMachine, nodeFrame, ImageOK, BeforeStart, Copied, ControlOK,
      HostOK
<1>SendErr. ASSUME NEW n \in Nodes, SendErr(n) PROVE ImageOK'
  BY <1>SendErr
  DEF SendErr, nodeFrame, ImageOK, BeforeStart, Copied, ControlOK, HostOK
<1>KillVM. ASSUME NEW n \in Nodes, KillVM(n) PROVE ImageOK'
  BY <1>KillVM
  DEF KillVM, vmFrame, memVars, ImageOK, BeforeStart, Copied, ControlOK,
      HostOK, Running
<1>GuestHalts. ASSUME NEW n \in Nodes, GuestHalts(n) PROVE ImageOK'
  BY <1>GuestHalts
  DEF GuestHalts, vmFrame, memVars, ImageOK, BeforeStart, Copied, ControlOK,
      HostOK, Running
<1>GuestWrites. ASSUME NEW n \in Nodes, GuestWrites(n) PROVE ImageOK'
  BY <1>GuestWrites
  DEF GuestWrites, vmFrame, memVars, ImageOK, BeforeStart, Copied, ControlOK,
      HostOK
<1>Restart. CASE Restart
  BY <1>Restart
  DEF Restart, FreshPc, Running, ImageOK, BeforeStart, Copied, ControlOK,
      HostOK
<1>JustCleanUp. CASE JustCleanUp
  BY <1>JustCleanUp
  DEF JustCleanUp, memVars, Running, ImageOK, BeforeStart, Copied, ControlOK,
      HostOK
<1>others. CASE
    \/ MkBaseDir \/ BuildNodes \/ WaitNodes \/ WaitMasterSSH \/ KubeadmInit
         \/ InstallCalico \/ GetJoinCommand \/ WaitWorkerSSH \/ JoinWorker
         \/ JoinsDone \/ PrintClusterInfo \/ Signal
    \/ \E g \in Cleaners : CancelCtx(g) \/ RangeNodes(g) \/ CleanupDone(g)
         \/ Exit(g)
    \/ Killed
    \/ \E n \in Nodes : ReapVM(n)
  <2>1. UNCHANGED <<npc, img, vm>>
    BY <1>others
    DEF MkBaseDir, BuildNodes, WaitNodes, WaitMasterSSH, KubeadmInit,
        InstallCalico, GetJoinCommand, WaitWorkerSSH, JoinWorker, JoinsDone,
        PrintClusterInfo, Signal, CancelCtx, RangeNodes, CleanupDone, Exit, Killed,
        ReapVM, WaitForSSH, configFrame, ExecuteCommand, loopFrame, memVars,
        vmFrame
  <2> QED BY <2>1 DEF ImageOK, BeforeStart, Copied, ControlOK, HostOK
<1>stutter. CASE UNCHANGED vars
  BY <1>stutter
  DEF vars, memVars, ImageOK, BeforeStart, Copied, ControlOK, HostOK
<1> QED
  BY <1>SpawnNodes, <1>ShutdownNode, <1>RemoveNode, <1>MkNodeDir,
     <1>CopyOpen, <1>CopyDone, <1>TapShow, <1>TapAdd, <1>TapUp, <1>StartVMM,
     <1>StartRefused, <1>StartReturns, <1>AssignMachine, <1>SendErr,
     <1>KillVM, <1>GuestHalts, <1>GuestWrites, <1>Restart, <1>JustCleanUp,
     <1>others, <1>stutter
  DEF Next, MainStep, Configure, Cleanup, NodeStep, HostStep

\* No firecracker of this run has a half-copied root image under it.
THEOREM NoPartialBoot == Spec => []NoBootFromPartialCopy
<1>1. Init => ImageOK
  BY DEF Init, ImageOK, BeforeStart, Copied, All
<1>2. ImageOK => NoBootFromPartialCopy
  BY DEF ImageOK, NoBootFromPartialCopy
<1> QED BY <1>1, <1>2, AlwaysForkJoin, NextImageOK, PTL DEF Spec


-----------------------------------------------------------------------------
(***************************************************************************)
(* TAP devices.  In the first run nobody but CreateTapDevice makes a        *)
(* device, so `ip link show' finds none, and what is started has been       *)
(* through `ip link set up'.                                                *)
(***************************************************************************)

BeforeTap == {"idle", "mkdir", "copy", "copying", "tapShow", "tapAdd"}

TapOK ==
  Alive /\ run = 1
    => \A n \in Nodes : /\ npc[n] \in BeforeTap => tap[n] = "absent"
                        /\ npc[n] = "start" => tap[n] = "up"

\* Only the three steps of CreateTapDevice touch a device while the launcher
\* lives.
LEMMA NextTapOK == TypeOK /\ ForkJoin /\ TapOK /\ [Next]_vars => TapOK'
<1> SUFFICES ASSUME TypeOK, ForkJoin, TapOK, [Next]_vars PROVE TapOK'
  OBVIOUS
<1> USE Numbers DEF Nodes, Master, Cleaners, All, At, NodeAt, Goto, NodeGoto,
                    hostVars, diskVars, vmVars, TypeOK
<1>SpawnNodes. CASE SpawnNodes
  BY <1>SpawnNodes
  DEF SpawnNodes, TapOK, BeforeTap, ControlOK, HostOK, ForkJoin, NodeOutcome,
      Spawned, Phase
<1>beforeTap. ASSUME NEW n \in Nodes, MkNodeDir(n) \/ CopyOpen(n) \/ CopyDone(n)
              PROVE  TapOK'
  BY <1>beforeTap
  DEF MkNodeDir, CopyOpen, CopyDone, nodeFrame, TapOK, BeforeTap, ControlOK,
      HostOK
<1>TapShow. ASSUME NEW n \in Nodes, TapShow(n) PROVE TapOK'
  BY <1>TapShow DEF TapShow, nodeFrame, TapOK, BeforeTap, ControlOK, HostOK
<1>TapAdd. ASSUME NEW n \in Nodes, TapAdd(n) PROVE TapOK'
  BY <1>TapAdd DEF TapAdd, nodeFrame, TapOK, BeforeTap, ControlOK, HostOK
<1>TapUp. ASSUME NEW n \in Nodes, TapUp(n) PROVE TapOK'
  BY <1>TapUp DEF TapUp, nodeFrame, TapOK, BeforeTap, ControlOK, HostOK
<1>afterTap. ASSUME NEW n \in Nodes,
                    \/ StartVMM(n) \/ StartRefused(n) \/ StartReturns(n)
                    \/ AssignMachine(n) \/ SendErr(n)
             PROVE  TapOK'
  BY <1>afterTap
  DEF StartVMM, StartRefused, StartReturns, AssignMachine, SendErr, nodeFrame,
      TapOK, BeforeTap, ControlOK, HostOK
<1>between. CASE Restart \/ JustCleanUp
  BY <1>between DEF Restart, JustCleanUp, memVars, TapOK, Alive, ControlOK
<1>others. CASE
    \/ MkBaseDir \/ BuildNodes \/ WaitNodes \/ WaitMasterSSH \/ KubeadmInit
         \/ InstallCalico \/ GetJoinCommand \/ WaitWorkerSSH \/ JoinWorker
         \/ JoinsDone \/ PrintClusterInfo \/ Signal
    \/ \E g \in Cleaners : CancelCtx(g) \/ RangeNodes(g) \/ ShutdownNode(g)
         \/ RemoveNode(g) \/ CleanupDone(g) \/ Exit(g)
    \/ Killed
    \/ \E n \in Nodes : HostStep(n)
  <2>1. UNCHANGED <<npc, tap, run>> /\ (Alive' => Alive)
    BY <1>others
    DEF MkBaseDir, BuildNodes, WaitNodes, WaitMasterSSH, KubeadmInit,
        InstallCalico, GetJoinCommand, WaitWorkerSSH, JoinWorker, JoinsDone,
        PrintClusterInfo, Signal, CancelCtx, RangeNodes, ShutdownNode,
        RemoveNode, CleanupDone, Exit, Killed, HostStep, KillVM, ReapVM, GuestHalts,
        GuestWrites, WaitForSSH, configFrame, ExecuteCommand, loopFrame,
        memVars, vmFrame, Alive
  <2> QED BY <2>1 DEF TapOK
<1>stutter. CASE UNCHANGED vars
  BY <1>stutter DEF vars, memVars, TapOK, Alive
<1> QED
  BY <1>SpawnNodes, <1>beforeTap, <1>TapShow, <1>TapAdd, <1>TapUp, <1>afterTap,
     <1>between, <1>others, <1>stutter
  DEF Next, MainStep, Configure, Cleanup, NodeStep

\* On a fresh host no VM is started on a device that is not up.
THEOREM FreshHostTapUp == Spec => []FirstRunTapUp
<1>1. Init => TapOK
  BY DEF Init, TapOK, BeforeTap, All
<1>2. TapOK => FirstRunTapUp
  BY DEF TapOK, FirstRunTapUp, NodeAt
<1> QED BY <1>1, <1>2, AlwaysForkJoin, NextTapOK, PTL DEF Spec

-----------------------------------------------------------------------------
(***************************************************************************)
(* What Cleanup leaves                                                      *)
(***************************************************************************)

Gone(n) == dir[n] => n \in logged

Removal ==
  ~Persistent /\ Spawned =>
    /\ pc["main"] \in {"shutdown", "remove"}
         => \A n \in Nodes : n < cursor["main"] => Gone(n)
    /\ pc["main"] = "exit" => \A n \in Nodes : Gone(n)

Ended ==
  /\ exit = "main" => pc["main"] = "exit"
  /\ exit = "panic" => nodes = "torn"

LEMMA NextEnded ==
  TypeOK /\ ForkJoin /\ Ended /\ [Next]_vars => Ended'
<1> SUFFICES ASSUME TypeOK, ForkJoin, Ended, [Next]_vars PROVE Ended'
  OBVIOUS
<1> USE Numbers DEF Nodes, Master, Cleaners, All, At, NodeAt, Goto, NodeGoto,
                    hostVars, diskVars, vmVars, TypeOK
<1>MkBaseDir. CASE MkBaseDir
  BY <1>MkBaseDir
  DEF MkBaseDir, Ended, ForkJoin, Phase, NodeOutcome, Spawned, ControlOK,
      Alive
<1>BuildNodes. CASE BuildNodes
  BY <1>BuildNodes
  DEF BuildNodes, Ended, ForkJoin, Phase, NodeOutcome, Spawned, ControlOK,
      Alive
<1>SpawnNodes. CASE SpawnNodes
  BY <1>SpawnNodes
  DEF SpawnNodes, Ended, ForkJoin, Phase, NodeOutcome, Spawned, ControlOK,
      Alive
<1>WaitNodes. CASE WaitNodes
  BY <1>WaitNodes
  DEF WaitNodes, Ended, ForkJoin, Phase, NodeOutcome, Spawned, ControlOK,
      Alive
<1>WaitMasterSSH. CASE WaitMasterSSH
  BY <1>WaitMasterSSH
  DEF WaitMasterSSH, WaitForSSH, configFrame, Ended, ForkJoin, Phase,
      NodeOutcome, Spawned, ControlOK, Alive
<1>KubeadmInit. CASE KubeadmInit
  BY <1>KubeadmInit
  DEF KubeadmInit, ExecuteCommand, configFrame, Ended, ForkJoin, Phase,
      NodeOutcome, Spawned, ControlOK, Alive
<1>InstallCalico. CASE InstallCalico
  BY <1>InstallCalico
  DEF InstallCalico, ExecuteCommand, configFrame, Ended, ForkJoin, Phase,
      NodeOutcome, Spawned, ControlOK, Alive
<1>GetJoinCommand. CASE GetJoinCommand
  BY <1>GetJoinCommand
  DEF GetJoinCommand, configFrame, Ended, ForkJoin, Phase, NodeOutcome,
      Spawned, ControlOK, Alive
<1>WaitWorkerSSH. CASE WaitWorkerSSH
  BY <1>WaitWorkerSSH
  DEF WaitWorkerSSH, WaitForSSH, configFrame, Ended, ForkJoin, Phase,
      NodeOutcome, Spawned, ControlOK, Alive
<1>JoinWorker. CASE JoinWorker
  BY <1>JoinWorker
  DEF JoinWorker, ExecuteCommand, configFrame, Ended, ForkJoin, Phase,
      NodeOutcome, Spawned, ControlOK, Alive
<1>JoinsDone. CASE JoinsDone
  BY <1>JoinsDone
  DEF JoinsDone, configFrame, Ended, ForkJoin, Phase, NodeOutcome, Spawned,
      ControlOK, Alive
<1>PrintClusterInfo. CASE PrintClusterInfo
  BY <1>PrintClusterInfo
  DEF PrintClusterInfo, Ended, ForkJoin, Phase, NodeOutcome, Spawned,
      ControlOK, Alive, Configuring, ConfigurePcs
<1>Signal. CASE Signal
  BY <1>Signal
  DEF Signal, Ended, ForkJoin, Phase, NodeOutcome, Spawned, ControlOK, Alive
<1>CancelCtx. ASSUME NEW g \in Cleaners, CancelCtx(g) PROVE Ended'
  BY <1>CancelCtx
  DEF CancelCtx, Ended, ForkJoin, Phase, NodeOutcome, Spawned, ControlOK,
      Alive
<1>RangeNodes. ASSUME NEW g \in Cleaners, RangeNodes(g) PROVE Ended'
  BY <1>RangeNodes
  DEF RangeNodes, Ended, ForkJoin, Phase, NodeOutcome, Spawned, ControlOK,
      Alive
<1>ShutdownNode. ASSUME NEW g \in Cleaners, ShutdownNode(g) PROVE Ended'
  BY <1>ShutdownNode
  DEF ShutdownNode, loopFrame, Running, Ended, ForkJoin, Phase, NodeOutcome,
      Spawned, ControlOK, Alive
<1>RemoveNode. ASSUME NEW g \in Cleaners, RemoveNode(g) PROVE Ended'
  BY <1>RemoveNode
  DEF RemoveNode, RemoveAll, loopFrame, Ended, ForkJoin, Phase, NodeOutcome,
      Spawned, ControlOK, Alive
<1>CleanupDone. ASSUME NEW g \in Cleaners, CleanupDone(g) PROVE Ended'
  BY <1>CleanupDone
  DEF CleanupDone, loopFrame, Ended, ForkJoin, Phase, NodeOutcome, Spawned,
      ControlOK, Alive
<1>Exit. ASSUME NEW g \in Cleaners, Exit(g) PROVE Ended'
  BY <1>Exit
  DEF Exit, memVars, Ended, ForkJoin, Phase, NodeOutcome, Spawned, ControlOK,
      Alive
<1>Killed. CASE Killed
  BY <1>Killed
  DEF Killed, memVars, Ended, ForkJoin, Phase, NodeOutcome, Spawned, ControlOK,
      Alive
<1>Restart. CASE Restart
  BY <1>Restart
  DEF Restart, FreshPc, Running, Ended, ForkJoin, Phase, NodeOutcome,
      Spawned, ControlOK, Alive
<1>others. CASE
    \/ JustCleanUp
    \/ \E n \in Nodes : MkNodeDir(n) \/ CopyOpen(n) \/ CopyDone(n)
         \/ TapShow(n) \/ TapAdd(n) \/ TapUp(n) \/ StartVMM(n)
         \/ StartRefused(n) \/ StartReturns(n) \/ AssignMachine(n)
         \/ SendErr(n) \/ KillVM(n) \/ ReapVM(n) \/ GuestHalts(n)
         \/ GuestWrites(n)
  <2>1. UNCHANGED <<pc, exit, nodes>>
    BY <1>others
    DEF MkNodeDir, CopyOpen, CopyDone, TapShow, TapAdd, TapUp, StartVMM,
        StartRefused, StartReturns, AssignMachine, SendErr, KillVM, ReapVM,
        GuestHalts, GuestWrites, JustCleanUp, nodeFrame, vmFrame, memVars,
        Running
  <2> QED BY <2>1 DEF Ended, ForkJoin, Phase, NodeOutcome, Spawned, ControlOK, Alive
<1>stutter. CASE UNCHANGED vars
  BY <1>stutter
  DEF vars, memVars, Ended, ForkJoin, Phase, NodeOutcome, Spawned, ControlOK,
      Alive
<1> QED
  BY <1>MkBaseDir, <1>BuildNodes, <1>SpawnNodes, <1>WaitNodes,
     <1>WaitMasterSSH, <1>KubeadmInit, <1>InstallCalico, <1>GetJoinCommand,
     <1>WaitWorkerSSH, <1>JoinWorker, <1>JoinsDone, <1>PrintClusterInfo,
     <1>Signal, <1>CancelCtx, <1>RangeNodes, <1>ShutdownNode, <1>RemoveNode,
     <1>CleanupDone, <1>Exit, <1>Killed, <1>Restart, <1>others, <1>stutter
  DEF Next, MainStep, Configure, Cleanup, NodeStep, HostStep

LEMMA NextRemoval ==
  TypeOK /\ ForkJoin /\ Removal /\ [Next]_vars => Removal'
<1> SUFFICES ASSUME TypeOK, ForkJoin, Removal, [Next]_vars PROVE Removal'
  OBVIOUS
<1> USE Numbers DEF Nodes, Master, Cleaners, All, At, NodeAt, Goto, NodeGoto,
                    hostVars, diskVars, vmVars, TypeOK
<1>MkBaseDir. CASE MkBaseDir
  BY <1>MkBaseDir
  DEF MkBaseDir, Removal, Gone, Spawned, ForkJoin, Phase, NodeOutcome,
      ControlOK, MemoryOK, HostOK
<1>BuildNodes. CASE BuildNodes
  BY <1>BuildNodes
  DEF BuildNodes, Removal, Gone, Spawned, ForkJoin, Phase, NodeOutcome,
      ControlOK, MemoryOK, HostOK
<1>SpawnNodes. CASE SpawnNodes
  BY <1>SpawnNodes
  DEF SpawnNodes, Removal, Gone, Spawned, ForkJoin, Phase, NodeOutcome,
      ControlOK, MemoryOK, HostOK
<1>WaitNodes. CASE WaitNodes
  BY <1>WaitNodes
  DEF WaitNodes, Removal, Gone, Spawned, ForkJoin, Phase, NodeOutcome,
      ControlOK, MemoryOK, HostOK
<1>WaitMasterSSH. CASE WaitMasterSSH
  BY <1>WaitMasterSSH
  DEF WaitMasterSSH, WaitForSSH, configFrame, Removal, Gone, Spawned,
      ForkJoin, Phase, NodeOutcome, ControlOK, MemoryOK, HostOK
<1>KubeadmInit. CASE KubeadmInit
  BY <1>KubeadmInit
  DEF KubeadmInit, ExecuteCommand, configFrame, Removal, Gone, Spawned,
      ForkJoin, Phase, NodeOutcome, ControlOK, MemoryOK, HostOK
<1>InstallCalico. CASE InstallCalico
  BY <1>InstallCalico
  DEF InstallCalico, ExecuteCommand, configFrame, Removal, Gone, Spawned,
      ForkJoin, Phase, NodeOutcome, ControlOK, MemoryOK, HostOK
<1>GetJoinCommand. CASE GetJoinCommand
  BY <1>GetJoinCommand
  DEF GetJoinCommand, configFrame, Removal, Gone, Spawned, ForkJoin, Phase,
      NodeOutcome, ControlOK, MemoryOK, HostOK
<1>WaitWorkerSSH. CASE WaitWorkerSSH
  BY <1>WaitWorkerSSH
  DEF WaitWorkerSSH, WaitForSSH, configFrame, Removal, Gone, Spawned,
      ForkJoin, Phase, NodeOutcome, ControlOK, MemoryOK, HostOK
<1>JoinWorker. CASE JoinWorker
  BY <1>JoinWorker
  DEF JoinWorker, ExecuteCommand, configFrame, Removal, Gone, Spawned,
      ForkJoin, Phase, NodeOutcome, ControlOK, MemoryOK, HostOK
<1>JoinsDone. CASE JoinsDone
  BY <1>JoinsDone
  DEF JoinsDone, configFrame, Removal, Gone, Spawned, ForkJoin, Phase,
      NodeOutcome, ControlOK, MemoryOK, HostOK
<1>PrintClusterInfo. CASE PrintClusterInfo
  BY <1>PrintClusterInfo
  DEF PrintClusterInfo, Removal, Gone, Spawned, ForkJoin, Phase, NodeOutcome,
      ControlOK, MemoryOK, HostOK
<1>Signal. CASE Signal
  BY <1>Signal
  DEF Signal, Removal, Gone, Spawned, ForkJoin, Phase, NodeOutcome,
      ControlOK, MemoryOK, HostOK
<1>CancelCtx. ASSUME NEW g \in Cleaners, CancelCtx(g) PROVE Removal'
  BY <1>CancelCtx
  DEF CancelCtx, Removal, Gone, Spawned, ForkJoin, Phase, NodeOutcome,
      ControlOK, MemoryOK, HostOK
<1>RangeNodes. ASSUME NEW g \in Cleaners, RangeNodes(g) PROVE Removal'
  BY <1>RangeNodes
  DEF RangeNodes, Removal, Gone, Spawned, ForkJoin, Phase, NodeOutcome,
      ControlOK, MemoryOK, HostOK
<1>ShutdownNode. ASSUME NEW g \in Cleaners, ShutdownNode(g) PROVE Removal'
  BY <1>ShutdownNode
  DEF ShutdownNode, loopFrame, Running, Removal, Gone, Spawned, ForkJoin,
      Phase, NodeOutcome, ControlOK, MemoryOK, HostOK
<1>RemoveNode. ASSUME NEW g \in Cleaners, RemoveNode(g) PROVE Removal'
  <2> SUFFICES ASSUME ~Persistent, Spawned PROVE Removal'
    BY <1>RemoveNode DEF RemoveNode, loopFrame, Removal, Spawned
  <2>1. PICK c \in Nodes : c = cursor[g]
    BY <1>RemoveNode DEF RemoveNode, LoopsOK
  <2>2. /\ pc' = [pc EXCEPT ![g] = "shutdown"]
        /\ cursor' = [cursor EXCEPT ![g] = @ + 1]
        /\ RemoveAll(c)
    BY <1>RemoveNode, <2>1 DEF RemoveNode
  <2>3. \A n \in Nodes : Gone(n) => Gone(n)'
    BY <2>1, <2>2 DEF RemoveAll, Gone, HostOK
  <2>4. Gone(c)'
    BY <2>2 DEF RemoveAll, Gone, HostOK
  <2>5. CASE g = "main"
    BY <2>1, <2>2, <2>3, <2>4, <2>5, <1>RemoveNode
    DEF RemoveNode, Removal, ControlOK, MemoryOK
  <2>6. CASE g = "sig"
    BY <2>2, <2>3, <2>6 DEF Removal, ControlOK, MemoryOK
  <2> QED BY <2>5, <2>6
<1>CleanupDone. ASSUME NEW g \in Cleaners, CleanupDone(g) PROVE Removal'
  BY <1>CleanupDone
  DEF CleanupDone, loopFrame, Removal, Gone, Spawned, ForkJoin, Phase,
      NodeOutcome, ControlOK, MemoryOK, HostOK
<1>MkNodeDir. ASSUME NEW n \in Nodes, MkNodeDir(n) PROVE Removal'
  BY <1>MkNodeDir
  DEF MkNodeDir, nodeFrame, Removal, Gone, Spawned, ForkJoin, Phase,
      NodeOutcome, ControlOK, MemoryOK, HostOK
<1>Restart. CASE Restart
  BY <1>Restart
  DEF Restart, FreshPc, Running, Removal, Gone, Spawned, ForkJoin, Phase,
      NodeOutcome, ControlOK, MemoryOK, HostOK
<1>JustCleanUp. CASE JustCleanUp
  BY <1>JustCleanUp
  DEF JustCleanUp, memVars, Running, Removal, Gone, Spawned, ForkJoin, Phase,
      NodeOutcome, ControlOK, MemoryOK, HostOK
<1>others. CASE
    \/ \E g \in Cleaners : Exit(g)
    \/ Killed
    \/ \E n \in Nodes : CopyOpen(n) \/ CopyDone(n) \/ TapShow(n) \/ TapAdd(n)
         \/ TapUp(n) \/ StartVMM(n) \/ StartRefused(n) \/ StartReturns(n)
         \/ AssignMachine(n) \/ SendErr(n) \/ KillVM(n) \/ ReapVM(n)
         \/ GuestHalts(n) \/ GuestWrites(n)
  <2>1. UNCHANGED <<pc, nodes, cursor, dir, logged>>
    BY <1>others
    DEF Exit, Killed, CopyOpen, CopyDone, TapShow, TapAdd, TapUp, StartVMM,
        StartRefused, StartReturns, AssignMachine, SendErr, KillVM, ReapVM,
        GuestHalts, GuestWrites, memVars, nodeFrame, vmFrame
  <2> QED BY <2>1 DEF Removal, Gone, Spawned, ForkJoin, Phase, NodeOutcome, ControlOK, MemoryOK, HostOK
<1>stutter. CASE UNCHANGED vars
  BY <1>stutter
  DEF vars, memVars, Removal, Gone, Spawned, ForkJoin, Phase, NodeOutcome,
      ControlOK, MemoryOK, HostOK
<1> QED
  BY <1>MkBaseDir, <1>BuildNodes, <1>SpawnNodes, <1>WaitNodes,
     <1>WaitMasterSSH, <1>KubeadmInit, <1>InstallCalico, <1>GetJoinCommand,
     <1>WaitWorkerSSH, <1>JoinWorker, <1>JoinsDone, <1>PrintClusterInfo,
     <1>Signal, <1>CancelCtx, <1>RangeNodes, <1>ShutdownNode, <1>RemoveNode,
     <1>CleanupDone, <1>MkNodeDir, <1>Restart, <1>JustCleanUp, <1>others,
     <1>stutter
  DEF Next, MainStep, Configure, Cleanup, NodeStep, HostStep

\* Without a signal, a launcher that gives up leaves no node directory whose
\* removal did not fail (cluster.go:112-117, 241-246).
THEOREM FailureCleansUp == Spec => []FailureCleanedUp
<1>1. Init => Removal /\ Ended
  BY DEF Init, Removal, Ended, Spawned
<1>2. Removal /\ Ended => FailureCleanedUp
  BY DEF Removal, Ended, Gone, Spawned, FailureCleanedUp
<1> QED BY <1>1, <1>2, AlwaysForkJoin, NextRemoval, NextEnded, PTL DEF Spec

-----------------------------------------------------------------------------
(***************************************************************************)
(* What outlives the launcher.  Once a Cleanup has cancelled the context    *)
(* nothing is started, so what a loop has behind it stays cut off, whatever *)
(* the goroutines and the other Cleanup do; and a Cleanup that sees no      *)
(* nodes is before them all, or has cancelled the context of them all.      *)
(***************************************************************************)

Passed ==
  ~Persistent =>
    /\ \A g \in Cleaners :
         /\ pc[g] \in {"range", "shutdown", "remove"} => ctxDone
         /\ pc[g] \in {"shutdown", "remove"}
              => \A n \in Nodes : n < cursor[g] => CutOff(n)
         /\ pc[g] = "exit" => \A n \in Nodes : CutOff(n)
    /\ pc["sig"] = "exit" => ctxDone
    /\ pc["main"] = "exit" /\ Spawned => ctxDone
    /\ exit \notin {"none", "killed"} => \A n \in Nodes : CutOff(n)

\* Only StartVMM makes a firecracker that is not cut off, and no step of a run
\* forgets what was logged.
LEMMA StaysCutOff ==
  ASSUME TypeOK, Next, NEW n \in Nodes, CutOff(n), ~StartVMM(n)
  PROVE  CutOff(n)'
<1> USE DEF Nodes, Cleaners, hostVars, diskVars, vmVars, CutOff
<1>1. ASSUME NEW g \in Cleaners, RemoveNode(g) PROVE CutOff(n)'
  <2>1. CASE Persistent
    BY <1>1, <2>1 DEF RemoveNode
  <2>2. CASE ~Persistent
    <3>1. RemoveAll(cursor[g]) /\ cursor[g] \in Nodes
      BY <1>1, <2>2 DEF RemoveNode, TypeOK, LoopsOK, At
    <3>2. logged \subseteq logged'
      BY <3>1 DEF RemoveAll
    <3>3. \/ vm' = vm
          \/ vm' = [vm EXCEPT ![cursor[g]] = IF @ = "linked" THEN "unlinked" ELSE @]
      BY <3>1 DEF RemoveAll
    <3>4. vm'[n] = "linked" => vm[n] = "linked"
      BY <3>3 DEF TypeOK, HostOK
    <3> QED BY <3>2, <3>4
  <2> QED BY <2>1, <2>2
<1>2. ASSUME NEW g \in Cleaners, ShutdownNode(g) PROVE CutOff(n)'
  BY <1>2 DEF ShutdownNode, loopFrame, TypeOK, HostOK
<1>3. ASSUME NEW m \in Nodes, StartVMM(m) PROVE CutOff(n)'
  BY <1>3 DEF StartVMM, nodeFrame, TypeOK, HostOK
<1>4. ASSUME NEW m \in Nodes, KillVM(m) \/ GuestHalts(m) PROVE CutOff(n)'
  BY <1>4 DEF KillVM, GuestHalts, vmFrame, TypeOK, HostOK
<1>5. CASE Restart
  BY <1>5 DEF Restart, All
<1>6. CASE JustCleanUp
  <2>1. logged' = logged /\ (vm' = vm \/
          vm' = [m \in Nodes |-> IF Running(m) THEN "killed" ELSE vm[m]])
    BY <1>6 DEF JustCleanUp
  <2> QED BY <2>1 DEF Running
<1>others. CASE
    \/ MainStep \/ Configure \/ Signal
    \/ \E g \in Cleaners : CancelCtx(g) \/ RangeNodes(g) \/ CleanupDone(g)
         \/ Exit(g)
    \/ Killed
    \/ \E m \in Nodes : NodeStep(m) /\ ~StartVMM(m)
    \/ \E m \in Nodes : ReapVM(m) \/ GuestWrites(m)
  <2>1. UNCHANGED <<vm, logged>>
    BY <1>others
    DEF MainStep, MkBaseDir, BuildNodes, SpawnNodes, WaitNodes, JoinsDone,
        PrintClusterInfo, Configure, WaitMasterSSH, KubeadmInit, InstallCalico,
        GetJoinCommand, WaitWorkerSSH, JoinWorker, WaitForSSH, ExecuteCommand,
        configFrame, Signal, CancelCtx, RangeNodes, CleanupDone, Exit, Killed, loopFrame,
        NodeStep, MkNodeDir, CopyOpen, CopyDone, TapShow, TapAdd, TapUp,
        StartRefused, StartReturns, AssignMachine, SendErr, nodeFrame, ReapVM,
        GuestWrites, vmFrame, memVars
  <2> QED BY <2>1
<1> QED
  BY <1>1, <1>2, <1>3, <1>4, <1>5, <1>6, <1>others DEF Next, Cleanup, HostStep

LEMMA NextPassed ==
  TypeOK /\ ForkJoin /\ ImageOK /\ Passed /\ [Next]_vars => Passed'
<1> SUFFICES ASSUME TypeOK, ForkJoin, ImageOK, Passed, [Next]_vars PROVE Passed'
  OBVIOUS
<1> USE Numbers DEF Nodes, Cleaners, At, NodeAt, Goto, NodeGoto, hostVars, diskVars,
                    vmVars, TypeOK
<1>idle. ~Spawned => \A n \in Nodes : CutOff(n)
  BY DEF ForkJoin, NodeOutcome, ImageOK, BeforeStart, CutOff
<1>start. ASSUME NEW n \in Nodes, StartVMM(n) PROVE Passed'
  <2>1. ~ctxDone /\ Spawned /\ Alive
    BY <1>start DEF StartVMM, CanStart, ForkJoin, NodeOutcome
  <2>2. UNCHANGED <<pc, ctxDone, exit, nodes>>
    BY <1>start DEF StartVMM, nodeFrame
  <2> QED BY <2>1, <2>2 DEF Passed, Alive, ControlOK, CleanupPcs
<1> SUFFICES ASSUME \A n \in Nodes : ~StartVMM(n) PROVE Passed'
  BY <1>start
<1>stay. Next => \A n \in Nodes : CutOff(n) => CutOff(n)'
  BY StaysCutOff
<1>mkBase. CASE MkBaseDir
  BY <1>mkBase, <1>idle, <1>stay
  DEF MkBaseDir, ForkJoin, Phase, Passed, CutOff, Alive, ControlOK, MainPcs,
      Spawned
<1>build. CASE BuildNodes \/ SpawnNodes
  <2>1. /\ pc'["main"] \in {"building", "wait"} /\ pc'["sig"] = pc["sig"]
        /\ UNCHANGED <<cursor, ctxDone, exit, vm, logged>> /\ Alive
    BY <1>build DEF BuildNodes, SpawnNodes, ControlOK
  <2> QED BY <2>1 DEF Passed, CutOff, Alive
<1>main. CASE WaitNodes \/ JoinsDone \/ PrintClusterInfo
  <2>1. /\ pc'["main"] \in {"sshMaster", "cancel", "print", "serving"}
        /\ pc'["sig"] = pc["sig"]
        /\ UNCHANGED <<cursor, ctxDone, nodes, vm, logged>> /\ Alive
    BY <1>main DEF WaitNodes, JoinsDone, PrintClusterInfo, configFrame, ControlOK
  <2>2. exit' = exit
    BY <1>main DEF WaitNodes, JoinsDone, PrintClusterInfo, configFrame, ForkJoin,
       Phase, NodeOutcome, Configuring, Spawned, Alive
  <2> QED BY <2>1, <2>2 DEF Passed, CutOff, Alive, Spawned
<1>configure. CASE Configure
  <2>1. /\ pc'["main"] \in ConfigurePcs \cup {"cancel"} /\ pc'["sig"] = pc["sig"]
        /\ UNCHANGED <<cursor, ctxDone, nodes, exit, vm, logged>> /\ Alive
    BY <1>configure
    DEF Configure, WaitMasterSSH, KubeadmInit, InstallCalico, GetJoinCommand,
        WaitWorkerSSH, JoinWorker, WaitForSSH, ExecuteCommand, configFrame,
        ConfigurePcs, ControlOK
  <2> QED BY <2>1 DEF Passed, CutOff, Alive, Spawned, ConfigurePcs
<1>Signal. CASE Signal
  BY <1>Signal DEF Signal, Passed, CutOff, Alive, Spawned, ControlOK
<1>CancelCtx. ASSUME NEW g \in Cleaners, CancelCtx(g) PROVE Passed'
  BY <1>CancelCtx DEF CancelCtx, Passed, CutOff, Alive, Spawned, ControlOK
<1>RangeNodes. ASSUME NEW g \in Cleaners, RangeNodes(g) PROVE Passed'
  <2>1. /\ ctxDone \/ Persistent
        /\ UNCHANGED <<ctxDone, nodes, vm, logged>> /\ Alive
        /\ cursor' = [cursor EXCEPT ![g] = 1]
    BY <1>RangeNodes DEF RangeNodes, Passed
  <2>2. CASE nodes = "set" /\ pc' = [pc EXCEPT ![g] = "shutdown"] /\ exit' = exit
    BY <2>1, <2>2 DEF Passed, CutOff, Alive, Spawned, ControlOK, MemoryOK
  <2>3. CASE nodes # "set" /\ pc' = [pc EXCEPT ![g] = "exit"] /\ exit' = exit
    BY <2>1, <2>3, <1>idle DEF Passed, CutOff, Alive, Spawned, ControlOK, MemoryOK
  <2>4. CASE nodes = "torn" /\ exit' = "panic" /\ pc' = pc
    BY <2>1, <2>4, <1>idle DEF Passed, CutOff, Alive, Spawned, ControlOK, MemoryOK
  <2> QED BY <1>RangeNodes, <2>2, <2>3, <2>4 DEF RangeNodes
<1>ShutdownNode. ASSUME NEW g \in Cleaners, ShutdownNode(g) PROVE Passed'
  <2>1. \A n \in Nodes : CutOff(n) => CutOff(n)'
    BY <1>ShutdownNode DEF ShutdownNode, loopFrame, CutOff, HostOK
  <2>2. /\ pc' = [pc EXCEPT ![g] = "remove"] /\ pc[g] = "shutdown"
        /\ UNCHANGED <<cursor, ctxDone, nodes, exit>>
    BY <1>ShutdownNode DEF ShutdownNode, loopFrame
  <2> QED BY <2>1, <2>2 DEF Passed, Alive, Spawned, ControlOK
<1>RemoveNode. ASSUME NEW g \in Cleaners, RemoveNode(g) PROVE Passed'
  <2> SUFFICES ASSUME ~Persistent PROVE Passed'
    BY DEF Passed
  <2>1. \A n \in Nodes : CutOff(n) => CutOff(n)'
    BY <1>RemoveNode, <1>stay DEF Next, Cleanup
  <2>n. PICK n \in Nodes : n = cursor[g]
    BY <1>RemoveNode DEF RemoveNode, LoopsOK
  <2>2. /\ pc' = [pc EXCEPT ![g] = "shutdown"] /\ pc[g] = "remove"
        /\ cursor' = [cursor EXCEPT ![g] = n + 1]
        /\ UNCHANGED <<ctxDone, nodes, exit>> /\ RemoveAll(n) /\ Alive
    BY <1>RemoveNode, <2>n DEF RemoveNode, loopFrame
  <2>3. CutOff(n)'
    <3>1. PICK dirGone \in BOOLEAN, filesGone \in BOOLEAN :
            /\ dirGone => filesGone
            /\ logged' = IF dirGone THEN logged ELSE logged \cup {n}
            /\ filesGone => vm' = [vm EXCEPT ![n] =
                                     IF @ = "linked" THEN "unlinked" ELSE @]
      BY <2>2 DEF RemoveAll
    <3>2. CASE ~dirGone
      BY <3>1, <3>2 DEF CutOff
    <3>3. CASE dirGone
      <4>1. vm' = [vm EXCEPT ![n] = IF @ = "linked" THEN "unlinked" ELSE @]
        BY <3>1, <3>3
      <4>2. vm'[n] # "linked"
        BY <2>2, <4>1 DEF HostOK
      <4> QED BY <4>2 DEF CutOff
    <3> QED BY <3>2, <3>3
  <2>4. \A m \in Nodes : m < cursor'[g] => CutOff(m)'
    <3>1. cursor'[g] = n + 1 /\ \A m \in Nodes : m < n => CutOff(m)
      BY <2>n, <2>2 DEF Passed, MemoryOK
    <3> QED BY <2>1, <2>3, <3>1
  <2> QED BY <2>1, <2>2, <2>4 DEF Passed, Alive, Spawned, ControlOK, MemoryOK
<1>CleanupDone. ASSUME NEW g \in Cleaners, CleanupDone(g) PROVE Passed'
  <2>1. UNCHANGED <<cursor, ctxDone, nodes, exit, vm, logged>> /\ Alive
    BY <1>CleanupDone DEF CleanupDone, loopFrame
  <2>2. ~Persistent => ctxDone /\ \A n \in Nodes : CutOff(n)
    BY <1>CleanupDone DEF CleanupDone, Passed, MemoryOK
  <2> QED BY <1>CleanupDone, <2>1, <2>2
    DEF CleanupDone, Passed, CutOff, Alive, Spawned, ControlOK
<1>Exit. ASSUME NEW g \in Cleaners, Exit(g) PROVE Passed'
  BY <1>Exit DEF Exit, memVars, Passed, CutOff, Alive, Spawned
<1>Killed. CASE Killed
  BY <1>Killed DEF Killed, memVars, Passed, CutOff, Alive, Spawned
<1>nodes. ASSUME NEW n \in Nodes, NodeStep(n) \/ HostStep(n) PROVE Passed'
  <2>1. UNCHANGED <<pc, cursor, ctxDone, nodes, exit>>
    BY <1>nodes
    DEF NodeStep, MkNodeDir, CopyOpen, CopyDone, TapShow, TapAdd, TapUp,
        StartRefused, StartReturns, AssignMachine, SendErr, nodeFrame, HostStep,
        KillVM, ReapVM, GuestHalts, GuestWrites, vmFrame, memVars
  <2>2. \A m \in Nodes : CutOff(m) => CutOff(m)'
    BY <1>nodes, <1>stay DEF Next
  <2> QED BY <2>1, <2>2 DEF Passed, Alive, Spawned
<1>Restart. CASE Restart
  BY <1>Restart DEF Restart, FreshPc, Passed, Alive
<1>JustCleanUp. CASE JustCleanUp
  <2>1. \A n \in Nodes : CutOff(n) => CutOff(n)'
    BY <1>JustCleanUp, <1>stay DEF Next
  <2>2. UNCHANGED <<pc, cursor, ctxDone, nodes, exit>>
    BY <1>JustCleanUp DEF JustCleanUp, memVars
  <2> QED BY <2>1, <2>2 DEF Passed, Alive, Spawned
<1>stutter. CASE UNCHANGED vars
  BY <1>stutter DEF vars, memVars, Passed, CutOff, Alive, Spawned
<1> QED
  BY <1>start, <1>mkBase, <1>build, <1>main, <1>configure, <1>Signal, <1>CancelCtx,
     <1>RangeNodes, <1>ShutdownNode, <1>RemoveNode, <1>CleanupDone, <1>Exit,
     <1>Killed, <1>nodes, <1>Restart, <1>JustCleanUp, <1>stutter
  DEF Next, MainStep, Cleanup

\* Of a launcher that ends by itself, what it leaves running has lost its directory,
\* or the removal was logged; a launcher that is killed is the case this leaves out
\* (cluster.go:232-246).
THEOREM SurvivorsCutOff == Spec => []SurvivorsAreCutOff
<1>1. Init => Passed /\ ImageOK
  BY DEF Init, Passed, ImageOK, FreshPc, Alive, Spawned, Cleaners, All, Copied
<1>2. Passed => SurvivorsAreCutOff
  BY DEF Passed, SurvivorsAreCutOff
<1> QED BY <1>1, <1>2, AlwaysForkJoin, NextImageOK, NextPassed, PTL DEF Spec

-----------------------------------------------------------------------------
(***************************************************************************)
(* Advance.  Why the goroutines and the Cleanups come to an end: what each  *)
(* of them has left to do shrinks with its own steps and grows with nobody  *)
(* else's.  That a step is taken whenever one is left is a matter of        *)
(* fairness, which TLC checks.                                              *)
(***************************************************************************)

\* A step of main, the signal or a node goroutine leaves the loop of a Cleanup
\* where it is.
LEMMA OthersLeaveCleanups ==
  ASSUME TypeOK, NEW g \in Cleaners, Alive, pc[g] \in CleanupPcs,
         \/ MainStep \/ Configure \/ Signal \/ Killed
         \/ \E n \in Nodes : NodeStep(n) \/ HostStep(n)
  PROVE  pc'[g] = pc[g] /\ cursor' = cursor /\ (~Alive' \/ exit' = exit)
<1> USE DEF Cleaners, At, Goto, hostVars, vmVars, diskVars, CleanupPcs, Alive
<1>1. CASE MainStep
  BY <1>1
  DEF MainStep, MkBaseDir, BuildNodes, SpawnNodes, WaitNodes, JoinsDone,
      PrintClusterInfo, configFrame, TypeOK, ControlOK
<1>2. CASE Configure \/ Signal
  BY <1>2
  DEF Configure, WaitMasterSSH, KubeadmInit, InstallCalico, GetJoinCommand,
      WaitWorkerSSH, JoinWorker, WaitForSSH, ExecuteCommand, configFrame, Signal,
      TypeOK, ControlOK
<1>3. ASSUME NEW n \in Nodes, NodeStep(n) \/ HostStep(n)
      PROVE  pc' = pc /\ cursor' = cursor /\ exit' = exit
  BY <1>3
  DEF NodeStep, MkNodeDir, CopyOpen, CopyDone, TapShow, TapAdd, TapUp, StartVMM,
      StartRefused, StartReturns, AssignMachine, SendErr, nodeFrame, HostStep,
      KillVM, ReapVM, GuestHalts, GuestWrites, vmFrame, memVars
<1>4. CASE Killed
  BY <1>4 DEF Killed, memVars
<1> QED BY <1>1, <1>2, <1>3, <1>4

\* A step of the Cleanup of g brings g forward, and leaves the other one where it is.
LEMMA CleanupStep ==
  ASSUME TypeOK, NEW g \in Cleaners, Cleanup(g)
  PROVE  /\ pc'[g] \in CleanupPcs /\ CleanupSteps(g)' < CleanupSteps(g)
         /\ \A h \in Cleaners \ {g} : pc'[h] = pc[h] /\ cursor'[h] = cursor[h]
         /\ ~Alive' \/ exit' = exit
<1> USE Numbers DEF At, Goto, TypeOK, ControlOK, MemoryOK, CleanupPcs, CleanupSteps,
                    Alive, Nodes
<1>1. CASE CancelCtx(g)
  BY <1>1 DEF CancelCtx, hostVars
<1>2. CASE RangeNodes(g)
  BY <1>2 DEF RangeNodes
<1>3. CASE ShutdownNode(g)
  BY <1>3 DEF ShutdownNode, loopFrame
<1>4. CASE RemoveNode(g)
  <2>1. cursor[g] \in Nodes
    BY <1>4 DEF RemoveNode, LoopsOK
  <2> QED BY <1>4, <2>1 DEF RemoveNode, loopFrame
<1>5. CASE CleanupDone(g)
  BY <1>5 DEF CleanupDone, loopFrame
<1>6. CASE Exit(g)
  BY <1>6 DEF Exit, memVars, Cleaners
<1> QED BY <1>1, <1>2, <1>3, <1>4, <1>5, <1>6 DEF Cleanup

\* Each Cleanup is over after 2 * NodeCount + 4 steps of its own, whatever the other
\* one and the goroutines do (cluster.go:232-248).
THEOREM CleanupIsBounded == Spec => CleanupAdvances
<1> DEFINE Advance(g) == Alive /\ pc[g] \in CleanupPcs =>
             /\ pc'[g] \in CleanupPcs
             /\ CleanupSteps(g)' <= CleanupSteps(g)
             /\ Cleanup(g) => CleanupSteps(g)' < CleanupSteps(g)
<1>1. TypeOK /\ [Next]_vars => [\A g \in Cleaners : Advance(g)]_vars
  <2> SUFFICES ASSUME TypeOK, Next, NEW g \in Cleaners, Alive, pc[g] \in CleanupPcs
               PROVE  /\ pc'[g] \in CleanupPcs
                      /\ CleanupSteps(g)' <= CleanupSteps(g)
                      /\ Cleanup(g) => CleanupSteps(g)' < CleanupSteps(g)
    OBVIOUS
  <2>1. CleanupSteps(g) \in Nat
    BY Numbers DEF TypeOK, MemoryOK, LoopsOK, CleanupSteps, Nodes
  <2>2. CASE Cleanup(g)
    <3>1. pc'[g] \in CleanupPcs /\ CleanupSteps(g)' < CleanupSteps(g)
      BY <2>2, CleanupStep
    <3>2. CleanupSteps(g)' \in Int
      <4>1. cursor'[g] \in Nat
        BY NextType, Numbers DEF TypeOK, MemoryOK
      <4> QED BY <4>1, Numbers DEF CleanupSteps
    <3> QED BY <2>1, <3>1, <3>2
  <2>3. CASE ~Cleanup(g) /\ \E h \in Cleaners \ {g} : Cleanup(h)
    <3>1. /\ pc'[g] = pc[g] /\ cursor'[g] = cursor[g]
          /\ ~Alive' \/ exit' = exit
      BY <2>3, CleanupStep
    <3> QED BY <2>1, <2>3, <3>1 DEF CleanupSteps, Alive
  <2>4. CASE /\ ~Cleanup(g)
             /\ \/ MainStep \/ Configure \/ Signal \/ Killed
                \/ \E n \in Nodes : NodeStep(n) \/ HostStep(n)
    <3>1. pc'[g] = pc[g] /\ cursor' = cursor /\ (~Alive' \/ exit' = exit)
      BY <2>4, OthersLeaveCleanups
    <3> QED BY <2>1, <2>4, <3>1 DEF CleanupSteps, Alive
  <2> QED BY <2>2, <2>3, <2>4 DEF Next, Restart, JustCleanUp
<1>2. Spec => [][\A g \in Cleaners : Advance(g)]_vars
  BY <1>1, TypeCorrect, PTL DEF Spec
<1> QED BY <1>2 DEF CleanupAdvances

\* Nobody but the goroutine of a node moves it, once it was started.
LEMMA OthersLeaveNodes ==
  ASSUME TypeOK, ForkJoin, Alive, NEW n \in Nodes, npc[n] # "idle",
         \/ MainStep \/ Configure \/ Signal \/ Killed
         \/ \E g \in Cleaners : Cleanup(g)
         \/ \E m \in Nodes : HostStep(m)
  PROVE  npc' = npc
<1> USE DEF Alive, memVars, configFrame, loopFrame, hostVars
<1>1. CASE MainStep
  <2>1. ~SpawnNodes
    BY DEF SpawnNodes, At, ForkJoin, Phase, NodeOutcome
  <2> QED BY <1>1, <2>1 DEF MainStep, MkBaseDir, BuildNodes, WaitNodes, JoinsDone,
                            PrintClusterInfo
<1>2. CASE Configure \/ Signal \/ Killed
  BY <1>2
  DEF Configure, WaitMasterSSH, KubeadmInit, InstallCalico, GetJoinCommand,
      WaitWorkerSSH, JoinWorker, WaitForSSH, ExecuteCommand, Signal,
      Killed
<1>3. ASSUME NEW g \in Cleaners, Cleanup(g) PROVE npc' = npc
  BY <1>3 DEF Cleanup, CancelCtx, RangeNodes, ShutdownNode, RemoveNode, CleanupDone,
              Exit
<1>4. ASSUME NEW m \in Nodes, HostStep(m) PROVE npc' = npc
  BY <1>4 DEF HostStep, KillVM, ReapVM, GuestHalts, GuestWrites, vmFrame
<1> QED BY <1>1, <1>2, <1>3, <1>4

\* A step of a goroutine brings it forward, and leaves the others where they are.
LEMMA GoroutineStep ==
  ASSUME TypeOK, NEW n \in Nodes, NodeStep(n)
  PROVE  /\ npc'[n] # "idle" /\ NodeSteps(n)' < NodeSteps(n)
         /\ \A m \in Nodes \ {n} : npc'[m] = npc[m]
<1> USE DEF NodeAt, NodeGoto, TypeOK, ControlOK, NodeSteps
<1>1. CASE MkNodeDir(n) \/ CopyOpen(n) \/ CopyDone(n)
  BY <1>1 DEF MkNodeDir, CopyOpen, CopyDone
<1>2. CASE TapShow(n) \/ TapAdd(n) \/ TapUp(n)
  BY <1>2 DEF TapShow, TapAdd, TapUp
<1>3. CASE StartVMM(n) \/ StartRefused(n) \/ StartReturns(n)
  BY <1>3 DEF StartVMM, StartRefused, StartReturns
<1>4. CASE AssignMachine(n) \/ SendErr(n)
  BY <1>4 DEF AssignMachine, SendErr
<1> QED BY <1>1, <1>2, <1>3, <1>4 DEF NodeStep

\* wg.Wait waits for goroutines of ten steps at most each (cluster.go:98-108); with
\* ErrChNeverFull, none of them ever lacks a step to take when it has an error.
THEOREM GoroutinesAreBounded == Spec => GoroutinesAdvance
<1> DEFINE Advance(n) == Alive /\ npc[n] # "idle" =>
             /\ npc'[n] # "idle"
             /\ NodeSteps(n)' <= NodeSteps(n)
             /\ NodeStep(n) => NodeSteps(n)' < NodeSteps(n)
<1>1. TypeOK /\ ForkJoin /\ [Next]_vars => [\A n \in Nodes : Advance(n)]_vars
  <2> SUFFICES ASSUME TypeOK, ForkJoin, Next, NEW n \in Nodes, Alive, npc[n] # "idle"
               PROVE  /\ npc'[n] # "idle"
                      /\ NodeSteps(n)' <= NodeSteps(n)
                      /\ NodeStep(n) => NodeSteps(n)' < NodeSteps(n)
    OBVIOUS
  <2>1. NodeSteps(n) \in Nat /\ NodeSteps(n)' \in Nat
    BY DEF NodeSteps
  <2>2. CASE NodeStep(n)
    BY <2>1, <2>2, GoroutineStep
  <2>3. CASE ~NodeStep(n)
    <3>1. npc'[n] = npc[n]
      BY <2>3, GoroutineStep, OthersLeaveNodes DEF Next, Restart, JustCleanUp
    <3> QED BY <2>1, <2>3, <3>1 DEF NodeSteps
  <2> QED BY <2>2, <2>3
<1>2. Spec => [][\A n \in Nodes : Advance(n)]_vars
  BY <1>1, AlwaysForkJoin, PTL DEF Spec
<1> QED BY <1>2 DEF GoroutinesAdvance

-----------------------------------------------------------------------------
(***************************************************************************)
(* Socket files that are left behind.                                       *)
(***************************************************************************)

\* m.Start is under way only with a process that was started.
StartingHasVM == \A n \in Nodes : npc[n] = "starting" => vm[n] # "none"

\* Only a Restart forgets the process of a node.
LEMMA VMNotForgotten ==
  ASSUME TypeOK, Next, ~Restart, NEW n \in Nodes
  PROVE  vm'[n] = "none" => vm[n] = "none"
<1> USE DEF TypeOK, HostOK, vmVars, hostVars, memVars, configFrame, loopFrame,
            nodeFrame, vmFrame
<1>1. CASE MainStep \/ Configure \/ Signal \/ Killed
  BY <1>1
  DEF MainStep, MkBaseDir, BuildNodes, SpawnNodes, WaitNodes, JoinsDone,
      PrintClusterInfo, Configure, WaitMasterSSH, KubeadmInit, InstallCalico,
      GetJoinCommand, WaitWorkerSSH, JoinWorker, WaitForSSH, ExecuteCommand, Signal,
      Killed
<1>2. ASSUME NEW g \in Cleaners, Cleanup(g), ~RemoveNode(g)
      PROVE  vm'[n] = "none" => vm[n] = "none"
  BY <1>2 DEF Cleanup, CancelCtx, RangeNodes, ShutdownNode, CleanupDone, Exit
<1>3. ASSUME NEW g \in Cleaners, RemoveNode(g)
      PROVE  vm'[n] = "none" => vm[n] = "none"
  <2>1. \/ vm' = vm
        \/ vm' = [vm EXCEPT ![cursor[g]] = IF @ = "linked" THEN "unlinked" ELSE @]
    BY <1>3 DEF RemoveNode, RemoveAll
  <2> QED BY <2>1
<1>4. ASSUME NEW m \in Nodes, NodeStep(m) PROVE vm'[n] = "none" => vm[n] = "none"
  BY <1>4
  DEF NodeStep, MkNodeDir, CopyOpen, CopyDone, TapShow, TapAdd, TapUp, StartVMM,
      StartRefused, StartReturns, AssignMachine, SendErr
<1>5. ASSUME NEW m \in Nodes, HostStep(m) PROVE vm'[n] = "none" => vm[n] = "none"
  BY <1>5 DEF HostStep, KillVM, ReapVM, GuestHalts, GuestWrites
<1>6. CASE JustCleanUp
  <2>1. \/ vm' = vm
        \/ vm' = [k \in Nodes |-> IF Running(k) THEN "killed" ELSE vm[k]]
    BY <1>6 DEF JustCleanUp
  <2> QED BY <2>1
<1> QED BY <1>1, <1>2, <1>3, <1>4, <1>5, <1>6 DEF Next

LEMMA NextStartingHasVM ==
  TypeOK /\ ForkJoin /\ StartingHasVM /\ [Next]_vars => StartingHasVM'
<1> SUFFICES ASSUME TypeOK, ForkJoin, StartingHasVM, [Next]_vars,
                    NEW n \in Nodes, npc'[n] = "starting"
             PROVE  vm'[n] # "none"
  BY DEF StartingHasVM
<1>1. CASE Restart \/ UNCHANGED vars
  BY <1>1 DEF Restart, All, vars, memVars, hostVars, vmVars, StartingHasVM
<1>2. CASE Next /\ ~Restart /\ npc[n] = "starting"
  BY <1>2, VMNotForgotten DEF StartingHasVM
<1>3. CASE Next /\ ~Restart /\ npc[n] # "starting"
  <2>1. ASSUME NEW m \in Nodes, NodeStep(m) PROVE StartVMM(n)
    <3>1. m = n
      BY <1>3, <2>1, GoroutineStep
    <3> QED
      BY <1>3, <2>1, <3>1
      DEF NodeStep, MkNodeDir, CopyOpen, CopyDone, TapShow, TapAdd, TapUp,
          StartRefused, StartReturns, AssignMachine, SendErr, NodeGoto, TypeOK,
          ControlOK
  <2>2. CASE MainStep
    BY <1>3, <2>2
    DEF MainStep, MkBaseDir, BuildNodes, SpawnNodes, WaitNodes, JoinsDone,
        PrintClusterInfo, configFrame
  <2>3. CASE ~MainStep /\ ~JustCleanUp /\ \A m \in Nodes : ~NodeStep(m)
    <3>1. Alive
      BY <1>3, <2>3
      DEF Next, Configure, WaitMasterSSH, KubeadmInit, InstallCalico,
          GetJoinCommand, WaitWorkerSSH, JoinWorker, WaitForSSH, ExecuteCommand,
          Signal, Killed, Cleanup, CancelCtx, RangeNodes, ShutdownNode, RemoveNode,
          CleanupDone, Exit, HostStep, KillVM, ReapVM, GuestHalts, GuestWrites, At
    <3>2. CASE npc[n] = "idle"
      BY <1>3, <2>3, <3>2
      DEF Next, Configure, WaitMasterSSH, KubeadmInit, InstallCalico,
          GetJoinCommand, WaitWorkerSSH, JoinWorker, WaitForSSH, ExecuteCommand,
          Signal, Killed, Cleanup, CancelCtx, RangeNodes, ShutdownNode, RemoveNode,
          CleanupDone, Exit, HostStep, KillVM, ReapVM, GuestHalts, GuestWrites,
          configFrame, loopFrame, vmFrame, memVars
    <3>3. CASE npc[n] # "idle"
      BY <1>3, <2>3, <3>1, <3>3, OthersLeaveNodes DEF Next
    <3> QED BY <3>2, <3>3
  <2>4. CASE JustCleanUp
    BY <1>3, <2>4 DEF JustCleanUp, memVars
  <2>5. CASE \E m \in Nodes : NodeStep(m)
    BY <2>1, <2>5 DEF StartVMM, TypeOK, HostOK
  <2> QED BY <2>2, <2>3, <2>4, <2>5
<1> QED BY <1>1, <1>2, <1>3

\* A socket file under which no process of this run listens keeps its node from being
\* started, in this run and in all that follow (cluster.go:182, 201-209, 241-246).
THEOREM WedgeStays == Spec => WedgedUntilCleanUp
<1> DEFINE Stays == \A n \in Nodes : Wedged(n) => Wedged(n)' \/ JustCleanUp
<1>1. TypeOK /\ ForkJoin /\ StartingHasVM /\ Persistent /\ [Next]_vars => [Stays]_vars
  <2> SUFFICES ASSUME TypeOK, ForkJoin, StartingHasVM, Persistent, Next,
                      NEW n \in Nodes, Wedged(n), ~JustCleanUp
               PROVE  Wedged(n)'
    OBVIOUS
  <2> USE DEF Wedged, TypeOK, HostOK, hostVars, diskVars, vmVars, configFrame
  <2>1. CASE MainStep \/ Configure \/ Signal \/ Killed
    BY <2>1
    DEF MainStep, MkBaseDir, BuildNodes, SpawnNodes, WaitNodes, JoinsDone,
        PrintClusterInfo, Configure, WaitMasterSSH, KubeadmInit, InstallCalico,
        GetJoinCommand, WaitWorkerSSH, JoinWorker, WaitForSSH, ExecuteCommand,
        Signal, Killed
  <2>2. ASSUME NEW g \in Cleaners, Cleanup(g) PROVE Wedged(n)'
    BY <2>2
    DEF Cleanup, CancelCtx, RangeNodes, ShutdownNode, RemoveNode, CleanupDone, Exit,
        loopFrame, Running
  <2>3. ASSUME NEW m \in Nodes, NodeStep(m), ~StartVMM(m), ~StartReturns(m)
        PROVE  Wedged(n)'
    BY <2>3
    DEF NodeStep, MkNodeDir, CopyOpen, CopyDone, TapShow, TapAdd, TapUp,
        StartRefused, AssignMachine, SendErr, nodeFrame
  <2>4. ASSUME NEW m \in Nodes, StartVMM(m) PROVE Wedged(n)'
    BY <2>4 DEF StartVMM, CanStart
  <2>5. ASSUME NEW m \in Nodes, StartReturns(m) PROVE Wedged(n)'
    <3>1. m # n
      BY <2>5 DEF StartReturns, NodeAt, StartingHasVM
    <3>2. /\ UNCHANGED vm
          /\ sock' = sock \/ \E s \in {sock[m], FALSE} : sock' = [sock EXCEPT ![m] = s]
      BY <2>5 DEF StartReturns
    <3> QED BY <3>1, <3>2
  <2>6. ASSUME NEW m \in Nodes, HostStep(m) PROVE Wedged(n)'
    BY <2>6 DEF HostStep, KillVM, ReapVM, GuestHalts, GuestWrites, Running
  <2>7. CASE Restart
    BY <2>7 DEF Restart, All
  <2> QED BY <2>1, <2>2, <2>3, <2>4, <2>5, <2>6, <2>7 DEF Next, NodeStep
<1>2. Init => StartingHasVM
  BY DEF Init, StartingHasVM, All
<1>3. CASE Persistent
  <2>1. Spec => [][Stays]_vars
    BY <1>1, <1>2, <1>3, AlwaysForkJoin, NextStartingHasVM, PTL DEF Spec
  <2> QED BY <2>1 DEF WedgedUntilCleanUp
<1> QED BY <1>3 DEF WedgedUntilCleanUp

-----------------------------------------------------------------------------
(***************************************************************************)
(* A run without faults.  Each call of a goroutine finds what the calls     *)
(* before it have made, and neither the other goroutines nor the guests     *)
(* take any of it away; so the fork-join has no error to report and each    *)
(* guest stays within reach.                                                *)
(***************************************************************************)

Provisioned(n) ==
  /\ orphan[n] = "none" /\ npc[n] # "fail"
  /\ npc[n] \notin {"idle", "mkdir"} => dir[n]
  /\ npc[n] \in {"copying", "tapShow", "tapAdd", "tapUp", "start"}
       => img[n] # "none"
  /\ npc[n] \in BeforeStart => ~sock[n]
  /\ npc[n] \in BeforeTap => tap[n] = "absent"
  /\ npc[n] \in {"start", "starting", "assign", "done"} => tap[n] = "up"
  /\ npc[n] \in {"starting", "assign", "done"} => Running(n)

Smooth ==
  FaultFree =>
    /\ Alive /\ ~ctxDone /\ errCh = {}
    /\ pc["sig"] = "idle" /\ pc["main"] \notin CleanupPcs
    /\ \A n \in Nodes : Provisioned(n)

\* Where nothing fails main finds every guest within reach once it configures.
LEMMA WithinReach ==
  ASSUME ForkJoin, Smooth, FaultFree, Configuring
  PROVE  \A n \in Nodes : machine[n] /\ Reachable(n)
BY DEF ForkJoin, Phase, NodeOutcome, Configuring, ConfigurePcs, Smooth, Provisioned,
       Reachable

\* A step of main goes on to the next call, and leaves the nodes alone but for
\* SpawnNodes.
LEMMA SmoothMain ==
  ASSUME TypeOK, ForkJoin, Smooth, FaultFree, MainStep \/ Configure
  PROVE  Smooth' /\ MainSteps' < MainSteps
<1> USE Numbers DEF FaultFree, At, Goto, Cleaners, Alive
<1>t. /\ target \in Nat /\ NodeCount + 1 - target \in Nat
      /\ pc \in [Cleaners -> MainPcs \cup SigPcs]
  BY DEF TypeOK, ControlOK, MemoryOK, Nodes
<1>s. ASSUME pc'["main"] \notin CleanupPcs, pc'["sig"] = pc["sig"], exit' = exit,
             UNCHANGED <<npc, ctxDone, errCh, diskVars, tap, vmVars>>
      PROVE  Smooth'
  BY <1>s DEF Smooth, Provisioned, Running, diskVars, vmVars
<1>1. CASE MkBaseDir
  <2>1. pc'["main"] = "build" /\ pc'["sig"] = pc["sig"] /\ target' = target
    BY <1>1, <1>t DEF MkBaseDir
  <2> QED BY <1>1, <1>s, <1>t, <2>1 DEF MkBaseDir, MainSteps, CleanupPcs, hostVars
<1>2. CASE BuildNodes
  <2>1. pc'["main"] = "building" /\ pc'["sig"] = pc["sig"] /\ target' = target
    BY <1>2, <1>t DEF BuildNodes
  <2> QED BY <1>2, <1>s, <1>t, <2>1 DEF BuildNodes, MainSteps, CleanupPcs, hostVars
<1>3. CASE SpawnNodes
  <2>1. pc'["main"] = "wait" /\ pc'["sig"] = pc["sig"] /\ target' = target
    BY <1>3, <1>t DEF SpawnNodes
  <2>2. \A n \in Nodes : npc[n] = "idle" /\ npc'[n] = "mkdir"
    BY <1>3 DEF SpawnNodes, ForkJoin, Phase, NodeOutcome
  <2>3. Smooth'
    BY <1>3, <2>1, <2>2
    DEF SpawnNodes, Smooth, Provisioned, BeforeTap, BeforeStart, CleanupPcs, hostVars,
        diskVars, vmVars, Running
  <2> QED BY <1>3, <1>t, <2>1, <2>3 DEF SpawnNodes, MainSteps
<1>4. CASE WaitNodes
  <2>1. pc'["main"] = "sshMaster" /\ pc'["sig"] = pc["sig"] /\ target' = target
    BY <1>4, <1>t DEF WaitNodes, Smooth
  <2> QED BY <1>4, <1>s, <1>t, <2>1 DEF WaitNodes, MainSteps, CleanupPcs, hostVars
<1>5. CASE WaitMasterSSH \/ KubeadmInit \/ InstallCalico \/ GetJoinCommand
  <2>1. Reachable(Master)
    BY <1>5, WithinReach
    DEF WaitMasterSSH, KubeadmInit, InstallCalico, GetJoinCommand, WaitForSSH,
        ExecuteCommand, Configuring, ConfigurePcs, Nodes, Master
  <2>2. /\ \/ pc["main"] = "sshMaster" /\ pc'["main"] = "init"
           \/ pc["main"] = "init" /\ pc'["main"] = "calico"
           \/ pc["main"] = "calico" /\ pc'["main"] = "token"
           \/ pc["main"] = "token" /\ pc'["main"] = "sshWorker"
        /\ pc'["sig"] = pc["sig"] /\ UNCHANGED <<configFrame, target>>
    BY <1>5, <1>t, <2>1
    DEF WaitMasterSSH, KubeadmInit, InstallCalico, GetJoinCommand, WaitForSSH,
        ExecuteCommand
  <2> QED BY <1>s, <1>t, <2>2 DEF MainSteps, CleanupPcs, configFrame, hostVars
<1>6. CASE WaitWorkerSSH
  <2>1. Reachable(target)
    BY <1>6, WithinReach DEF WaitWorkerSSH, WaitForSSH, Configuring, ConfigurePcs
  <2>2. /\ pc["main"] = "sshWorker" /\ pc'["main"] = "join" /\ pc'["sig"] = pc["sig"]
        /\ UNCHANGED <<configFrame, target>>
    BY <1>6, <1>t, <2>1 DEF WaitWorkerSSH, WaitForSSH
  <2> QED BY <1>s, <1>t, <2>2 DEF MainSteps, CleanupPcs, configFrame, hostVars
<1>7. CASE JoinWorker
  <2>1. target \in Nodes /\ Reachable(target)
    BY <1>7, WithinReach
    DEF JoinWorker, ExecuteCommand, Configuring, ConfigurePcs, TypeOK, LoopsOK
  <2>2. /\ pc["main"] = "join" /\ pc'["main"] = "sshWorker" /\ pc'["sig"] = pc["sig"]
        /\ UNCHANGED configFrame
    BY <1>7, <1>t, <2>1 DEF JoinWorker, ExecuteCommand
  <2>3. target' = target + 1 /\ NodeCount - target \in Nat
    BY <1>7, <2>1, <2>2 DEF JoinWorker, Nodes
  <2> QED BY <1>s, <1>t, <2>2, <2>3 DEF MainSteps, CleanupPcs, configFrame, hostVars
<1>8. CASE JoinsDone
  <2>1. /\ pc["main"] = "sshWorker" /\ pc'["main"] = "print" /\ pc'["sig"] = pc["sig"]
        /\ UNCHANGED <<configFrame, target>>
    BY <1>8, <1>t DEF JoinsDone
  <2> QED BY <1>s, <1>t, <2>1 DEF MainSteps, CleanupPcs, configFrame, hostVars
<1>9. CASE PrintClusterInfo
  <2>1. \A n \in Nodes : machine[n]
    BY <1>9, WithinReach DEF PrintClusterInfo, Configuring
  <2>2. /\ pc["main"] = "print" /\ pc'["main"] = "serving" /\ pc'["sig"] = pc["sig"]
        /\ exit' = exit
    BY <1>9, <1>t, <2>1 DEF PrintClusterInfo
  <2> QED BY <1>9, <1>s, <1>t, <2>2 DEF PrintClusterInfo, MainSteps, CleanupPcs
<1> QED
  BY <1>1, <1>2, <1>3, <1>4, <1>5, <1>6, <1>7, <1>8, <1>9 DEF MainStep, Configure

\* A step of a goroutine finds what it needs, and disturbs no other node.
LEMMA SmoothNode ==
  ASSUME TypeOK, ForkJoin, Smooth, FaultFree, NEW m \in Nodes,
         NodeStep(m) \/ HostStep(m)
  PROVE  Smooth'
<1> USE DEF FaultFree, NodeAt, NodeGoto, Alive, Running, nodeFrame, diskVars, vmVars
<1>1. /\ npc \in [Nodes -> NodePcs] /\ dir \in [Nodes -> BOOLEAN]
      /\ img \in [Nodes -> {"none", "partial", "base", "used"}]
      /\ sock \in [Nodes -> BOOLEAN]
      /\ tap \in [Nodes -> {"absent", "down", "up"}]
      /\ vm \in [Nodes -> {"none", "linked", "unlinked", "halted", "killed"}]
  BY DEF TypeOK, ControlOK, HostOK
<1>2. Provisioned(m)
  BY DEF Smooth
<1>3. ASSUME Provisioned(m)', UNCHANGED <<pc, exit, ctxDone, errCh, orphan>>,
             \A n \in Nodes \ {m} :
               /\ npc'[n] = npc[n] /\ dir'[n] = dir[n] /\ img'[n] = img[n]
               /\ sock'[n] = sock[n] /\ tap'[n] = tap[n] /\ vm'[n] = vm[n]
      PROVE  Smooth'
  BY <1>3 DEF Smooth, Provisioned
<1>4. CASE MkNodeDir(m) \/ CopyOpen(m) \/ CopyDone(m)
  BY <1>1, <1>2, <1>3, <1>4
  DEF MkNodeDir, CopyOpen, CopyDone, Provisioned, BeforeTap, BeforeStart
<1>5. CASE TapShow(m) \/ TapAdd(m) \/ TapUp(m)
  BY <1>1, <1>2, <1>3, <1>5
  DEF TapShow, TapAdd, TapUp, Provisioned, BeforeTap, BeforeStart
<1>6. CASE StartVMM(m)
  BY <1>1, <1>2, <1>3, <1>6 DEF StartVMM, Provisioned, BeforeTap, BeforeStart
<1>7. ~StartRefused(m)
  BY <1>2 DEF StartRefused, CanStart, Provisioned, BeforeStart, Smooth
<1>8. CASE StartReturns(m)
  <2>1. Running(m) /\ npc' = [npc EXCEPT ![m] = "assign"] /\ UNCHANGED sock
    BY <1>2, <1>8 DEF StartReturns, Smooth, Provisioned
  <2> QED BY <1>1, <1>2, <1>3, <1>8, <2>1 DEF StartReturns, Provisioned, BeforeTap, BeforeStart
<1>9. CASE AssignMachine(m)
  BY <1>1, <1>2, <1>3, <1>9 DEF AssignMachine, Provisioned, BeforeTap, BeforeStart
<1>10. ~SendErr(m)
  BY <1>2 DEF SendErr, Provisioned
<1>11. CASE HostStep(m)
  <2>1. ~KillVM(m) /\ ~GuestHalts(m)
    BY DEF KillVM, GuestHalts, Smooth
  <2>2. CASE ReapVM(m)
    BY <1>1, <1>2, <1>3, <2>2 DEF ReapVM, vmFrame, memVars, Provisioned
  <2>3. CASE GuestWrites(m)
    BY <1>1, <1>2, <1>3, <2>3 DEF GuestWrites, vmFrame, memVars, Provisioned
  <2> QED BY <1>11, <2>1, <2>2, <2>3 DEF HostStep
<1> QED
  BY <1>4, <1>5, <1>6, <1>7, <1>8, <1>9, <1>10, <1>11 DEF NodeStep

\* There is no other step.
LEMMA SmoothSteps ==
  ASSUME TypeOK, Smooth, FaultFree, Next
  PROVE  \/ MainStep \/ Configure
         \/ \E n \in Nodes : NodeStep(n) \/ HostStep(n)
<1>1. ~Signal /\ ~Killed /\ ~Restart /\ ~JustCleanUp
  BY DEF Signal, Killed, Restart, JustCleanUp, FaultFree, Smooth
<1>2. ASSUME NEW g \in Cleaners PROVE ~Cleanup(g)
  BY DEF Cleanup, CancelCtx, RangeNodes, ShutdownNode, RemoveNode, CleanupDone, Exit,
         At, Smooth, Cleaners, CleanupPcs
<1> QED BY <1>1, <1>2 DEF Next

LEMMA NextSmooth == TypeOK /\ ForkJoin /\ Smooth /\ [Next]_vars => Smooth'
<1> SUFFICES ASSUME TypeOK, ForkJoin, Smooth, [Next]_vars, FaultFree PROVE Smooth'
  BY DEF Smooth
<1>1. CASE Next
  BY <1>1, SmoothSteps, SmoothMain, SmoothNode
<1>2. CASE UNCHANGED vars
  BY <1>2 DEF vars, memVars, hostVars, diskVars, vmVars, Smooth, Provisioned, Alive,
              Running
<1> QED BY <1>1, <1>2

LEMMA InitSmooth == Init => Smooth
  BY DEF Init, Smooth, Provisioned, BeforeTap, BeforeStart, All, Alive, FreshPc, Cleaners,
         CleanupPcs

\* Without faults nothing the launcher does fails, for any number of nodes: no
\* error is sent, no Cleanup runs, every guest stays within reach.
THEOREM NoFaultNoFailure == Spec => []NothingFails
<1>1. ForkJoin /\ Smooth => NothingFails
  <2> SUFFICES ASSUME ForkJoin, Smooth, FaultFree
               PROVE  /\ Alive /\ errCh = {} /\ pc["main"] \notin CleanupPcs
                      /\ Configuring => \A n \in Nodes : Reachable(n)
    BY DEF NothingFails
  <2> QED BY WithinReach DEF Smooth
<1> QED BY <1>1, AlwaysForkJoin, InitSmooth, NextSmooth, PTL DEF Spec

\* main announces the cluster after 2 * NodeCount + 8 steps of its own.
THEOREM MainIsBounded == Spec => MainAdvances
<1> DEFINE Advance == FaultFree => /\ MainSteps' <= MainSteps
                                   /\ MainStep \/ Configure => MainSteps' < MainSteps
<1>1. TypeOK /\ ForkJoin /\ Smooth /\ [Next]_vars => [Advance]_vars
  <2> SUFFICES ASSUME TypeOK, ForkJoin, Smooth, FaultFree, Next
               PROVE  /\ MainSteps' <= MainSteps
                      /\ MainStep \/ Configure => MainSteps' < MainSteps
    OBVIOUS
  <2>1. target \in Nat /\ NodeCount \in Nat
    BY Numbers DEF TypeOK, MemoryOK
  <2>2. MainSteps \in Int
    BY <2>1 DEF MainSteps
  <2>3. CASE MainStep \/ Configure
    <3>1. MainSteps' < MainSteps
      BY <2>3, SmoothMain
    <3>2. target' \in Nat
      BY NextType, Numbers DEF TypeOK, MemoryOK
    <3>3. MainSteps' \in Int
      BY <2>1, <3>2 DEF MainSteps
    <3> QED BY <2>2, <3>1, <3>3
  <2>4. ASSUME NEW n \in Nodes, NodeStep(n) \/ HostStep(n)
        PROVE  UNCHANGED <<pc, target>>
    BY <2>4
    DEF NodeStep, MkNodeDir, CopyOpen, CopyDone, TapShow, TapAdd, TapUp, StartVMM,
        StartRefused, StartReturns, AssignMachine, SendErr, nodeFrame, HostStep,
        KillVM, ReapVM, GuestHalts, GuestWrites, vmFrame, memVars
  <2>5. CASE ~(MainStep \/ Configure)
    <3>1. UNCHANGED <<pc, target>>
      BY <2>4, <2>5, SmoothSteps
    <3>2. MainSteps' = MainSteps
      BY <3>1 DEF MainSteps
    <3> QED BY <2>2, <2>5, <3>2
  <2> QED BY <2>3, <2>5
<1>2. Spec => [][Advance]_vars
  BY <1>1, AlwaysForkJoin, InitSmooth, NextSmooth, PTL DEF Spec
<1> QED BY <1>2 DEF MainAdvances

\* Where ssh refuses the port there is no way past getJoinCommand, in any run.
THEOREM NeverReadyOnStockHost == Spec => []StockHostNeverReady
<1>1. Init => StockHostNeverReady
  BY DEF Init, StockHostNeverReady, FreshPc, Cleaners, All
<1>2. TypeOK /\ StockHostNeverReady /\ [Next]_vars => StockHostNeverReady'
  <2> SUFFICES ASSUME TypeOK, StockHostNeverReady, [Next]_vars, ~SshPortResolves
               PROVE  /\ pc'["main"] \notin {"sshWorker", "join", "print", "serving"}
                      /\ \A n \in Nodes : kube'[n] # "joined"
    BY DEF StockHostNeverReady
  <2> USE DEF StockHostNeverReady, At, Goto, Cleaners, TypeOK, ControlOK, MemoryOK
  <2>1. CASE MainStep
    BY <2>1
    DEF MainStep, MkBaseDir, BuildNodes, SpawnNodes, WaitNodes, JoinsDone,
        PrintClusterInfo
  <2>2. CASE WaitMasterSSH \/ GetJoinCommand \/ WaitWorkerSSH \/ JoinWorker
    BY <2>2
    DEF WaitMasterSSH, GetJoinCommand, WaitWorkerSSH, JoinWorker, WaitForSSH,
        ExecuteCommand
  <2>3. CASE KubeadmInit \/ InstallCalico
    BY <2>3 DEF KubeadmInit, InstallCalico, ExecuteCommand, Nodes, Master
  <2>4. CASE Signal \/ Killed \/ \E g \in Cleaners : Cleanup(g)
    BY <2>4
    DEF Signal, Cleanup, CancelCtx, RangeNodes, ShutdownNode, RemoveNode,
        CleanupDone, Exit, Killed, loopFrame, memVars
  <2>5. ASSUME NEW n \in Nodes, NodeStep(n) \/ HostStep(n) PROVE UNCHANGED <<pc, kube>>
    BY <2>5
    DEF NodeStep, MkNodeDir, CopyOpen, CopyDone, TapShow, TapAdd, TapUp, StartVMM,
        StartRefused, StartReturns, AssignMachine, SendErr, nodeFrame, HostStep,
        KillVM, ReapVM, GuestHalts, GuestWrites, vmFrame, memVars
  <2>6. CASE Restart
    BY <2>6 DEF Restart, FreshPc, All
  <2>7. CASE JustCleanUp \/ UNCHANGED vars
    BY <2>7 DEF JustCleanUp, vars, memVars
  <2> QED BY <2>1, <2>2, <2>3, <2>4, <2>5, <2>6, <2>7 DEF Next, Configure
<1> QED BY <1>1, <1>2, TypeCorrect, PTL DEF Spec

-----------------------------------------------------------------------------
(***************************************************************************)
(* Joining                                                                  *)
(***************************************************************************)

JoinedBelow(k) == \A v \in 2..(k - 1) : kube[v] = "joined"

Joining ==
  /\ WorkersJoinAfterMaster
  /\ pc["main"] = "token" => kube[Master] = "cni"
  /\ pc["main"] \in {"sshWorker", "join"}
       => kube[Master] = "cni" /\ joinCommand /\ JoinedBelow(target)
  /\ pc["main"] \in {"print", "serving"}
       => kube[Master] = "cni" /\ JoinedBelow(NodeCount + 1)
  /\ pc["main"] \in ProvisionPcs \cup {"sshMaster", "init", "calico", "token"}
       => target = 2 /\ \A n \in Nodes : kube[n] # "joined"

LEMMA NextJoining ==
  TypeOK /\ ForkJoin /\ Joining /\ [Next]_vars => Joining'
<1> SUFFICES ASSUME TypeOK, ForkJoin, Joining, [Next]_vars PROVE Joining'
  OBVIOUS
<1> USE Numbers DEF Nodes, Master, Cleaners, All, At, NodeAt, Goto, NodeGoto,
                    hostVars, diskVars, vmVars, TypeOK
<1>MkBaseDir. CASE MkBaseDir
  BY <1>MkBaseDir
  DEF MkBaseDir, Joining, WorkersJoinAfterMaster, JoinedBelow, ProvisionPcs,
      ControlOK, MemoryOK
<1>BuildNodes. CASE BuildNodes
  BY <1>BuildNodes
  DEF BuildNodes, Joining, WorkersJoinAfterMaster, JoinedBelow, ProvisionPcs,
      ControlOK, MemoryOK
<1>SpawnNodes. CASE SpawnNodes
  BY <1>SpawnNodes
  DEF SpawnNodes, Joining, WorkersJoinAfterMaster, JoinedBelow, ProvisionPcs,
      ControlOK, MemoryOK
<1>WaitNodes. CASE WaitNodes
  BY <1>WaitNodes
  DEF WaitNodes, Joining, WorkersJoinAfterMaster, JoinedBelow, ProvisionPcs,
      ControlOK, MemoryOK
<1>WaitMasterSSH. CASE WaitMasterSSH
  BY <1>WaitMasterSSH
  DEF WaitMasterSSH, WaitForSSH, configFrame, Joining,
      WorkersJoinAfterMaster, JoinedBelow, ProvisionPcs, ControlOK, MemoryOK
<1>KubeadmInit. CASE KubeadmInit
  BY <1>KubeadmInit
  DEF KubeadmInit, ExecuteCommand, configFrame, Joining,
      WorkersJoinAfterMaster, JoinedBelow, ProvisionPcs, ControlOK, MemoryOK
<1>InstallCalico. CASE InstallCalico
  <2>1. target' = 2 /\ \A n \in Nodes : kube[n] # "joined"
    BY <1>InstallCalico DEF InstallCalico, ExecuteCommand, Joining
  <2>2. PICK k \in {kube[Master], "cni"} :
          /\ kube' = [kube EXCEPT ![Master] = k]
          /\ \/ k = "cni" /\ pc'["main"] = "token"
             \/ pc'["main"] = "cancel"
    BY <1>InstallCalico DEF InstallCalico, ExecuteCommand, ControlOK
  <2>3. \A n \in Nodes : kube'[n] # "joined"
    BY <2>1, <2>2 DEF MemoryOK
  <2>4. kube'[Master] = k
    BY <2>2 DEF MemoryOK
  <2> QED
    BY <2>1, <2>2, <2>3, <2>4
    DEF Joining, WorkersJoinAfterMaster, ProvisionPcs
<1>GetJoinCommand. CASE GetJoinCommand
  <2>1. /\ kube' = kube /\ target' = target
        /\ kube[Master] = "cni"
        /\ \A n \in Nodes : kube[n] # "joined"
    BY <1>GetJoinCommand DEF GetJoinCommand, configFrame, Joining
  <2>2. WorkersJoinAfterMaster'
    BY <2>1 DEF WorkersJoinAfterMaster
  <2>3. CASE pc'["main"] = "cancel"
    BY <2>2, <2>3 DEF Joining, ProvisionPcs
  <2>4. CASE pc'["main"] = "sshWorker" /\ joinCommand'
    <3>1. target = 2
      BY <1>GetJoinCommand DEF GetJoinCommand, Joining
    <3>2. JoinedBelow(target)'
      BY <2>1, <3>1 DEF JoinedBelow
    <3> QED BY <2>1, <2>2, <2>4, <3>2 DEF Joining, ProvisionPcs
  <2> QED
    BY <1>GetJoinCommand, <2>3, <2>4 DEF GetJoinCommand, ControlOK
<1>WaitWorkerSSH. CASE WaitWorkerSSH
  BY <1>WaitWorkerSSH
  DEF WaitWorkerSSH, WaitForSSH, configFrame, Joining,
      WorkersJoinAfterMaster, JoinedBelow, ProvisionPcs, ControlOK, MemoryOK
<1>JoinWorker. CASE JoinWorker
  <2>1. target \in Nodes /\ target >= 2 /\ joinCommand
        /\ kube[Master] = "cni" /\ JoinedBelow(target)
    BY <1>JoinWorker
    DEF JoinWorker, ExecuteCommand, LoopsOK, MemoryOK, Joining
  <2>2. PICK k \in {kube[target], "joined"} :
          /\ kube' = [kube EXCEPT ![target] = k]
          /\ \/ k = "joined" /\ pc'["main"] = "sshWorker"
             \/ pc'["main"] = "cancel"
    BY <1>JoinWorker DEF JoinWorker, ExecuteCommand, ControlOK
  <2>3. joinCommand' /\ kube'[Master] = "cni"
    BY <1>JoinWorker, <2>1, <2>2 DEF JoinWorker, MemoryOK
  <2>4. \A n \in Nodes : kube'[n] = kube[n] \/ kube'[n] = "joined"
    BY <2>1, <2>2 DEF MemoryOK
  <2>5. WorkersJoinAfterMaster'
    <3> SUFFICES ASSUME NEW w \in Nodes \ {Master}, kube'[w] = "joined",
                        NEW v \in 2..(w - 1)
                 PROVE  kube'[v] = "joined"
      BY <2>3 DEF WorkersJoinAfterMaster
    <3>1. v \in Nodes
      BY DEF MemoryOK
    <3>2. kube[v] = "joined"
      <4>1. CASE w = target
        BY <2>1, <4>1 DEF JoinedBelow
      <4>2. CASE w # target
        <5>1. kube[w] = "joined"
          BY <2>2, <4>2 DEF MemoryOK
        <5> QED BY <5>1 DEF Joining, WorkersJoinAfterMaster
      <4> QED BY <4>1, <4>2
    <3> QED BY <2>4, <3>1, <3>2
  <2>6. CASE pc'["main"] = "cancel"
    BY <2>5, <2>6 DEF Joining, ProvisionPcs
  <2>7. CASE pc'["main"] = "sshWorker" /\ k = "joined"
    <3>1. target' = target + 1
      BY <1>JoinWorker, <2>7 DEF JoinWorker
    <3>2. JoinedBelow(target)'
      <4> SUFFICES ASSUME NEW v \in 2..target PROVE kube'[v] = "joined"
        BY <2>1, <3>1 DEF JoinedBelow
      <4>1. v \in Nodes
        BY <2>1
      <4>2. CASE v = target
        BY <2>2, <2>7, <4>1, <4>2 DEF MemoryOK
      <4>3. CASE v # target
        BY <2>1, <2>4, <4>1, <4>3 DEF JoinedBelow
      <4> QED BY <4>2, <4>3
    <3> QED BY <2>3, <2>5, <2>7, <3>2 DEF Joining, ProvisionPcs
  <2> QED BY <2>2, <2>6, <2>7
<1>JoinsDone. CASE JoinsDone
  BY <1>JoinsDone
  DEF JoinsDone, configFrame, Joining, WorkersJoinAfterMaster, JoinedBelow,
      ProvisionPcs, ControlOK, MemoryOK
<1>PrintClusterInfo. CASE PrintClusterInfo
  BY <1>PrintClusterInfo
  DEF PrintClusterInfo, Joining, WorkersJoinAfterMaster, JoinedBelow,
      ProvisionPcs, ControlOK, MemoryOK
<1>Signal. CASE Signal
  BY <1>Signal
  DEF Signal, Joining, WorkersJoinAfterMaster, JoinedBelow, ProvisionPcs,
      ControlOK, MemoryOK
<1>CancelCtx. ASSUME NEW g \in Cleaners, CancelCtx(g) PROVE Joining'
  BY <1>CancelCtx
  DEF CancelCtx, Joining, WorkersJoinAfterMaster, JoinedBelow, ProvisionPcs,
      ControlOK, MemoryOK
<1>RangeNodes. ASSUME NEW g \in Cleaners, RangeNodes(g) PROVE Joining'
  BY <1>RangeNodes
  DEF RangeNodes, Joining, WorkersJoinAfterMaster, JoinedBelow, ProvisionPcs,
      ControlOK, MemoryOK
<1>ShutdownNode. ASSUME NEW g \in Cleaners, ShutdownNode(g) PROVE Joining'
  BY <1>ShutdownNode
  DEF ShutdownNode, loopFrame, Running, Joining, WorkersJoinAfterMaster,
      JoinedBelow, ProvisionPcs, ControlOK, MemoryOK
<1>RemoveNode. ASSUME NEW g \in Cleaners, RemoveNode(g) PROVE Joining'
  BY <1>RemoveNode
  DEF RemoveNode, RemoveAll, loopFrame, Joining, WorkersJoinAfterMaster,
      JoinedBelow, ProvisionPcs, ControlOK, MemoryOK
<1>CleanupDone. ASSUME NEW g \in Cleaners, CleanupDone(g) PROVE Joining'
  BY <1>CleanupDone
  DEF CleanupDone, loopFrame, Joining, WorkersJoinAfterMaster, JoinedBelow,
      ProvisionPcs, ControlOK, MemoryOK
<1>Restart. CASE Restart
  BY <1>Restart
  DEF Restart, FreshPc, Running, Joining, WorkersJoinAfterMaster,
      JoinedBelow, ProvisionPcs, ControlOK, MemoryOK
<1>others. CASE
    \/ JustCleanUp \/ Killed
    \/ \E g \in Cleaners : Exit(g)
    \/ \E n \in Nodes : MkNodeDir(n) \/ CopyOpen(n) \/ CopyDone(n)
         \/ TapShow(n) \/ TapAdd(n) \/ TapUp(n) \/ StartVMM(n)
         \/ StartRefused(n) \/ StartReturns(n) \/ AssignMachine(n)
         \/ SendErr(n) \/ KillVM(n) \/ ReapVM(n) \/ GuestHalts(n)
         \/ GuestWrites(n)
  <2>1. UNCHANGED <<pc, target, joinCommand, kube>>
    BY <1>others
    DEF Exit, Killed, MkNodeDir, CopyOpen, CopyDone, TapShow, TapAdd, TapUp,
        StartVMM, StartRefused, StartReturns, AssignMachine, SendErr, KillVM,
        ReapVM, GuestHalts, GuestWrites, JustCleanUp, memVars, nodeFrame,
        vmFrame, Running
  <2> QED BY <2>1 DEF Joining, WorkersJoinAfterMaster, JoinedBelow, ProvisionPcs, ControlOK, MemoryOK
<1>stutter. CASE UNCHANGED vars
  BY <1>stutter
  DEF vars, memVars, Joining, WorkersJoinAfterMaster, JoinedBelow,
      ProvisionPcs, ControlOK, MemoryOK
<1> QED
  BY <1>MkBaseDir, <1>BuildNodes, <1>SpawnNodes, <1>WaitNodes,
     <1>WaitMasterSSH, <1>KubeadmInit, <1>InstallCalico, <1>GetJoinCommand,
     <1>WaitWorkerSSH, <1>JoinWorker, <1>JoinsDone, <1>PrintClusterInfo,
     <1>Signal, <1>CancelCtx, <1>RangeNodes, <1>ShutdownNode, <1>RemoveNode,
     <1>CleanupDone, <1>Restart, <1>others, <1>stutter
  DEF Next, MainStep, Configure, Cleanup, NodeStep, HostStep

\* Workers are joined in order, to a master that is ready for them.
THEOREM JoinOrder == Spec => []WorkersJoinAfterMaster
<1>1. Init => Joining
  BY DEF Init, Joining, WorkersJoinAfterMaster, JoinedBelow, FreshPc, All,
         Nodes, Cleaners
<1>2. Joining => WorkersJoinAfterMaster
  BY DEF Joining
<1> QED BY <1>1, <1>2, AlwaysForkJoin, NextJoining, PTL DEF Spec

\* "Cluster is ready!" is only said of a cluster that is.
THEOREM ReadyIsAssembled == Spec => []ReadyMeansAssembled
<1>1. Init => Joining /\ Ended
  BY DEF Init, Joining, WorkersJoinAfterMaster, JoinedBelow, FreshPc, All,
         Nodes, Cleaners, Ended
<1>2. TypeOK /\ ForkJoin /\ Joining /\ Ended => ReadyMeansAssembled
  BY Numbers DEF Joining, JoinedBelow, Ended, ReadyMeansAssembled, ForkJoin,
     Phase, NodeOutcome, Spawned, Configuring, ConfigurePcs, Nodes, Master
<1> QED BY <1>1, <1>2, AlwaysForkJoin, NextJoining, NextEnded, PTL DEF Spec

-----------------------------------------------------------------------------
(***************************************************************************)
(* Devices of a cluster that is announced.  A machine is one of this run's  *)
(* firecrackers, which no earlier firecracker shared its device with, and    *)
(* main has been through each guest's device.                               *)
(***************************************************************************)

HasVM == \A n \in Nodes : npc[n] = "assign" \/ machine[n] => vm[n] # "none"

Unshared == \A n \in Nodes : vm[n] # "none" => orphan[n] = "none"

\* The nodes whose device main has reached a guest through.
MasterReached == {"init", "calico", "token", "sshWorker", "join", "print", "serving"}

TapsUp ==
  Alive =>
    /\ pc["main"] \in MasterReached => tap[Master] = "up"
    /\ pc["main"] = "sshWorker" => \A w \in 2..(target - 1) : tap[w] = "up"
    /\ pc["main"] = "join" => \A w \in 2..target : tap[w] = "up"
    /\ pc["main"] \in {"print", "serving"} => \A n \in Nodes : tap[n] = "up"

OwnDevices == StartingHasVM /\ HasVM /\ Unshared /\ TapsUp

\* A machine is that of a Start that has returned.
LEMMA MachineFromStart ==
  ASSUME TypeOK, Next, ~Restart, NEW n \in Nodes
  PROVE  /\ npc'[n] = "assign" => npc[n] \in {"starting", "assign"}
         /\ machine'[n] => machine[n] \/ npc[n] = "assign"
<1> DEFINE Goal == /\ npc'[n] = "assign" => npc[n] \in {"starting", "assign"}
                   /\ machine'[n] => machine[n] \/ npc[n] = "assign"
<1> USE DEF TypeOK, ControlOK, MemoryOK, memVars, configFrame, loopFrame, nodeFrame,
            vmFrame, NodeAt, NodeGoto
<1>1. CASE MainStep \/ Configure \/ Signal \/ Killed
  BY <1>1
  DEF MainStep, MkBaseDir, BuildNodes, SpawnNodes, WaitNodes, JoinsDone,
      PrintClusterInfo, Configure, WaitMasterSSH, KubeadmInit, InstallCalico,
      GetJoinCommand, WaitWorkerSSH, JoinWorker, WaitForSSH, ExecuteCommand, Signal,
      Killed
<1>2. ASSUME NEW g \in Cleaners, Cleanup(g) PROVE Goal
  BY <1>2 DEF Cleanup, CancelCtx, RangeNodes, ShutdownNode, RemoveNode, CleanupDone,
              Exit
<1>3. ASSUME NEW m \in Nodes, MkNodeDir(m) \/ CopyOpen(m) \/ CopyDone(m) \/ TapShow(m)
                              \/ TapAdd(m) \/ TapUp(m)
      PROVE  Goal
  BY <1>3 DEF MkNodeDir, CopyOpen, CopyDone, TapShow, TapAdd, TapUp
<1>4. ASSUME NEW m \in Nodes, StartVMM(m) \/ StartRefused(m) \/ StartReturns(m)
                              \/ AssignMachine(m) \/ SendErr(m)
      PROVE  Goal
  BY <1>4 DEF StartVMM, StartRefused, StartReturns, AssignMachine, SendErr
<1>5. CASE JustCleanUp \/ \E m \in Nodes : HostStep(m)
  BY <1>5 DEF JustCleanUp, HostStep, KillVM, ReapVM, GuestHalts, GuestWrites
<1> QED BY <1>1, <1>2, <1>3, <1>4, <1>5 DEF Next, NodeStep

LEMMA NextHasVM ==
  TypeOK /\ StartingHasVM /\ HasVM /\ [Next]_vars => HasVM'
<1> SUFFICES ASSUME TypeOK, StartingHasVM, HasVM, [Next]_vars,
                    NEW n \in Nodes, npc'[n] = "assign" \/ machine'[n]
             PROVE  vm'[n] # "none"
  BY DEF HasVM
<1>1. CASE Restart \/ UNCHANGED vars
  BY <1>1 DEF Restart, All, vars, memVars, hostVars, vmVars, HasVM
<1>2. CASE Next /\ ~Restart
  BY <1>2, VMNotForgotten, MachineFromStart DEF StartingHasVM, HasVM
<1> QED BY <1>1, <1>2

\* A run gets no orphan once it has begun, and starts nothing on a device an orphan
\* holds.
LEMMA NextUnshared ==
  TypeOK /\ Unshared /\ [Next]_vars => Unshared'
<1> SUFFICES ASSUME TypeOK, Unshared, [Next]_vars, NEW n \in Nodes, vm'[n] # "none"
             PROVE  orphan'[n] = "none"
  BY DEF Unshared
<1> USE DEF TypeOK, HostOK, hostVars, vmVars, diskVars, configFrame, loopFrame,
            nodeFrame, vmFrame, Unshared
<1>1. CASE MainStep \/ Configure \/ Signal \/ Killed
  BY <1>1
  DEF MainStep, MkBaseDir, BuildNodes, SpawnNodes, WaitNodes, JoinsDone,
      PrintClusterInfo, Configure, WaitMasterSSH, KubeadmInit, InstallCalico,
      GetJoinCommand, WaitWorkerSSH, JoinWorker, WaitForSSH, ExecuteCommand, Signal,
      Killed
<1>2. ASSUME NEW g \in Cleaners, Cleanup(g), ~RemoveNode(g) PROVE orphan'[n] = "none"
  BY <1>2 DEF Cleanup, CancelCtx, RangeNodes, ShutdownNode, CleanupDone, Exit, Running
<1>3. ASSUME NEW g \in Cleaners, RemoveNode(g) PROVE orphan'[n] = "none"
  <2>1. \/ UNCHANGED <<vm, orphan>>
        \/ /\ vm' = [vm EXCEPT ![cursor[g]] = IF @ = "linked" THEN "unlinked" ELSE @]
           /\ orphan' = [orphan EXCEPT ![cursor[g]] =
                           IF @ = "linked" THEN "unlinked" ELSE @]
    BY <1>3 DEF RemoveNode, RemoveAll
  <2>2. vm[n] # "none"
    BY <2>1
  <2>3. orphan[n] = "none"
    BY <2>2
  <2> QED BY <2>1, <2>3
<1>4. ASSUME NEW m \in Nodes, NodeStep(m), ~StartVMM(m) PROVE orphan'[n] = "none"
  BY <1>4
  DEF NodeStep, MkNodeDir, CopyOpen, CopyDone, TapShow, TapAdd, TapUp, StartRefused,
      StartReturns, AssignMachine, SendErr
<1>5. ASSUME NEW m \in Nodes, StartVMM(m) PROVE orphan'[n] = "none"
  BY <1>5 DEF StartVMM, CanStart
<1>6. ASSUME NEW m \in Nodes, HostStep(m) PROVE orphan'[n] = "none"
  BY <1>6 DEF HostStep, KillVM, ReapVM, GuestHalts, GuestWrites, Running
<1>7. CASE Restart
  BY <1>7 DEF Restart, All
<1>8. CASE JustCleanUp
  <2>1. UNCHANGED <<vm, orphan>> \/ orphan' = [m \in Nodes |-> "none"]
    BY <1>8 DEF JustCleanUp, All
  <2> QED BY <2>1
<1>9. CASE UNCHANGED vars
  BY <1>9 DEF vars
<1> QED BY <1>1, <1>2, <1>3, <1>4, <1>5, <1>6, <1>7, <1>8, <1>9 DEF Next

\* configureKubernetes goes on from a node only when its device is up, and nobody
\* touches a device any more.
LEMMA NextTapsUp ==
  TypeOK /\ ForkJoin /\ Joining /\ TapsUp /\ [Next]_vars => TapsUp'
<1> SUFFICES ASSUME TypeOK, ForkJoin, Joining, TapsUp, [Next]_vars PROVE TapsUp'
  OBVIOUS
<1> USE Numbers DEF Nodes, Master, Cleaners, At, Goto, Alive, TypeOK, ControlOK,
                    MasterReached, hostVars
<1>1. CASE MkBaseDir \/ BuildNodes \/ SpawnNodes \/ WaitNodes \/ WaitMasterSSH
           \/ KubeadmInit \/ InstallCalico
  BY <1>1
  DEF MkBaseDir, BuildNodes, SpawnNodes, WaitNodes, WaitMasterSSH, KubeadmInit,
      InstallCalico, WaitForSSH, ExecuteCommand, configFrame, Reachable, TapsUp
<1>2. CASE GetJoinCommand
  <2>1. target = target' /\ tap' = tap /\ exit' = exit /\ Alive /\ pc["main"] = "token"
        /\ pc'["main"] \in {"sshWorker", "cancel"}
    BY <1>2 DEF GetJoinCommand, configFrame
  <2>2. pc'["main"] = "sshWorker" => \A w \in 2..(target - 1) : tap[w] = "up"
    BY <1>2, <2>1 DEF Joining
  <2> QED BY <2>1, <2>2 DEF TapsUp
<1>3. CASE WaitWorkerSSH
  BY <1>3 DEF WaitWorkerSSH, WaitForSSH, configFrame, Reachable, TapsUp, MemoryOK
<1>4. CASE JoinWorker
  BY <1>4 DEF JoinWorker, ExecuteCommand, configFrame, TapsUp, MemoryOK
<1>5. CASE JoinsDone
  BY <1>5 DEF JoinsDone, configFrame, TapsUp, MemoryOK
<1>6. CASE PrintClusterInfo
  BY <1>6 DEF PrintClusterInfo, TapsUp
<1>7. CASE Signal \/ Killed
  BY <1>7 DEF Signal, Killed, memVars, TapsUp
<1>cleanup. ASSUME NEW g \in Cleaners, Cleanup(g) PROVE TapsUp'
  <2>1. /\ UNCHANGED <<target, tap>> /\ (Alive' => Alive)
        /\ pc' = pc \/ pc'["main"] = pc["main"] \/ pc'["main"] \in CleanupPcs
    BY <1>cleanup
    DEF Cleanup, CancelCtx, RangeNodes, ShutdownNode, RemoveNode, CleanupDone, Exit,
        loopFrame, memVars, CleanupPcs
  <2> QED BY <2>1 DEF TapsUp, CleanupPcs
<1>8. ASSUME NEW n \in Nodes, NodeStep(n), ~TapAdd(n), ~TapUp(n) PROVE TapsUp'
  <2>1. UNCHANGED <<pc, target, exit, tap>>
    BY <1>8
    DEF NodeStep, MkNodeDir, CopyOpen, CopyDone, TapShow, StartVMM, StartRefused,
        StartReturns, AssignMachine, SendErr, nodeFrame
  <2> QED BY <2>1 DEF TapsUp
<1>9. ASSUME NEW n \in Nodes, TapAdd(n) \/ TapUp(n) PROVE TapsUp'
  <2>1. pc' = pc /\ npc[n] \notin {"idle", "done"}
    BY <1>9 DEF TapAdd, TapUp, NodeAt, nodeFrame
  <2>2. pc["main"] = "wait"
    BY <2>1 DEF ForkJoin, Phase, NodeOutcome
  <2> QED BY <2>1, <2>2 DEF TapsUp
<1>10. ASSUME NEW n \in Nodes, HostStep(n) PROVE TapsUp'
  <2>1. UNCHANGED <<pc, target, exit, tap>>
    BY <1>10
    DEF HostStep, KillVM, ReapVM, GuestHalts, GuestWrites, vmFrame, memVars
  <2> QED BY <2>1 DEF TapsUp
<1>11. CASE Restart
  BY <1>11 DEF Restart, FreshPc, TapsUp
<1>12. CASE JustCleanUp
  BY <1>12 DEF JustCleanUp, TapsUp
<1>13. CASE UNCHANGED vars
  BY <1>13 DEF vars, memVars, TapsUp
<1> QED
  BY <1>1, <1>2, <1>3, <1>4, <1>5, <1>6, <1>7, <1>8, <1>9, <1>10, <1>11, <1>12, <1>13,
     <1>cleanup
  DEF Next, MainStep, Configure

\* A cluster that is announced has all its devices to itself and up, whatever earlier
\* runs have left on the host, those that were killed included (cluster.go:306-312,
\* 450-457).
THEOREM ReadyOwnsDevices == Spec => []ReadyOnOwnDevices
<1>1. Init => OwnDevices
  BY DEF Init, OwnDevices, StartingHasVM, HasVM, Unshared, TapsUp, MasterReached, All,
         FreshPc, Cleaners
<1>joining. Init => Joining
  BY DEF Init, Joining, WorkersJoinAfterMaster, JoinedBelow, FreshPc, All, Nodes,
         Cleaners
<1>2. TypeOK /\ ForkJoin /\ Joining /\ OwnDevices /\ [Next]_vars => OwnDevices'
  BY NextStartingHasVM, NextHasVM, NextUnshared, NextTapsUp DEF OwnDevices
<1>3. ForkJoin /\ OwnDevices => ReadyOnOwnDevices
  <2> SUFFICES ASSUME ForkJoin, OwnDevices, Alive, pc["main"] = "serving",
                      NEW n \in Nodes
               PROVE  tap[n] = "up" /\ orphan[n] = "none"
    BY DEF ReadyOnOwnDevices
  <2>1. machine[n]
    BY DEF ForkJoin, Phase, NodeOutcome, Configuring, Spawned
  <2> QED BY <2>1 DEF OwnDevices, HasVM, Unshared, TapsUp
<1> QED BY <1>1, <1>2, <1>3, <1>joining, AlwaysForkJoin, NextJoining, PTL DEF Spec

-----------------------------------------------------------------------------
(***************************************************************************)
(* Refinement                                                               *)
(***************************************************************************)

BarrierStep == [Barrier!Next]_(Barrier!vars)

\* A step after which the same goroutines have ended, and main has decided the
\* same, is a stuttering step of the fork-join.
LEMMA Stutter ==
  ASSUME \A n \in Nodes : npc'[n] = "done" <=> npc[n] = "done",
         errCh' = errCh, Decision' = Decision
  PROVE  BarrierStep
<1>1. \A n \in Nodes : Outcome(n)' = Outcome(n)
  BY DEF Outcome
<1>2. [n \in Nodes |-> Outcome(n)]' = [n \in Nodes |-> Outcome(n)]
  BY <1>1
<1> QED BY <1>2 DEF BarrierStep, Barrier!vars

\* main gives up while it configures.
LEMMA GivesUp ==
  ASSUME TypeOK, ForkJoin, Configuring, pc'["main"] = "cancel",
         UNCHANGED <<npc, errCh, nodes>>
  PROVE  BarrierStep
<1>1. Decision = "configure" /\ Decision' = "abort"
  BY DEF Decision, ForkJoin, Phase, Spawned, Configuring, ConfigurePcs,
         CleanupPcs
<1>2. [n \in Nodes |-> Outcome(n)]' = [n \in Nodes |-> Outcome(n)]
  BY DEF Outcome
<1> QED BY <1>1, <1>2 DEF BarrierStep, Barrier!Next, Barrier!Abort

\* The goroutine of node n ends while main waits.
LEMMA Ends ==
  ASSUME TypeOK, ForkJoin, NEW n \in Nodes,
         npc[n] \notin {"idle", "done"}, npc' = [npc EXCEPT ![n] = "done"],
         errCh' \in {errCh, errCh \cup {n}}, UNCHANGED <<pc, nodes>>
  PROVE  BarrierStep
<1> DEFINE outcome == [m \in Nodes |-> Outcome(m)]
<1>1. pc["main"] = "wait"
  BY DEF ForkJoin, Phase, NodeOutcome
<1>2. Decision = "none" /\ Decision' = "none"
  BY <1>1 DEF Decision, Configuring, ConfigurePcs, CleanupPcs
<1>3. Outcome(n) = "pending" /\ Outcome(n)' \in {"up", "failed"}
  BY DEF Outcome, TypeOK, ControlOK
<1>4. \A m \in Nodes \ {n} : Outcome(m)' = Outcome(m)
  BY DEF Outcome, TypeOK, ControlOK
<1>5. outcome' = [outcome EXCEPT ![n] = Outcome(n)']
  <2>1. \A m \in Nodes : outcome'[m] = Outcome(m)'
    OBVIOUS
  <2> QED BY <1>4, <2>1
<1>6. Barrier!NodeEnds(n)
  BY <1>2, <1>3, <1>5 DEF Barrier!NodeEnds
<1> QED BY <1>6 DEF BarrierStep, Barrier!Next

\* Before main has decided, it has decided nothing; while it configures, it may
\* still abort.
LEMMA StepsRefine ==
  TypeOK /\ ForkJoin /\ [Next]_vars => BarrierStep
<1> SUFFICES ASSUME TypeOK, ForkJoin, [Next]_vars PROVE BarrierStep
  OBVIOUS
<1> USE DEF Nodes, Master, Cleaners, All, At, NodeAt, Goto, NodeGoto, hostVars,
            diskVars, vmVars, TypeOK
<1>MkBaseDir. CASE MkBaseDir
  BY <1>MkBaseDir, Stutter
  DEF MkBaseDir, Decision, Configuring, ConfigurePcs, CleanupPcs, ForkJoin,
      Phase, NodeOutcome, Spawned, ControlOK
<1>BuildNodes. CASE BuildNodes
  BY <1>BuildNodes, Stutter
  DEF BuildNodes, Decision, Configuring, ConfigurePcs, CleanupPcs, ForkJoin,
      Phase, NodeOutcome, Spawned, ControlOK
<1>SpawnNodes. CASE SpawnNodes
  BY <1>SpawnNodes, Stutter
  DEF SpawnNodes, Decision, Configuring, ConfigurePcs, CleanupPcs, ForkJoin,
      Phase, NodeOutcome, Spawned, ControlOK
<1>WaitNodes. CASE WaitNodes
  <2> DEFINE outcome == [n \in Nodes |-> Outcome(n)]
  <2>1. Decision = "none" /\ UNCHANGED <<npc, errCh, nodes>>
    BY <1>WaitNodes DEF WaitNodes, Decision, Configuring, ConfigurePcs,
       CleanupPcs
  <2>2. outcome' = outcome
    BY <2>1 DEF Outcome
  <2>3. \A n \in Nodes : npc[n] = "done"
    BY <1>WaitNodes DEF WaitNodes
  <2>4. CASE errCh = {}
    <3>1. Decision' = "configure"
      BY <1>WaitNodes, <2>4
      DEF WaitNodes, Decision, Configuring, ConfigurePcs, ControlOK
    <3>2. \A n \in Nodes : outcome[n] = "up"
      BY <2>3, <2>4 DEF Outcome
    <3>3. Barrier!Configure
      BY <2>1, <2>2, <3>1, <3>2 DEF Barrier!Configure
    <3> QED BY <3>3 DEF BarrierStep, Barrier!Next
  <2>5. CASE errCh # {}
    <3>1. Decision' = "abort"
      BY <1>WaitNodes, <2>5
      DEF WaitNodes, Decision, Configuring, ConfigurePcs, CleanupPcs,
          ControlOK, ForkJoin, Phase, Spawned
    <3>2. \A n \in Nodes : outcome[n] # "pending"
      BY <2>3 DEF Outcome
    <3>3. \E n \in Nodes : outcome[n] = "failed"
      BY <2>3, <2>5 DEF Outcome, MemoryOK
    <3>4. Barrier!Abort
      BY <2>1, <2>2, <3>1, <3>2, <3>3 DEF Barrier!Abort
    <3> QED BY <3>4 DEF BarrierStep, Barrier!Next
  <2> QED BY <2>4, <2>5
<1>WaitMasterSSH. CASE WaitMasterSSH
  <2>1. Configuring /\ UNCHANGED <<npc, errCh, nodes>>
    BY <1>WaitMasterSSH
    DEF WaitMasterSSH, WaitForSSH, configFrame, Configuring, ConfigurePcs
  <2>2. CASE pc'["main"] = "cancel"
    BY <2>1, <2>2, GivesUp
  <2>3. CASE pc'["main"] # "cancel"
    <3>1. Configuring'
      BY <1>WaitMasterSSH, <2>3
      DEF WaitMasterSSH, WaitForSSH, configFrame, Configuring, ConfigurePcs,
          ControlOK
    <3> QED BY <2>1, <3>1, Stutter DEF Decision
  <2> QED BY <2>2, <2>3
<1>KubeadmInit. CASE KubeadmInit
  <2>1. Configuring /\ UNCHANGED <<npc, errCh, nodes>>
    BY <1>KubeadmInit
    DEF KubeadmInit, ExecuteCommand, configFrame, Configuring, ConfigurePcs
  <2>2. CASE pc'["main"] = "cancel"
    BY <2>1, <2>2, GivesUp
  <2>3. CASE pc'["main"] # "cancel"
    <3>1. Configuring'
      BY <1>KubeadmInit, <2>3
      DEF KubeadmInit, ExecuteCommand, configFrame, Configuring,
          ConfigurePcs, ControlOK
    <3> QED BY <2>1, <3>1, Stutter DEF Decision
  <2> QED BY <2>2, <2>3
<1>InstallCalico. CASE InstallCalico
  <2>1. Configuring /\ UNCHANGED <<npc, errCh, nodes>>
    BY <1>InstallCalico
    DEF InstallCalico, ExecuteCommand, configFrame, Configuring, ConfigurePcs
  <2>2. CASE pc'["main"] = "cancel"
    BY <2>1, <2>2, GivesUp
  <2>3. CASE pc'["main"] # "cancel"
    <3>1. Configuring'
      BY <1>InstallCalico, <2>3
      DEF InstallCalico, ExecuteCommand, configFrame, Configuring,
          ConfigurePcs, ControlOK
    <3> QED BY <2>1, <3>1, Stutter DEF Decision
  <2> QED BY <2>2, <2>3
<1>GetJoinCommand. CASE GetJoinCommand
  <2>1. Configuring /\ UNCHANGED <<npc, errCh, nodes>>
    BY <1>GetJoinCommand
    DEF GetJoinCommand, configFrame, Configuring, ConfigurePcs
  <2>2. CASE pc'["main"] = "cancel"
    BY <2>1, <2>2, GivesUp
  <2>3. CASE pc'["main"] # "cancel"
    <3>1. Configuring'
      BY <1>GetJoinCommand, <2>3
      DEF GetJoinCommand, configFrame, Configuring, ConfigurePcs, ControlOK
    <3> QED BY <2>1, <3>1, Stutter DEF Decision
  <2> QED BY <2>2, <2>3
<1>WaitWorkerSSH. CASE WaitWorkerSSH
  <2>1. Configuring /\ UNCHANGED <<npc, errCh, nodes>>
    BY <1>WaitWorkerSSH
    DEF WaitWorkerSSH, WaitForSSH, configFrame, Configuring, ConfigurePcs
  <2>2. CASE pc'["main"] = "cancel"
    BY <2>1, <2>2, GivesUp
  <2>3. CASE pc'["main"] # "cancel"
    <3>1. Configuring'
      BY <1>WaitWorkerSSH, <2>3
      DEF WaitWorkerSSH, WaitForSSH, configFrame, Configuring, ConfigurePcs,
          ControlOK
    <3> QED BY <2>1, <3>1, Stutter DEF Decision
  <2> QED BY <2>2, <2>3
<1>JoinWorker. CASE JoinWorker
  <2>1. Configuring /\ UNCHANGED <<npc, errCh, nodes>>
    BY <1>JoinWorker
    DEF JoinWorker, ExecuteCommand, configFrame, Configuring, ConfigurePcs
  <2>2. CASE pc'["main"] = "cancel"
    BY <2>1, <2>2, GivesUp
  <2>3. CASE pc'["main"] # "cancel"
    <3>1. Configuring'
      BY <1>JoinWorker, <2>3
      DEF JoinWorker, ExecuteCommand, configFrame, Configuring, ConfigurePcs,
          ControlOK
    <3> QED BY <2>1, <3>1, Stutter DEF Decision
  <2> QED BY <2>2, <2>3
<1>JoinsDone. CASE JoinsDone
  BY <1>JoinsDone, Stutter
  DEF JoinsDone, configFrame, Decision, Configuring, ConfigurePcs,
      CleanupPcs, ForkJoin, Phase, NodeOutcome, Spawned, ControlOK
<1>PrintClusterInfo. CASE PrintClusterInfo
  BY <1>PrintClusterInfo, Stutter
  DEF PrintClusterInfo, Decision, Configuring, ConfigurePcs, CleanupPcs,
      ForkJoin, Phase, NodeOutcome, Spawned, ControlOK
<1>Signal. CASE Signal
  BY <1>Signal, Stutter
  DEF Signal, Decision, Configuring, ConfigurePcs, CleanupPcs, ForkJoin,
      Phase, NodeOutcome, Spawned, ControlOK
<1>CancelCtx. ASSUME NEW g \in Cleaners, CancelCtx(g) PROVE BarrierStep
  BY <1>CancelCtx, Stutter
  DEF CancelCtx, Decision, Configuring, ConfigurePcs, CleanupPcs, ForkJoin,
      Phase, NodeOutcome, Spawned, ControlOK
<1>RangeNodes. ASSUME NEW g \in Cleaners, RangeNodes(g) PROVE BarrierStep
  BY <1>RangeNodes, Stutter
  DEF RangeNodes, Decision, Configuring, ConfigurePcs, CleanupPcs, ForkJoin,
      Phase, NodeOutcome, Spawned, ControlOK
<1>ShutdownNode. ASSUME NEW g \in Cleaners, ShutdownNode(g) PROVE BarrierStep
  BY <1>ShutdownNode, Stutter
  DEF ShutdownNode, loopFrame, Running, Decision, Configuring, ConfigurePcs,
      CleanupPcs, ForkJoin, Phase, NodeOutcome, Spawned, ControlOK
<1>RemoveNode. ASSUME NEW g \in Cleaners, RemoveNode(g) PROVE BarrierStep
  BY <1>RemoveNode, Stutter
  DEF RemoveNode, RemoveAll, loopFrame, Decision, Configuring, ConfigurePcs,
      CleanupPcs, ForkJoin, Phase, NodeOutcome, Spawned, ControlOK
<1>CleanupDone. ASSUME NEW g \in Cleaners, CleanupDone(g) PROVE BarrierStep
  BY <1>CleanupDone, Stutter
  DEF CleanupDone, loopFrame, Decision, Configuring, ConfigurePcs,
      CleanupPcs, ForkJoin, Phase, NodeOutcome, Spawned, ControlOK
<1>MkNodeDir. ASSUME NEW n \in Nodes, MkNodeDir(n) PROVE BarrierStep
  BY <1>MkNodeDir, Stutter
  DEF MkNodeDir, nodeFrame, Decision, Configuring, ConfigurePcs, CleanupPcs,
      ForkJoin, Phase, NodeOutcome, Spawned, ControlOK
<1>CopyOpen. ASSUME NEW n \in Nodes, CopyOpen(n) PROVE BarrierStep
  BY <1>CopyOpen, Stutter
  DEF CopyOpen, nodeFrame, Decision, Configuring, ConfigurePcs, CleanupPcs,
      ForkJoin, Phase, NodeOutcome, Spawned, ControlOK
<1>CopyDone. ASSUME NEW n \in Nodes, CopyDone(n) PROVE BarrierStep
  BY <1>CopyDone, Stutter
  DEF CopyDone, nodeFrame, Decision, Configuring, ConfigurePcs, CleanupPcs,
      ForkJoin, Phase, NodeOutcome, Spawned, ControlOK
<1>TapShow. ASSUME NEW n \in Nodes, TapShow(n) PROVE BarrierStep
  BY <1>TapShow, Stutter
  DEF TapShow, nodeFrame, Decision, Configuring, ConfigurePcs, CleanupPcs,
      ForkJoin, Phase, NodeOutcome, Spawned, ControlOK
<1>TapAdd. ASSUME NEW n \in Nodes, TapAdd(n) PROVE BarrierStep
  BY <1>TapAdd, Stutter
  DEF TapAdd, nodeFrame, Decision, Configuring, ConfigurePcs, CleanupPcs,
      ForkJoin, Phase, NodeOutcome, Spawned, ControlOK
<1>TapUp. ASSUME NEW n \in Nodes, TapUp(n) PROVE BarrierStep
  BY <1>TapUp, Stutter
  DEF TapUp, nodeFrame, Decision, Configuring, ConfigurePcs, CleanupPcs,
      ForkJoin, Phase, NodeOutcome, Spawned, ControlOK
<1>StartVMM. ASSUME NEW n \in Nodes, StartVMM(n) PROVE BarrierStep
  BY <1>StartVMM, Stutter
  DEF StartVMM, nodeFrame, Decision, Configuring, ConfigurePcs, CleanupPcs,
      ForkJoin, Phase, NodeOutcome, Spawned, ControlOK
<1>StartRefused. ASSUME NEW n \in Nodes, StartRefused(n) PROVE BarrierStep
  BY <1>StartRefused, Stutter
  DEF StartRefused, nodeFrame, Decision, Configuring, ConfigurePcs,
      CleanupPcs, ForkJoin, Phase, NodeOutcome, Spawned, ControlOK
<1>StartReturns. ASSUME NEW n \in Nodes, StartReturns(n) PROVE BarrierStep
  BY <1>StartReturns, Stutter
  DEF StartReturns, nodeFrame, Decision, Configuring, ConfigurePcs,
      CleanupPcs, ForkJoin, Phase, NodeOutcome, Spawned, ControlOK
<1>AssignMachine. ASSUME NEW n \in Nodes, AssignMachine(n) PROVE BarrierStep
  BY <1>AssignMachine, Ends DEF AssignMachine, nodeFrame
<1>SendErr. ASSUME NEW n \in Nodes, SendErr(n) PROVE BarrierStep
  BY <1>SendErr, Ends DEF SendErr
<1>Restart. CASE Restart
  <2>1. [n \in Nodes |-> Outcome(n)]' = [n \in Nodes |-> "pending"]
    BY <1>Restart DEF Restart, Outcome
  <2>2. Decision' = "none"
    BY <1>Restart
    DEF Restart, FreshPc, Decision, Configuring, ConfigurePcs, CleanupPcs
  <2> QED
    BY <2>1, <2>2
    DEF BarrierStep, Barrier!Next, Barrier!Restart, Barrier!AllPending
<1>others. CASE
    \/ JustCleanUp \/ Killed
    \/ \E g \in Cleaners : Exit(g)
    \/ \E n \in Nodes : KillVM(n) \/ ReapVM(n) \/ GuestHalts(n)
         \/ GuestWrites(n)
  <2>1. UNCHANGED <<pc, npc, nodes, errCh>>
    BY <1>others
    DEF Exit, Killed, KillVM, ReapVM, GuestHalts, GuestWrites, JustCleanUp, memVars,
        vmFrame, Running
  <2> QED BY <2>1, Stutter DEF Decision, Configuring
<1>stutter. CASE UNCHANGED vars
  <2>1. UNCHANGED <<pc, npc, nodes, errCh>>
    BY <1>stutter DEF vars, memVars
  <2> QED BY <2>1, Stutter DEF Decision, Configuring
<1> QED
  BY <1>MkBaseDir, <1>BuildNodes, <1>SpawnNodes, <1>WaitNodes,
     <1>WaitMasterSSH, <1>KubeadmInit, <1>InstallCalico, <1>GetJoinCommand,
     <1>WaitWorkerSSH, <1>JoinWorker, <1>JoinsDone, <1>PrintClusterInfo,
     <1>Signal, <1>CancelCtx, <1>RangeNodes, <1>ShutdownNode, <1>RemoveNode,
     <1>CleanupDone, <1>MkNodeDir, <1>CopyOpen, <1>CopyDone, <1>TapShow,
     <1>TapAdd, <1>TapUp, <1>StartVMM, <1>StartRefused, <1>StartReturns,
     <1>AssignMachine, <1>SendErr, <1>Restart, <1>others, <1>stutter
  DEF Next, MainStep, Configure, Cleanup, NodeStep, HostStep

\* Provision implements the fork-join of ProvisionBarrier.
THEOREM ProvisionIsBarrier == Spec => ImplementsBarrier
<1>1. Init => Barrier!Init
  BY DEF Init, Barrier!Init, Barrier!AllPending, Outcome, Decision, Configuring,
         ConfigurePcs, CleanupPcs, FreshPc, All, Cleaners
<1>2. TypeOK /\ ForkJoin /\ [Next]_vars => [Barrier!Next]_(Barrier!vars)
  BY StepsRefine DEF BarrierStep
<1> QED
  BY <1>1, <1>2, AlwaysForkJoin, PTL DEF Spec, ImplementsBarrier, Barrier!Spec

==============================================================================
