------------------------------- MODULE Cluster -------------------------------
(***************************************************************************)
(* One operating-system process of the cluster launcher: main.go and       *)
(* cluster/cluster.go.  Three kinds of goroutine run in it:                *)
(*                                                                         *)
(*   "main"  main -> Provision -> configureKubernetes -> select {}         *)
(*   "sig"   the signal handler of main.go: Cleanup, then os.Exit          *)
(*   a node goroutine per element of c.Nodes, running provisionNode        *)
(*                                                                         *)
(* The host (directories, root images, API sockets, TAP devices, firecracker*)
(* processes) outlives the process, and the launcher may be started again. *)
(* The firecracker SDK, firecracker itself, `ip' and the guests are external*)
(* and modelled by what the launcher relies on.                            *)
(***************************************************************************)
EXTENDS Integers, FiniteSets

CONSTANTS
  NodeCount,        \* ClusterConfig.NodeCount; Provision panics below 1
  Persistent,       \* ClusterConfig.Persistent
  MaxRuns,          \* how often the launcher is started on this host
  Signals,          \* whether SIGINT or SIGTERM may arrive
  Kills,            \* whether SIGKILL or the OOM killer may end the launcher
  EnvFaults,        \* whether host commands and guests may fail
  SshPortResolves   \* whether the host's ssh accepts the `-p password' that
                    \* getJoinCommand passes; a stock host's does not

ASSUME ConstantsOK ==
  /\ NodeCount \in Nat \ {0}
  /\ MaxRuns \in Nat \ {0}
  /\ {Persistent, Signals, Kills, EnvFaults, SshPortResolves} \subseteq BOOLEAN

Nodes    == 1..NodeCount
Master   == 1
Cleaners == {"main", "sig"}    \* the goroutines that may run Cleanup

VARIABLES
  \* the launcher's memory, gone when it exits
  pc,           \* control point of "main" and of "sig"
  npc,          \* control point of each node goroutine
  nodes,        \* c.Nodes: nil, half written, or set
  machine,      \* node.Machine # nil
  errCh,        \* the nodes whose error is buffered in errCh
  ctxDone,      \* c.ctx is cancelled
  cursor,       \* loop position of each Cleanup
  target,       \* the worker that configureKubernetes is at
  joinCommand,  \* c.joinCommand # ""
  kube,         \* what kubeadm has done in the guests of this run
  \* the host
  exit,         \* "none" while the launcher runs, else what ended it
  run,          \* which start of the launcher this is
  dir,          \* node.RootPath exists
  img,          \* RootPath/root.img
  sock,         \* RootPath/firecracker.sock exists
  tap,          \* the device tap-<node.ID>
  vm,           \* this run's firecracker process of each node
  orphan,       \* an earlier run's firecracker process that is still alive
  logged        \* nodes whose directory removal failed and was logged

memVars  == <<pc, npc, nodes, machine, errCh, ctxDone, cursor, target,
              joinCommand, kube>>
diskVars == <<dir, img, sock>>
vmVars   == <<vm, orphan>>
hostVars == <<exit, run, diskVars, tap, vmVars, logged>>
vars     == <<memVars, hostVars>>

ProvisionPcs == {"mkBase", "build", "building", "wait"}
ConfigurePcs == {"sshMaster", "init", "calico", "token", "sshWorker", "join"}
CleanupPcs   == {"cancel", "range", "shutdown", "remove", "exit"}
MainPcs == ProvisionPcs \cup ConfigurePcs \cup {"print", "serving"}
                        \cup CleanupPcs
SigPcs  == {"idle"} \cup CleanupPcs
NodePcs == {"idle", "mkdir", "copy", "copying", "tapShow", "tapAdd", "tapUp",
            "start", "starting", "assign", "fail", "done"}

Alive      == exit = "none"
Running(n) == vm[n] \in {"linked", "unlinked"}

ControlOK ==
  /\ pc \in [Cleaners -> MainPcs \cup SigPcs]
  /\ pc["main"] \in MainPcs /\ pc["sig"] \in SigPcs
  /\ npc \in [Nodes -> NodePcs]
  /\ exit \in {"none", "main", "sig", "panic", "killed"}
  /\ run \in 1..MaxRuns

MemoryOK ==
  /\ nodes \in {"nil", "torn", "set"}
  /\ machine \in [Nodes -> BOOLEAN]
  /\ errCh \subseteq Nodes
  /\ ctxDone \in BOOLEAN
  /\ cursor \in [Cleaners -> 1..(NodeCount + 1)]
  /\ target \in 2..(NodeCount + 1)
  /\ joinCommand \in BOOLEAN
  /\ kube \in [Nodes -> {"none", "init", "cni", "joined"}]
  /\ logged \subseteq Nodes

HostOK ==
  /\ dir \in [Nodes -> BOOLEAN]
  /\ img \in [Nodes -> {"none", "partial", "base", "used"}]
  /\ sock \in [Nodes -> BOOLEAN]
  /\ tap \in [Nodes -> {"absent", "down", "up"}]
  /\ vm \in [Nodes -> {"none", "linked", "unlinked", "halted", "killed"}]
  /\ orphan \in [Nodes -> {"none", "linked", "unlinked"}]

\* Inside its loop, each range loop is at an element.
LoopsOK ==
  /\ pc["main"] = "join" => target \in Nodes
  /\ \A g \in Cleaners : pc[g] = "remove" => cursor[g] \in Nodes

TypeOK == ControlOK /\ MemoryOK /\ HostOK /\ LoopsOK

-----------------------------------------------------------------------------
All(v) == [n \in Nodes |-> v]

\* NewCluster has run, main is about to enter Provision, and the signal
\* goroutine waits on sigChan.
FreshPc == [g \in Cleaners |-> IF g = "main" THEN "mkBase" ELSE "idle"]

Init ==
  /\ pc = FreshPc /\ npc = All("idle")
  /\ nodes = "nil" /\ machine = All(FALSE)
  /\ errCh = {} /\ ctxDone = FALSE
  /\ cursor = [g \in Cleaners |-> 1] /\ target = 2
  /\ joinCommand = FALSE /\ kube = All("none")
  /\ exit = "none" /\ run = 1
  /\ dir = All(FALSE) /\ img = All("none") /\ sock = All(FALSE)
  /\ tap = All("absent") /\ vm = All("none") /\ orphan = All("none")
  /\ logged = {}

\* Control of a goroutine; nothing moves once the process has ended.
At(g, l)       == Alive /\ pc[g] = l
NodeAt(n, l)   == Alive /\ npc[n] = l
Goto(g, l)     == pc' = [pc EXCEPT ![g] = l]
NodeGoto(n, l) == npc' = [npc EXCEPT ![n] = l]

-----------------------------------------------------------------------------
\* Provision, up to the goroutines.

\* os.MkdirAll of the cluster directory; an error is returned to main, which
\* calls log.Fatalf without any Cleanup.
MkBaseDir ==
  /\ At("main", "mkBase")
  /\ \/ Goto("main", "build")
     \/ EnvFaults /\ Goto("main", "exit")
  /\ UNCHANGED <<npc, nodes, machine, errCh, ctxDone, cursor, target,
                 joinCommand, kube, hostVars>>

\* c.Nodes = append(...): three words stored one after the other while the
\* signal goroutine may read them without a lock.
BuildNodes ==
  /\ At("main", "build")
  /\ nodes' = "torn"
  /\ Goto("main", "building")
  /\ UNCHANGED <<npc, machine, errCh, ctxDone, cursor, target, joinCommand,
                 kube, hostVars>>

\* The slice is complete; one goroutine per node is started.
SpawnNodes ==
  /\ At("main", "building")
  /\ nodes' = "set"
  /\ npc' = [n \in Nodes |-> "mkdir"]
  /\ Goto("main", "wait")
  /\ UNCHANGED <<machine, errCh, ctxDone, cursor, target, joinCommand, kube,
                 hostVars>>

-----------------------------------------------------------------------------
\* provisionNode(n), in its own goroutine.

nodeFrame == <<pc, nodes, errCh, ctxDone, cursor, target, joinCommand, kube,
               exit, run, logged>>

\* os.MkdirAll(node.RootPath)
MkNodeDir(n) ==
  /\ NodeAt(n, "mkdir")
  /\ \/ dir' = [dir EXCEPT ![n] = TRUE] /\ NodeGoto(n, "copy")
     \/ EnvFaults /\ NodeGoto(n, "fail") /\ UNCHANGED dir
  /\ UNCHANGED <<nodeFrame, machine, img, sock, tap, vmVars>>

\* copyFile, first half: os.Create truncates whatever root.img there was, and
\* fails when the directory has been removed under it.
CopyOpen(n) ==
  /\ NodeAt(n, "copy")
  /\ \/ /\ dir[n]
        /\ img' = [img EXCEPT ![n] = "partial"]
        /\ NodeGoto(n, "copying")
     \/ /\ EnvFaults \/ ~dir[n]
        /\ NodeGoto(n, "fail") /\ UNCHANGED img
  /\ UNCHANGED <<nodeFrame, machine, dir, sock, tap, vmVars>>

\* Variant: copyFile drops the error of io.Copy.
CopyDone_IgnoreError(n) ==
  /\ NodeAt(n, "copying")
  /\ \/ img' = [img EXCEPT ![n] = IF @ = "partial" THEN "base" ELSE @]
     \/ EnvFaults /\ UNCHANGED img
  /\ NodeGoto(n, "tapShow")
  /\ UNCHANGED <<nodeFrame, machine, dir, sock, tap, vmVars>>

\* copyFile, second half: io.Copy and Sync.  A file unlinked meanwhile is
\* copied all the same, and no path leads to it.
CopyDone(n) ==
  /\ NodeAt(n, "copying")
  /\ \/ /\ img' = [img EXCEPT ![n] = IF @ = "partial" THEN "base" ELSE @]
        /\ NodeGoto(n, "tapShow")
     \/ EnvFaults /\ NodeGoto(n, "fail") /\ UNCHANGED img
  /\ UNCHANGED <<nodeFrame, machine, dir, sock, tap, vmVars>>

\* CreateTapDevice: `ip link show' decides whether anything is done at all.
TapShow(n) ==
  /\ NodeAt(n, "tapShow")
  /\ NodeGoto(n, IF tap[n] = "absent" THEN "tapAdd" ELSE "start")
  /\ UNCHANGED <<nodeFrame, machine, diskVars, tap, vmVars>>

\* CreateTapDevice: `ip tuntap add'.
TapAdd(n) ==
  /\ NodeAt(n, "tapAdd")
  /\ \/ tap' = [tap EXCEPT ![n] = "down"] /\ NodeGoto(n, "tapUp")
     \/ EnvFaults /\ NodeGoto(n, "fail") /\ UNCHANGED tap
  /\ UNCHANGED <<nodeFrame, machine, diskVars, vmVars>>

\* Variant: CreateTapDevice never brings its device up.
TapUp_Forgotten(n) ==
  /\ NodeAt(n, "tapUp")
  /\ NodeGoto(n, "start")
  /\ UNCHANGED <<nodeFrame, machine, diskVars, tap, vmVars>>

\* CreateTapDevice: `ip link set up'; on an error the device stays, down.
TapUp(n) ==
  /\ NodeAt(n, "tapUp")
  /\ \/ tap' = [tap EXCEPT ![n] = "up"] /\ NodeGoto(n, "start")
     \/ EnvFaults /\ NodeGoto(n, "fail") /\ UNCHANGED tap
  /\ UNCHANGED <<nodeFrame, machine, diskVars, vmVars>>

\* External: firecracker starts only while its context is live, on a root
\* image that exists, an API socket path that is free and a TAP device that no
\* other firecracker holds.
CanStart(n) ==
  /\ ~ctxDone
  /\ img[n] # "none"
  /\ ~sock[n]
  /\ orphan[n] = "none"

\* NewMachine and the first half of m.Start: the process is up and serves its
\* API socket.
StartVMM(n) ==
  /\ NodeAt(n, "start")
  /\ CanStart(n)
  /\ vm' = [vm EXCEPT ![n] = "linked"]
  /\ sock' = [sock EXCEPT ![n] = TRUE]
  /\ NodeGoto(n, "starting")
  /\ UNCHANGED <<nodeFrame, machine, dir, img, tap, orphan>>

\* NewMachine or m.Start returns an error before there is a process.
StartRefused(n) ==
  /\ NodeAt(n, "start")
  /\ EnvFaults \/ ~CanStart(n)
  /\ NodeGoto(n, "fail")
  /\ UNCHANGED <<nodeFrame, machine, diskVars, tap, vmVars>>

\* m.Start returns: nil, or an error that may leave the process running and
\* its socket file there.
StartReturns(n) ==
  /\ NodeAt(n, "starting")
  /\ \/ Running(n) /\ NodeGoto(n, "assign") /\ UNCHANGED sock
     \/ /\ EnvFaults \/ ctxDone \/ ~Running(n)
        /\ \E s \in {sock[n], FALSE} : sock' = [sock EXCEPT ![n] = s]
        /\ NodeGoto(n, "fail")
  /\ UNCHANGED <<nodeFrame, machine, dir, img, tap, vmVars>>

\* Variant: provisionNode forgets the machine it started.
AssignMachine_Dropped(n) ==
  /\ NodeAt(n, "assign")
  /\ NodeGoto(n, "done")
  /\ UNCHANGED <<nodeFrame, machine, diskVars, tap, vmVars>>

\* node.Machine = m, return nil, wg.Done.
AssignMachine(n) ==
  /\ NodeAt(n, "assign")
  /\ machine' = [machine EXCEPT ![n] = TRUE]
  /\ NodeGoto(n, "done")
  /\ UNCHANGED <<nodeFrame, diskVars, tap, vmVars>>

\* Variant: a channel for one error.
ErrChCapacity_One == 1

\* errCh := make(chan error, len(c.Nodes))
ErrChCapacity == NodeCount

\* errCh <- err, which blocks while the buffer is full; then wg.Done.
SendErr(n) ==
  /\ NodeAt(n, "fail")
  /\ Cardinality(errCh) < ErrChCapacity
  /\ errCh' = errCh \cup {n}
  /\ NodeGoto(n, "done")
  /\ UNCHANGED <<pc, nodes, machine, ctxDone, cursor, target, joinCommand,
                 kube, hostVars>>

NodeStep(n) ==
  \/ MkNodeDir(n) \/ CopyOpen(n) \/ CopyDone(n)
  \/ TapShow(n) \/ TapAdd(n) \/ TapUp(n)
  \/ StartVMM(n) \/ StartRefused(n) \/ StartReturns(n)
  \/ AssignMachine(n) \/ SendErr(n)

-----------------------------------------------------------------------------
\* Provision, after the goroutines, and configureKubernetes.

\* Variant: no wg.Wait.
WaitNodes_NoWait ==
  /\ At("main", "wait")
  /\ Goto("main", IF errCh = {} THEN "sshMaster" ELSE "cancel")
  /\ UNCHANGED <<npc, nodes, machine, errCh, ctxDone, cursor, target,
                 joinCommand, kube, hostVars>>

\* wg.Wait, close(errCh), and the first buffered error, if any, ends the
\* attempt and is returned; the others are dropped, and nobody learns of them.
WaitNodes ==
  /\ At("main", "wait")
  /\ \A n \in Nodes : npc[n] = "done"
  /\ Goto("main", IF errCh = {} THEN "sshMaster" ELSE "cancel")
  /\ UNCHANGED <<npc, nodes, machine, errCh, ctxDone, cursor, target,
                 joinCommand, kube, hostVars>>

\* External: ssh reaches a guest while its VM runs on a device that is up.
Reachable(n) == Running(n) /\ tap[n] = "up"

configFrame == <<npc, nodes, machine, errCh, ctxDone, cursor, hostVars>>

\* waitForSSH(n), which polls checkSSH: it gives up after two minutes.
WaitForSSH(from, n, to) ==
  /\ At("main", from)
  /\ \/ Reachable(n) /\ Goto("main", to)
     \/ (EnvFaults \/ ~Reachable(n)) /\ Goto("main", "cancel")
  /\ UNCHANGED <<configFrame, target, joinCommand, kube>>

\* executeCommand of a command on n whose success leaves kube[n] = result.  A
\* command whose session breaks may have taken effect.
ExecuteCommand(from, n, result, to) ==
  /\ At("main", from)
  /\ \/ /\ Reachable(n)
        /\ kube' = [kube EXCEPT ![n] = result]
        /\ Goto("main", to)
     \/ /\ EnvFaults \/ ~Reachable(n)
        /\ \E k \in {kube[n], result} : kube' = [kube EXCEPT ![n] = k]
        /\ Goto("main", "cancel")

WaitMasterSSH == WaitForSSH("sshMaster", Master, "init")

\* Variant: the pod network is left out.
KubeadmInit_NoCalico ==
  /\ ExecuteCommand("init", Master, "init", "token")
  /\ UNCHANGED <<configFrame, target, joinCommand>>

KubeadmInit ==
  /\ ExecuteCommand("init", Master, "init", "calico")
  /\ UNCHANGED <<configFrame, target, joinCommand>>

InstallCalico ==
  /\ ExecuteCommand("calico", Master, "cni", "token")
  /\ UNCHANGED <<configFrame, target, joinCommand>>

\* getJoinCommand passes `-p password' to ssh: the port has to resolve.
GetJoinCommand ==
  /\ At("main", "token")
  /\ \/ /\ SshPortResolves /\ Reachable(Master)
        /\ joinCommand' = TRUE
        /\ Goto("main", "sshWorker")
     \/ /\ EnvFaults \/ ~(SshPortResolves /\ Reachable(Master))
        /\ Goto("main", "cancel")
        /\ UNCHANGED joinCommand
  /\ UNCHANGED <<configFrame, target, kube>>

\* joinWorker(target): wait for its sshd, then run the join command there.
WaitWorkerSSH ==
  /\ target \in Nodes
  /\ WaitForSSH("sshWorker", target, "join")

JoinWorker ==
  /\ ExecuteCommand("join", target, "joined", "sshWorker")
  /\ target' = IF pc'["main"] = "sshWorker" THEN target + 1 ELSE target
  /\ UNCHANGED <<configFrame, joinCommand>>

\* Variant: the join loop ends before the last worker.
JoinsDone_OneShort ==
  /\ At("main", "sshWorker")
  /\ target = NodeCount
  /\ Goto("main", "print")
  /\ UNCHANGED <<configFrame, target, joinCommand, kube>>

\* The loop over c.Nodes[1:] ends; Provision returns nil to main.
JoinsDone ==
  /\ At("main", "sshWorker")
  /\ target = NodeCount + 1
  /\ Goto("main", "print")
  /\ UNCHANGED <<configFrame, target, joinCommand, kube>>

\* printClusterInfo dereferences every node.Machine, announces the cluster,
\* and main blocks in select {}.
PrintClusterInfo ==
  /\ At("main", "print")
  /\ Goto("main", "serving")
  /\ exit' = IF \A n \in Nodes : machine[n] THEN "none" ELSE "panic"
  /\ UNCHANGED <<npc, nodes, machine, errCh, ctxDone, cursor, target,
                 joinCommand, kube, run, diskVars, tap, vmVars, logged>>

Configure ==
  \/ WaitMasterSSH \/ KubeadmInit \/ InstallCalico \/ GetJoinCommand
  \/ WaitWorkerSSH \/ JoinWorker

-----------------------------------------------------------------------------
\* Cleanup, run by goroutine g, and the end of the process.

\* SIGINT or SIGTERM wakes the signal goroutine; later ones change nothing.
Signal ==
  /\ Signals
  /\ At("sig", "idle")
  /\ Goto("sig", "cancel")
  /\ UNCHANGED <<npc, nodes, machine, errCh, ctxDone, cursor, target,
                 joinCommand, kube, hostVars>>

\* c.cancelFunc()
CancelCtx(g) ==
  /\ At(g, "cancel")
  /\ ctxDone' = TRUE
  /\ Goto(g, "range")
  /\ UNCHANGED <<npc, nodes, machine, errCh, cursor, target, joinCommand, kube,
                 hostVars>>

\* Variant: Cleanup's loop starts one index too low.
RangeNodes_ZeroBased(g) ==
  /\ At(g, "range")
  /\ nodes = "set" /\ Goto(g, "shutdown")
  /\ cursor' = [cursor EXCEPT ![g] = 0]
  /\ UNCHANGED <<npc, nodes, machine, errCh, ctxDone, target, joinCommand,
                 kube, hostVars>>

\* `range c.Nodes' reads the slice once.  A half-written one may have its
\* length before its elements: the first dereference panics.
RangeNodes(g) ==
  /\ At(g, "range")
  /\ \/ nodes = "set" /\ Goto(g, "shutdown") /\ UNCHANGED exit
     \/ nodes # "set" /\ Goto(g, "exit") /\ UNCHANGED exit
     \/ nodes = "torn" /\ exit' = "panic" /\ UNCHANGED pc
  /\ cursor' = [cursor EXCEPT ![g] = 1]
  /\ UNCHANGED <<npc, nodes, machine, errCh, ctxDone, target, joinCommand,
                 kube, run, diskVars, tap, vmVars, logged>>


loopFrame == <<npc, nodes, machine, errCh, ctxDone, target, joinCommand, kube,
               exit, run, tap>>

\* node.Machine.Shutdown(c.ctx), when this goroutine sees a machine: a request
\* on a cancelled context is not sent, and the error is logged.
ShutdownNode(g) ==
  /\ At(g, "shutdown")
  /\ cursor[g] \in Nodes
  /\ LET n == cursor[g] IN
       vm' = IF machine[n] /\ ~ctxDone /\ Running(n)
             THEN [vm EXCEPT ![n] = "halted"] ELSE vm
  /\ Goto(g, "remove")
  /\ UNCHANGED <<loopFrame, cursor, diskVars, orphan, logged>>

\* os.RemoveAll(node.RootPath).  It fails on a host error, or when
\* provisionNode adds a file under it; the files may be gone by then.  A
\* firecracker that has them open keeps them, out of any path's reach.
RemoveAll(n) ==
  \E dirGone, filesGone \in BOOLEAN :
    /\ dirGone => filesGone
    /\ ~dirGone => dir[n] /\ (EnvFaults \/ npc[n] \notin {"idle", "done"})
    /\ dir' = [dir EXCEPT ![n] = @ /\ ~dirGone]
    /\ logged' = IF dirGone THEN logged ELSE logged \cup {n}
    /\ IF filesGone
       THEN /\ img' = [img EXCEPT ![n] = "none"]
            /\ sock' = [sock EXCEPT ![n] = FALSE]
            /\ vm' = [vm EXCEPT ![n] =
                        IF @ = "linked" THEN "unlinked" ELSE @]
            /\ orphan' = [orphan EXCEPT ![n] =
                            IF @ = "linked" THEN "unlinked" ELSE @]
       ELSE UNCHANGED <<img, sock, vmVars>>

\* Variant: only the directories of nodes with a machine go.
RemoveNode_WithMachine(g) ==
  /\ At(g, "remove")
  /\ IF machine[cursor[g]] /\ ~Persistent
     THEN RemoveAll(cursor[g])
     ELSE UNCHANGED <<diskVars, vmVars, logged>>
  /\ cursor' = [cursor EXCEPT ![g] = @ + 1]
  /\ Goto(g, "shutdown")
  /\ UNCHANGED loopFrame

\* Variant: a directory is removed again until it is gone.
RemoveNode_Retry(g) ==
  /\ At(g, "remove")
  /\ IF Persistent THEN UNCHANGED <<diskVars, vmVars, logged>>
                   ELSE RemoveAll(cursor[g])
  /\ cursor' = [cursor EXCEPT ![g] = IF dir'[@] THEN @ ELSE @ + 1]
  /\ Goto(g, "shutdown")
  /\ UNCHANGED loopFrame

\* The rest of the iteration: every node's directory goes, unless the cluster
\* is persistent.
RemoveNode(g) ==
  /\ At(g, "remove")
  /\ IF Persistent THEN UNCHANGED <<diskVars, vmVars, logged>>
                   ELSE RemoveAll(cursor[g])
  /\ cursor' = [cursor EXCEPT ![g] = @ + 1]
  /\ Goto(g, "shutdown")
  /\ UNCHANGED loopFrame

CleanupDone(g) ==
  /\ At(g, "shutdown")
  /\ cursor[g] = NodeCount + 1
  /\ Goto(g, "exit")
  /\ UNCHANGED <<loopFrame, cursor, diskVars, vmVars, logged>>

\* log.Fatalf in main, os.Exit(0) in the signal goroutine.
Exit(g) ==
  /\ At(g, "exit")
  /\ exit' = g
  /\ UNCHANGED <<memVars, run, diskVars, tap, vmVars, logged>>

Cleanup(g) ==
  \/ CancelCtx(g) \/ RangeNodes(g) \/ ShutdownNode(g) \/ RemoveNode(g)
  \/ CleanupDone(g) \/ Exit(g)

-----------------------------------------------------------------------------
\* Firecracker, the guests, the system and the user.

vmFrame == <<memVars, exit, run, dir, tap, logged>>

\* External: the SDK kills the process once its context is done, and forwards
\* the launcher's signals to it: in its own time, and only while the launcher
\* lives.
KillVM(n) ==
  /\ Alive /\ Running(n)
  /\ ctxDone \/ pc["sig"] # "idle"
  /\ vm' = [vm EXCEPT ![n] = "killed"]
  /\ UNCHANGED <<vmFrame, img, sock, orphan>>

\* External: the SDK removes the socket of a process that has ended.
ReapVM(n) ==
  /\ Alive /\ vm[n] \in {"halted", "killed"} /\ sock[n]
  /\ sock' = [sock EXCEPT ![n] = FALSE]
  /\ UNCHANGED <<vmFrame, img, vmVars>>

\* External: a guest or its firecracker dies by itself.  Nobody removes the
\* socket file of one that an earlier run has left.
GuestHalts(n) ==
  /\ Alive /\ EnvFaults
  /\ \/ Running(n) /\ vm' = [vm EXCEPT ![n] = "halted"] /\ UNCHANGED orphan
     \/ orphan[n] # "none" /\ orphan' = [orphan EXCEPT ![n] = "none"]
        /\ UNCHANGED vm
  /\ UNCHANGED <<vmFrame, img, sock>>

\* External: a guest stores something on its root drive.
GuestWrites(n) ==
  /\ Alive /\ img[n] = "base"
  /\ "linked" \in {vm[n], orphan[n]}
  /\ img' = [img EXCEPT ![n] = "used"]
  /\ UNCHANGED <<vmFrame, sock, vmVars>>

\* External: SIGKILL or the OOM killer, at any point.  Nothing is cleaned up.
Killed ==
  /\ Alive /\ Kills
  /\ exit' = "killed"
  /\ UNCHANGED <<memVars, run, diskVars, tap, vmVars, logged>>

\* The user starts the launcher again, with the same flags.
Restart ==
  /\ ~Alive /\ run < MaxRuns
  /\ run' = run + 1
  /\ pc' = FreshPc /\ npc' = All("idle")
  /\ nodes' = "nil" /\ machine' = All(FALSE)
  /\ errCh' = {} /\ ctxDone' = FALSE
  /\ cursor' = [g \in Cleaners |-> 1] /\ target' = 2
  /\ joinCommand' = FALSE /\ kube' = All("none")
  /\ exit' = "none" /\ vm' = All("none") /\ logged' = {}
  /\ orphan' = [n \in Nodes |-> IF Running(n) THEN vm[n] ELSE orphan[n]]
  /\ UNCHANGED <<diskVars, tap>>

\* The devices `just clean_up' names: those of a cluster clxx of three nodes.
Named == {n \in Nodes : n <= 3}

\* `just clean_up' between two runs.  The devices go if the cluster has the name
\* the recipe knows.  Its rm and pkill are without sudo: as another user than
\* the launcher's, rm fails and ends the recipe, or pkill is not permitted.
JustCleanUp ==
  /\ ~Alive /\ run < MaxRuns
  /\ \E gone \in {{}, Named} :
       tap' = [n \in Nodes |-> IF n \in gone THEN "absent" ELSE tap[n]]
  /\ \/ /\ dir' = All(FALSE) /\ img' = All("none") /\ sock' = All(FALSE)
        /\ vm' = [n \in Nodes |-> IF Running(n) THEN "killed" ELSE vm[n]]
        /\ orphan' = All("none")
     \/ UNCHANGED <<diskVars, vmVars>>
  /\ UNCHANGED <<memVars, exit, run, logged>>

MainStep ==
  \/ MkBaseDir \/ BuildNodes \/ SpawnNodes \/ WaitNodes \/ JoinsDone
  \/ PrintClusterInfo

HostStep(n) == KillVM(n) \/ ReapVM(n) \/ GuestHalts(n) \/ GuestWrites(n)

Next ==
  \/ MainStep
  \/ Configure
  \/ Signal
  \/ Killed
  \/ \E g \in Cleaners : Cleanup(g)
  \/ \E n \in Nodes : NodeStep(n) \/ HostStep(n)
  \/ Restart
  \/ JustCleanUp

Spec == Init /\ [][Next]_vars

\* The Go scheduler runs every goroutine that can run, and calls on the host
\* return; nothing bounds a command in a guest (session.Run has no timeout).
FairSpec ==
  /\ Spec
  /\ WF_vars(MainStep)
  /\ \A g \in Cleaners : WF_vars(Cleanup(g))
  /\ \A n \in Nodes : WF_vars(NodeStep(n))

\* ... unless every guest answers.
FairGuestSpec == FairSpec /\ WF_vars(Configure)

-----------------------------------------------------------------------------
(***************************************************************************)
(* Properties                                                              *)
(***************************************************************************)

Configuring == pc["main"] \in ConfigurePcs \cup {"print", "serving"}

\* Nothing is done in a guest, and no cluster announced, before every node
\* goroutine has ended, every node has its machine and no error is buffered
\* (cluster.go:108-123).
ConfigureOnlyAfterAllUp ==
  Configuring => /\ \A n \in Nodes : npc[n] = "done" /\ machine[n]
                 /\ errCh = {}

\* A worker is joined only to a master that has a pod network and has given
\* out its join command, and workers are joined in order (cluster.go:222-227,
\* 306-316).
WorkersJoinAfterMaster ==
  \A w \in Nodes \ {Master} :
    kube[w] = "joined" => /\ kube[Master] = "cni" /\ joinCommand
                          /\ \A v \in 2..(w - 1) : kube[v] = "joined"

\* "Cluster is ready!" (main.go:188) is printed only when every node has a
\* machine, the master a pod network, and every worker is joined.
ReadyMeansAssembled ==
  pc["main"] = "serving" => /\ exit # "panic"
                            /\ \A n \in Nodes : machine[n]
                            /\ kube[Master] = "cni"
                            /\ \A w \in Nodes \ {Master} : kube[w] = "joined"

\* A goroutine that has an error to report finds room in errCh, whatever the
\* others did: Provision reads the channel only after wg.Wait (cluster.go:96,
\* 103, 108-112).
ErrChHasRoom ==
  \A n \in Nodes : npc[n] = "fail" => Cardinality(errCh) < ErrChCapacity

\* When main gives up after the goroutines were started, no signal handler
\* interfering, it leaves no directory of a node of a cluster that is not
\* persistent behind, but those whose removal failed and was logged
\* (cluster.go:112-117, 241-246).
FailureCleanedUp ==
  exit = "main" /\ pc["sig"] = "idle" /\ ~Persistent /\ nodes = "set"
    => \A n \in Nodes : dir[n] => n \in logged

\* A launcher that ends by itself, through main, its signal handler or a panic,
\* leaves no firecracker running that has not lost its directory, unless the
\* removal was logged or the cluster is persistent: a signal between a Start and
\* the assignment of its machine included.  Cleanup cancels the context first, so
\* that nothing is started behind its back, and asks for a machine only to shut it
\* down (cluster.go:232-246).  One that is killed leaves all as it is.
CutOff(n) == vm[n] = "linked" => n \in logged

SurvivorsAreCutOff ==
  exit \notin {"none", "killed"} /\ ~Persistent => \A n \in Nodes : CutOff(n)

\* When main runs Cleanup after the goroutines were started, nothing is being
\* started any more, and a firecracker of this run that is alive and that Cleanup
\* cannot see, its node.Machine being nil, is one whose goroutine has failed: no
\* Start that succeeded is lost.  Nothing else tells of such a process, since
\* Provision returns one error and drops the others (cluster.go:108-117, 204-212,
\* 234-239).
UnseenMeansFailed ==
  pc["main"] \in CleanupPcs /\ nodes = "set"
    => \A n \in Nodes : /\ npc[n] = "done"
                        /\ Running(n) /\ ~machine[n] => n \in errCh

\* No firecracker of this run has a half-copied root image under it
\* (cluster.go:136-138, 276-279).
NoBootFromPartialCopy ==
  \A n \in Nodes : vm[n] = "linked" => img[n] # "partial"

\* On a host the launcher has not been used on before, a VM is started on a
\* device that is up: only a device that an earlier run failed to bring up is
\* taken as it is (cluster.go:450-468).
FirstRunTapUp ==
  \A n \in Nodes : NodeAt(n, "start") /\ run = 1 => tap[n] = "up"

\* A cluster is announced on devices of its own only: each is up, though CreateTapDevice
\* takes what it finds for configured, and no firecracker that an earlier run has
\* left, be it by a kill, holds one (cluster.go:306-312, 450-457, main.go:170).
ReadyOnOwnDevices ==
  Alive /\ pc["main"] = "serving" =>
    \A n \in Nodes : tap[n] = "up" /\ orphan[n] = "none"

\* Provision never waits for its goroutines for ever (cluster.go:95-108).
WaitReturns ==
  (Alive /\ pc["main"] = "wait") ~> (~Alive \/ pc["main"] # "wait")

\* A Cleanup, of either goroutine, ends the process, however the other one and
\* the node goroutines interleave with it.
CleanupEndsRun ==
  (Alive /\ \E g \in Cleaners : pc[g] = "cancel") ~> ~Alive

\* What makes both of these true of any number of nodes.  A Cleanup that has begun
\* has so many steps left; each of its own leaves fewer, and no step of anybody
\* else leaves more (cluster.go:232-248).
CleanupSteps(g) ==
  IF ~Alive THEN 0
  ELSE CASE pc[g] = "cancel"   -> 2 * NodeCount + 4
         [] pc[g] = "range"    -> 2 * NodeCount + 3
         [] pc[g] = "shutdown" -> 2 * (NodeCount + 1 - cursor[g]) + 2
         [] pc[g] = "remove"   -> 2 * (NodeCount + 1 - cursor[g]) + 1
         [] OTHER              -> 1

CleanupAdvances ==
  [][\A g \in Cleaners : Alive /\ pc[g] \in CleanupPcs =>
       /\ pc'[g] \in CleanupPcs
       /\ CleanupSteps(g)' <= CleanupSteps(g)
       /\ Cleanup(g) => CleanupSteps(g)' < CleanupSteps(g)]_vars

\* The goroutine of a node has at most ten steps, and always one to take when it
\* has an error to send (cluster.go:98-106, 128-213).
NodeSteps(n) ==
  CASE npc[n] = "mkdir"   -> 10
    [] npc[n] = "copy"    -> 9
    [] npc[n] = "copying" -> 8
    [] npc[n] = "tapShow" -> 7
    [] npc[n] = "tapAdd"  -> 6
    [] npc[n] = "tapUp"   -> 5
    [] npc[n] = "start"   -> 4
    [] npc[n] = "starting" -> 3
    [] npc[n] \in {"assign", "fail"} -> 2
    [] OTHER              -> 1

GoroutinesAdvance ==
  [][\A n \in Nodes : Alive /\ npc[n] # "idle" =>
       /\ npc'[n] # "idle"
       /\ NodeSteps(n)' <= NodeSteps(n)
       /\ NodeStep(n) => NodeSteps(n)' < NodeSteps(n)]_vars

\* Why EventuallyReady holds of any number of nodes.  Where no host command and no
\* guest fails, no signal or kill comes and ssh accepts the port, no step of the launcher
\* fails on account of the others: no Cleanup ever runs, and once all goroutines
\* have ended every guest can be reached (cluster.go:63-126, 128-213, main.go:149-189).
FaultFree == ~EnvFaults /\ ~Signals /\ ~Kills /\ SshPortResolves

NothingFails ==
  FaultFree => /\ Alive /\ errCh = {} /\ pc["main"] \notin CleanupPcs
               /\ Configuring => \A n \in Nodes : Reachable(n)

\* And main has so many steps left before it announces the cluster, each of which
\* leaves fewer (cluster.go:63-126, 215-230).
MainSteps ==
  LET left == 2 * (NodeCount + 1 - target) IN
  CASE pc["main"] = "mkBase"    -> left + 10
    [] pc["main"] = "build"     -> left + 9
    [] pc["main"] = "building"  -> left + 8
    [] pc["main"] = "wait"      -> left + 7
    [] pc["main"] = "sshMaster" -> left + 6
    [] pc["main"] = "init"      -> left + 5
    [] pc["main"] = "calico"    -> left + 4
    [] pc["main"] = "token"     -> left + 3
    [] pc["main"] = "sshWorker" -> left + 2
    [] pc["main"] = "join"      -> left + 1
    [] pc["main"] = "print"     -> 1
    [] OTHER                    -> 0

MainAdvances ==
  [][FaultFree => /\ MainSteps' <= MainSteps
                  /\ MainStep \/ Configure => MainSteps' < MainSteps]_vars

\* On a stock host no launcher gets past the join command, whatever else happens and
\* however often it is started (cluster.go:435-441).
StockHostNeverReady ==
  ~SshPortResolves => /\ pc["main"] \notin {"sshWorker", "join", "print", "serving"}
                      /\ \A n \in Nodes : kube[n] # "joined"

\* A node of a persistent cluster whose socket file is left of an earlier run is
\* not started by this one, nor by any later one, until `just clean_up' removes
\* the file: nothing in the launcher does, and firecracker refuses the path
\* (cluster.go:182, 201-209, 241-246).
Wedged(n) == sock[n] /\ vm[n] = "none"

WedgedUntilCleanUp ==
  Persistent => [][\A n \in Nodes : Wedged(n) => Wedged(n)' \/ JustCleanUp]_vars

\* The fork-join of Provision, as ProvisionBarrier states it.
Outcome(n) ==
  IF npc[n] # "done" THEN "pending" ELSE IF n \in errCh THEN "failed" ELSE "up"

Decision ==
  IF Configuring THEN "configure"
  ELSE IF pc["main"] \in CleanupPcs /\ nodes = "set" THEN "abort" ELSE "none"

Barrier == INSTANCE ProvisionBarrier
  WITH outcome <- [n \in Nodes |-> Outcome(n)], decision <- Decision

\* Provision implements the fork-join of ProvisionBarrier (cluster.go:63-126).
ImplementsBarrier == Barrier!Spec

-----------------------------------------------------------------------------
\* What the repository says of the program, and the code does not do.

\* main.go:188 "Cluster is ready!" and cluster.go:435: with no fault, no
\* signal and guests that answer, the launcher gets there.
EventuallyReady == <>(pc["main"] = "serving")
=============================================================================
