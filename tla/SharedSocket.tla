------------------------------ MODULE SharedSocket ------------------------------
(***************************************************************************)
(* The launcher variant src/launch-k8s/provision_cluster.go.  Its Provision *)
(* is the fork-join of cluster/cluster.go, but every node is started on the *)
(* API socket path /tmp/firecracker-vm.sock and on the drive                *)
(* ./setup/ubuntu-24.04.ext4.  No signal is handled, so only Provision's    *)
(* own failures lead to Cleanup.                                            *)
(*                                                                         *)
(* Each Start of the firecracker SDK launches a process (named like its     *)
(* node) and then talks to whichever process listens at the path.  SDK and  *)
(* firecracker are external: a Start refuses a path that exists, so does a  *)
(* process that binds it; a process takes settings until its guest runs,    *)
(* and starts one guest; the SDK removes the path, once per Start, when     *)
(* that Start fails or its process ends, and kills on a cancelled context:  *)
(* all of this only while the calling process lives.  The file has no main; *)
(* what calls Provision may end whenever it returns, and be killed before.  *)
(***************************************************************************)
EXTENDS Integers, FiniteSets

CONSTANTS
  NodeCount,   \* ClusterConfig.NodeCount
  Persistent,  \* ClusterConfig.Persistent
  EnvFaults    \* whether host commands and guests may fail

ASSUME SharedSocketConstants ==
  /\ NodeCount \in Nat \ {0}
  /\ {Persistent, EnvFaults} \subseteq BOOLEAN

Nodes  == 1..NodeCount
Master == 1

\* The last byte of a node's address: 10, and 20 + i for worker i from 0.
HostPart(n) == IF n = Master THEN 10 ELSE 18 + n

VARIABLES
  pc,      \* control point of Provision, "gone" when its caller has ended
  target,  \* the node configureKubernetes is at
  step,    \* its next call there
  ctxDone, \* c.ctx is cancelled
  npc,     \* control point of each provisionNode
  dir,     \* node.RootPath exists
  at,      \* the process that made the file at the socket path, or Nobody
  proc,    \* the firecracker process of each node
  cfg,     \* the node whose settings a process was given last
  by,      \* the node whose Start started the guest of a process
  swept    \* nodes whose Start has removed the path

mainVars == <<pc, target, step, ctxDone>>
sdkVars  == <<at, proc, cfg, by, swept>>
vars     == <<mainVars, npc, dir, sdkVars>>

Nobody == 0
Ended  == {"up", "failed"}
Live   == {v \in Nodes : proc[v] = "listening"}

TypeOK ==
  /\ pc \in {"mkBase", "spawn", "wait", "configure", "cleanup",
             "noBase", "ok", "err", "gone"}
  /\ target \in 1..(NodeCount + 1)
  /\ step \in {"ssh", "init", "calico", "token", "join"}
  /\ ctxDone \in BOOLEAN
  /\ npc \in [Nodes -> {"idle", "prepare", "launch", "wait", "config", "boot"}
                       \cup Ended]
  /\ dir \in [Nodes -> BOOLEAN]
  /\ at \in Nodes \cup {Nobody}
  /\ proc \in [Nodes -> {"none", "spawned", "listening", "refused", "dead"}]
  /\ cfg \in [Nodes -> Nodes \cup {Nobody}]
  /\ by \in [Nodes -> Nodes \cup {Nobody}]
  /\ swept \subseteq Nodes
  /\ pc \notin {"ok", "gone"} => target \in Nodes
  /\ at # Nobody => proc[at] \in {"listening", "dead"}
  /\ \A n \in Nodes :
       /\ pc # "gone" => (npc[n] = "idle" <=> pc \in {"mkBase", "spawn", "noBase"})
       /\ npc[n] \in {"idle", "prepare", "launch"} => proc[n] = "none"
       /\ by[n] # Nobody => cfg[n] # Nobody /\ proc[n] \in {"listening", "dead"}

All(x) == [n \in Nodes |-> x]

Init ==
  /\ pc = "mkBase" /\ target = Master /\ step = "ssh" /\ ctxDone = FALSE
  /\ npc = All("idle") /\ dir = All(FALSE)
  /\ at = Nobody /\ proc = All("none") /\ cfg = All(Nobody) /\ by = All(Nobody)
  /\ swept = {}

Goto(n, l) == npc' = [npc EXCEPT ![n] = l]

-----------------------------------------------------------------------------
\* Provision, up to the goroutines.
MkBaseDir ==
  /\ pc = "mkBase"
  /\ pc' = "spawn" \/ (EnvFaults /\ pc' = "noBase")
  /\ UNCHANGED <<target, step, ctxDone, npc, dir, sdkVars>>

SpawnNodes ==
  /\ pc = "spawn" /\ pc' = "wait"
  /\ npc' = All("prepare")
  /\ UNCHANGED <<target, step, ctxDone, dir, sdkVars>>

-----------------------------------------------------------------------------
\* provisionNode(n).

\* The directory is made and the root image copied there, for nobody: the VM
\* is given the fixed drive.
Prepare(n) ==
  /\ npc[n] = "prepare"
  /\ \/ dir' = [dir EXCEPT ![n] = TRUE] /\ Goto(n, "launch")
     \/ EnvFaults /\ Goto(n, "failed") /\ dir' \in {dir, [dir EXCEPT ![n] = TRUE]}
  /\ UNCHANGED <<mainVars, sdkVars>>

\* External: a Start that fails after it has launched its process removes the
\* path, whoever made the file there.  The process is left running.
StartFails(n) ==
  /\ Goto(n, "failed")
  /\ swept' = swept \cup {n}
  /\ at' = IF n \in swept THEN at ELSE Nobody

\* NewMachine, and Start up to the process.  A path that exists is refused,
\* and so is an address that net.ParseIP does not know.
Launch(n) ==
  /\ npc[n] = "launch"
  /\ \/ /\ at = Nobody /\ HostPart(n) <= 255
        /\ proc' = [proc EXCEPT ![n] = "spawned"] /\ Goto(n, "wait")
     \/ /\ at # Nobody \/ HostPart(n) > 255 \/ EnvFaults
        /\ Goto(n, "failed") /\ UNCHANGED proc
  /\ UNCHANGED <<mainVars, dir, at, cfg, by, swept>>

\* Start polls the path until somebody answers there, or its own process has
\* ended, or the time is up.
WaitForSocket(n) ==
  /\ npc[n] = "wait"
  /\ \/ at \in Live /\ Goto(n, "config") /\ UNCHANGED <<at, swept>>
     \/ (proc[n] \in {"refused", "dead"} \/ EnvFaults) /\ StartFails(n)
  /\ UNCHANGED <<mainVars, dir, proc, cfg, by>>

\* Who answers at the path and still takes settings.
Open == {v \in Live : v = at /\ by[v] = Nobody}

\* The requests that set machine, kernel, drive and network.  Of two nodes that
\* set up one process the later one counts.
SendConfig(n) ==
  /\ npc[n] = "config"
  /\ \/ \E v \in Open :
          cfg' = [cfg EXCEPT ![v] = n] /\ Goto(n, "boot") /\ UNCHANGED <<at, swept>>
     \/ (Open = {} \/ EnvFaults) /\ StartFails(n) /\ UNCHANGED cfg
  /\ UNCHANGED <<mainVars, dir, proc, by>>

\* InstanceStart, which a process without a kernel refuses; Start returns and
\* node.Machine is set.  An answer may be lost.
StartInstance(n) ==
  /\ npc[n] = "boot"
  /\ \/ \E v \in Open :
          /\ cfg[v] # Nobody
          /\ by' = [by EXCEPT ![v] = n]
          /\ \/ Goto(n, "up") /\ UNCHANGED <<at, swept>>
             \/ EnvFaults /\ StartFails(n)
     \/ /\ EnvFaults \/ \A v \in Open : cfg[v] = Nobody
        /\ StartFails(n) /\ UNCHANGED by
  /\ UNCHANGED <<mainVars, dir, proc, cfg>>

NodeStep(n) ==
  /\ pc # "gone"
  /\ \/ Prepare(n) \/ Launch(n) \/ WaitForSocket(n) \/ SendConfig(n)
     \/ StartInstance(n)

-----------------------------------------------------------------------------
\* External: the processes, and the SDK that waits for them.

Bind(v) ==
  /\ proc[v] = "spawned"
  /\ IF at = Nobody THEN at' = v /\ proc' = [proc EXCEPT ![v] = "listening"]
                    ELSE proc' = [proc EXCEPT ![v] = "refused"] /\ UNCHANGED at
  /\ UNCHANGED <<mainVars, npc, dir, cfg, by, swept>>

\* The SDK kills on a cancelled context, in goroutines of the calling process.
Killing == ctxDone /\ pc # "gone"

\* A process ends by itself, or is killed.
Die(v) ==
  /\ \/ proc[v] = "listening" /\ EnvFaults
     \/ proc[v] \in {"spawned", "listening"} /\ Killing
  /\ proc' = [proc EXCEPT ![v] = "dead"]
  /\ UNCHANGED <<mainVars, npc, dir, at, cfg, by, swept>>

Sweep(v) ==
  /\ pc # "gone" /\ proc[v] \in {"refused", "dead"} /\ v \notin swept
  /\ swept' = swept \cup {v} /\ at' = Nobody
  /\ UNCHANGED <<mainVars, npc, dir, proc, cfg, by>>

-----------------------------------------------------------------------------
\* Provision, after the goroutines.

\* Variant: the first error to arrive ends the wait.
WaitNodes_FirstError ==
  /\ pc = "wait"
  /\ \/ (\A n \in Nodes : npc[n] = "up") /\ pc' = "configure"
     \/ (\E n \in Nodes : npc[n] = "failed") /\ pc' = "cleanup"
  /\ UNCHANGED <<target, step, ctxDone, npc, dir, sdkVars>>

\* Variant: errors are only logged.
WaitNodes_LogOnly ==
  /\ pc = "wait" /\ \A n \in Nodes : npc[n] \in Ended
  /\ pc' = "configure"
  /\ UNCHANGED <<target, step, ctxDone, npc, dir, sdkVars>>

\* Variant: nodes that failed are tried again.
WaitNodes_Retry ==
  /\ pc = "wait" /\ \A n \in Nodes : npc[n] \in Ended
  /\ IF \E n \in Nodes : npc[n] = "failed"
       THEN /\ npc' = [n \in Nodes |-> IF npc[n] = "up" THEN "up" ELSE "prepare"]
            /\ UNCHANGED pc
       ELSE pc' = "configure" /\ UNCHANGED npc
  /\ UNCHANGED <<target, step, ctxDone, dir, sdkVars>>

\* wg.Wait returns; then any error in the channel leads to Cleanup.
WaitNodes ==
  /\ pc = "wait" /\ \A n \in Nodes : npc[n] \in Ended
  /\ pc' = IF \E n \in Nodes : npc[n] = "failed" THEN "cleanup" ELSE "configure"
  /\ UNCHANGED <<target, step, ctxDone, npc, dir, sdkVars>>

\* waitForSSH and executeCommand get through to a guest that booted with this
\* node's address.
Reachable(n) ==
  \E v \in Live : by[v] # Nobody /\ HostPart(cfg[v]) = HostPart(n)

\* The order of the calls on a node: the master's, or a worker's.
Following(n) ==
  [ssh |-> IF n = Master THEN "init" ELSE "join",
   init |-> "calico", calico |-> "token", token |-> "ssh", join |-> "ssh"]

\* Variant: workers are not waited for and their joins not checked.
Configure_MasterOnly ==
  /\ pc = "configure"
  /\ \/ /\ Reachable(target)
        /\ step' = Following(target)[step]
        /\ pc' = IF step = "token" THEN "ok" ELSE "configure"
     \/ /\ ~Reachable(target) \/ EnvFaults
        /\ pc' = "cleanup" /\ UNCHANGED step
  /\ UNCHANGED <<target, ctxDone, npc, dir, sdkVars>>

\* configureKubernetes, one ssh command at a time: on the master waitForSSH,
\* kubeadm init, the network and the join command, on each worker waitForSSH and
\* the join, which needs the master.  The first that fails is returned.
Configure ==
  /\ pc = "configure"
  /\ LET last == step \in {"token", "join"} IN
     \/ /\ Reachable(target) /\ (step = "join" => Reachable(Master))
        /\ step' = Following(target)[step]
        /\ target' = IF last THEN target + 1 ELSE target
        /\ pc' = IF last /\ target = NodeCount THEN "ok" ELSE "configure"
     \/ /\ ~Reachable(target) \/ (step = "join" /\ ~Reachable(Master)) \/ EnvFaults
        /\ pc' = "cleanup" /\ UNCHANGED <<step, target>>
  /\ UNCHANGED <<ctxDone, npc, dir, sdkVars>>

\* Variant: the context is left alone.
Cleanup_NoCancel ==
  /\ pc = "cleanup" /\ pc' = "err"
  /\ dir' = IF Persistent THEN dir ELSE All(FALSE)
  /\ UNCHANGED <<target, step, ctxDone, npc, sdkVars>>

\* The context is cancelled, which makes every Shutdown fail at once, and the
\* directories are removed, or an error is logged; one that stays stands for all.
Cleanup ==
  /\ pc = "cleanup" /\ pc' = "err"
  /\ ctxDone' = TRUE
  /\ \/ dir' = IF Persistent THEN dir ELSE All(FALSE)
     \/ ~Persistent /\ EnvFaults
        /\ \E n \in Nodes : dir' = [All(FALSE) EXCEPT ![n] = dir[n]]
  /\ UNCHANGED <<target, step, npc, sdkVars>>

-----------------------------------------------------------------------------
MainStep == MkBaseDir \/ SpawnNodes \/ WaitNodes \/ Cleanup
External(v) == Bind(v) \/ Die(v) \/ Sweep(v)

\* External: the calling process ends after Provision has returned (the sibling's main
\* does so at once, on an error), or is killed before.
CallerEnds ==
  /\ pc \in {"noBase", "ok", "err"} \/ (EnvFaults /\ pc # "gone")
  /\ pc' = "gone"
  /\ UNCHANGED <<target, step, ctxDone, npc, dir, sdkVars>>

Next ==
  \/ MainStep \/ Configure \/ CallerEnds
  \/ \E n \in Nodes : NodeStep(n) \/ External(n)

Spec == Init /\ [][Next]_vars

\* Goroutines are scheduled, host calls and the SDK's return; a guest may
\* never answer, and need not die; the caller may live on or end.
FairSpec ==
  /\ Spec
  /\ WF_vars(MainStep)
  /\ \A n \in Nodes :
       /\ WF_vars(NodeStep(n)) /\ WF_vars(Bind(n)) /\ WF_vars(Sweep(n))
       /\ WF_vars(Killing /\ Die(n))

-----------------------------------------------------------------------------
(***************************************************************************)
(* Properties                                                              *)
(***************************************************************************)

\* When every node is reported up, at most one of their microVMs is alive: a
\* second process gets the path only after the first was lost (lines 91-110,
\* with the fixed path of line 143).
OneSurvivor == pc \in {"configure", "ok"} => Cardinality(Live) <= 1

\* What follows for Provision: with more than one node it never returns nil,
\* however its goroutines and the processes interleave (lines 112-118).
NeverSucceeds == NodeCount > 1 => pc # "ok"

\* After a failed Provision every process that any Start has launched ends, those
\* of Starts that failed included, provided that the caller lives long enough for the
\* SDK to carry out the kill: Provision returns without waiting for it, and nothing
\* makes the caller wait (lines 105-116, 244-245).
NothingLeftRunning ==
  (pc = "err") ~> \/ pc = "gone"
                  \/ \A n \in Nodes : proc[n] \notin {"spawned", "listening"}

\* What makes this true of any number of nodes.  When Provision has returned its
\* error the context is cancelled for good, which leaves every process that is
\* alive its end to come, two steps away at most, and nobody launches another, for as
\* long as the caller lives (lines 87-116, 244).
ProcSteps(v) ==
  IF proc[v] = "spawned" THEN 2 ELSE IF proc[v] = "listening" THEN 1 ELSE 0

EndsAfterError ==
  [][pc = "err" =>
       /\ ctxDone /\ pc' \in {"err", "gone"}
       /\ \A v \in Nodes :
            /\ ProcSteps(v)' <= ProcSteps(v)
            /\ Bind(v) \/ Die(v) => ProcSteps(v)' < ProcSteps(v)]_vars

-----------------------------------------------------------------------------
\* Provision as the fork-join that it shares with cluster/cluster.go; the end of the
\* caller is that of the attempt.

Outcome ==
  [n \in Nodes |-> IF npc[n] \in Ended /\ pc # "gone" THEN npc[n] ELSE "pending"]

Decision ==
  IF pc \in {"configure", "ok"} THEN "configure"
  ELSE IF pc \in {"cleanup", "err"} THEN "abort" ELSE "none"

Barrier == INSTANCE ProvisionBarrier WITH outcome <- Outcome, decision <- Decision

\* Nothing is configured before all nodes are up, nothing is cleaned up while one
\* of them is being started (lines 87-116).
ImplementsBarrier == Barrier!Spec
=============================================================================
