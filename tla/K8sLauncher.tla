------------------------------ MODULE K8sLauncher ------------------------------
(***************************************************************************)
(* src/src/launch-k8s/create_k8s_cluster.go: a program that starts the        *)
(* control plane and the workers one by one, all on the drive that            *)
(* ImageBuilder makes, each at once reached by ssh; sets up the control       *)
(* plane, and has the workers join.  It removes nothing: an error ends it by  *)
(* log.Fatalf, success by returning, a kill at any point, and either way the  *)
(* microVMs and their socket files stay.                                     *)
(*                                                                         *)
(* SDK, firecracker and guests are external.  A Start refuses a socket path   *)
(* that exists; one that fails may have started the guest, whose TAP device   *)
(* then keeps another one from starting, and removes the path unless the last *)
(* request is what failed; the SDK removes the path of a microVM that ends    *)
(* while the program runs.                                                   *)
(***************************************************************************)
EXTENDS ImageBuilder

CONSTANT Workers  \* len(workerIPs)

ASSUME LauncherConstants == Workers \in Nat \ {0} /\ EnvFaults \in BOOLEAN

Nodes        == 0..Workers
ControlPlane == 0

VARIABLES
  kpc,      \* control point of main
  node,     \* the vmID, or the workerIP, it is at
  sockets,  \* nodes whose socket file exists
  vm,       \* each node's microVM: off, up since its guest has booted, or hung
  launched, \* nodes that this run of main has started
  inited    \* kubeadm init was carried out on the control plane that is up

kubeVars == <<kpc, node, sockets, vm, launched, inited>>

KubeRest == {"rest", "fatal", "announced"}

LauncherTypeOK ==
  /\ kpc \in KubeRest \cup {"launch", "assign", "init", "token", "join"}
  /\ node \in Nodes
  /\ sockets \subseteq Nodes /\ launched \subseteq Nodes
  /\ vm \in [Nodes -> {"off", "up", "hung"}]
  /\ inited \in BOOLEAN

LauncherInit ==
  /\ kpc = "rest" /\ node = ControlPlane /\ sockets = {} /\ launched = {}
  /\ vm = [n \in Nodes |-> "off"] /\ inited = FALSE

StartLauncher ==
  /\ kpc \in KubeRest
  /\ kpc' = "launch" /\ node' = ControlPlane /\ launched' = {}
  /\ UNCHANGED <<sockets, vm, inited>>

\* External: a guest needs a filled image, and may hang all the same.
Boots == vm' \in {[vm EXCEPT ![node] = s] :
                    s \in {"hung"} \cup (IF image = "full" THEN {"up"} ELSE {})}

\* Variant: a socket file that was left is removed first.
Launch_Remove ==
  /\ kpc = "launch"
  /\ \/ /\ vm[node] = "off"
        /\ Boots /\ sockets' = sockets \cup {node} /\ launched' = launched \cup {node}
        /\ kpc' = "assign"
     \/ /\ vm[node] # "off" \/ EnvFaults
        /\ kpc' = "fatal" /\ sockets' = sockets \ {node}
        /\ UNCHANGED <<vm, launched>>
  /\ UNCHANGED <<node, inited>>

\* What a Start leaves that does not return: a socket file, a guest.
Abandoned ==
  /\ EnvFaults /\ node \notin sockets /\ vm[node] = "off"
  /\ sockets' \in {sockets, sockets \cup {node}}
  /\ UNCHANGED vm \/ Boots

\* launchK8sNode, up to Start.
Launch ==
  /\ kpc = "launch"
  /\ \/ /\ node \notin sockets /\ vm[node] = "off"
        /\ Boots /\ sockets' = sockets \cup {node} /\ launched' = launched \cup {node}
        /\ kpc' = "assign"
     \/ /\ node \in sockets \/ vm[node] # "off" \/ EnvFaults
        /\ kpc' = "fatal" /\ UNCHANGED launched
        /\ UNCHANGED <<sockets, vm>> \/ Abandoned
  /\ UNCHANGED <<node, inited>>

\* executeSSHCommand gets through to the guest of a node.
Reachable(n) == vm[n] = "up"

\* Variant: one node too many.
NextNode_OffByOne ==
  IF node > Workers THEN kpc' = "token" /\ UNCHANGED node
                    ELSE kpc' = "launch" /\ node' = node + 1

\* After the last node the join command is asked for.
NextNode ==
  IF node = Workers THEN kpc' = "token" /\ UNCHANGED node
                    ELSE kpc' = "launch" /\ node' = node + 1

\* Variant: an address that cannot be assigned is only logged.
AssignStaticIP_LogOnly ==
  /\ kpc = "assign"
  /\ IF node = ControlPlane THEN kpc' = "init" /\ UNCHANGED node ELSE NextNode
  /\ UNCHANGED <<sockets, vm, launched, inited>>

\* assignStaticIP, by ssh to the guest right after Start; then main sleeps.  What it
\* has the guest do names the host's TAP device, so that it may fail on any guest.
AssignStaticIP ==
  /\ kpc = "assign"
  /\ \/ /\ Reachable(node)
        /\ IF node = ControlPlane THEN kpc' = "init" /\ UNCHANGED node ELSE NextNode
     \/ kpc' = "fatal" /\ UNCHANGED node
  /\ UNCHANGED <<sockets, vm, launched, inited>>

\* initControlPlane: kubeadm init refuses a node that it was run on.
InitControlPlane ==
  /\ kpc = "init"
  /\ \/ Reachable(ControlPlane) /\ ~inited /\ inited' = TRUE /\ NextNode
     \/ /\ ~Reachable(ControlPlane) \/ inited \/ EnvFaults
        /\ kpc' = "fatal" /\ UNCHANGED node
        /\ UNCHANGED inited \/ (Reachable(ControlPlane) /\ EnvFaults /\ inited' = TRUE)
  /\ UNCHANGED <<sockets, vm, launched>>

GetJoinCommand ==
  /\ kpc = "token"
  /\ \/ Reachable(ControlPlane) /\ inited /\ kpc' = "join" /\ node' = 1
     \/ (~(Reachable(ControlPlane) /\ inited) \/ EnvFaults)
        /\ kpc' = "fatal" /\ UNCHANGED node
  /\ UNCHANGED <<sockets, vm, launched, inited>>

\* joinNode: an error is logged, and success announced whatever the joins did.
JoinNode ==
  /\ kpc = "join"
  /\ IF node = Workers THEN kpc' = "announced" /\ UNCHANGED node
                       ELSE kpc' = "join" /\ node' = node + 1
  /\ UNCHANGED <<sockets, vm, launched, inited>>

\* A kill, between two steps, within a Start, or while kubeadm init runs.
LauncherKilled ==
  /\ EnvFaults /\ kpc \notin KubeRest /\ kpc' = "fatal"
  /\ UNCHANGED <<sockets, vm>> \/ (kpc = "launch" /\ Abandoned)
  /\ UNCHANGED inited \/ (kpc = "init" /\ Reachable(ControlPlane) /\ inited' = TRUE)
  /\ UNCHANGED <<node, launched>>

LauncherStep ==
  \/ Launch \/ AssignStaticIP \/ InitControlPlane \/ GetJoinCommand \/ JoinNode
  \/ LauncherKilled

\* External: a microVM ends, or Ctrl-C, which the SDK forwards, ends it.
VMEnds(n) ==
  /\ EnvFaults /\ vm[n] # "off" /\ vm' = [vm EXCEPT ![n] = "off"]
  /\ inited' = (inited /\ n # ControlPlane)
  /\ \/ UNCHANGED sockets
     \/ n \in launched /\ kpc \notin KubeRest /\ sockets' = sockets \ {n}
  /\ UNCHANGED <<kpc, node, launched>>

-----------------------------------------------------------------------------
(***************************************************************************)
(* Properties                                                              *)
(***************************************************************************)

\* Success is announced only after this run has started every node, and ssh has
\* got through to the guest that runs, or ran, on it (lines 254-290, 405-408).
AnnouncedMeansBooted ==
  kpc = "announced" => launched = Nodes /\ \A n \in Nodes : vm[n] # "hung"

\* Once the program has ended with the control plane's socket file in place, after
\* an error as after success, no later run gets past its first Start, whether the
\* microVM lives or not (lines 254-265, 390-402).
PathTaken ==
  /\ ControlPlane \in sockets
  /\ kpc \in KubeRest \/ (kpc = "launch" /\ node = ControlPlane)

TakenForGood == [][PathTaken => PathTaken']_kubeVars
=============================================================================
