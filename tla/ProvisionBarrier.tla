-------------------------- MODULE ProvisionBarrier --------------------------
(***************************************************************************)
(* What (c *Cluster) Provision in cluster/cluster.go promises of its        *)
(* fork-join: every node ends up or failed, on its own; a cluster is        *)
(* configured only when all are up; an attempt with a failed node is        *)
(* aborted, and only after every node has ended, so nothing is being        *)
(* started while Provision cleans up.  Provision reports by itself only     *)
(* failures: a cluster that is being configured may still be aborted.       *)
(***************************************************************************)
CONSTANT Nodes

VARIABLES
  outcome,   \* what became of each node's goroutine
  decision   \* what Provision does about it

vars == <<outcome, decision>>

TypeOK ==
  /\ outcome \in [Nodes -> {"pending", "up", "failed"}]
  /\ decision \in {"none", "configure", "abort"}

AllPending == [n \in Nodes |-> "pending"]

Init == outcome = AllPending /\ decision = "none"

\* The goroutine of node n ends, well or badly, before anything is decided.
NodeEnds(n) ==
  /\ decision = "none"
  /\ outcome[n] = "pending"
  /\ \E o \in {"up", "failed"} : outcome' = [outcome EXCEPT ![n] = o]
  /\ UNCHANGED decision

\* Provision goes on to configureKubernetes.
Configure ==
  /\ decision = "none"
  /\ \A n \in Nodes : outcome[n] = "up"
  /\ decision' = "configure"
  /\ UNCHANGED outcome

\* Provision gives up and cleans up.
Abort ==
  /\ \/ /\ decision = "none"
        /\ \A n \in Nodes : outcome[n] # "pending"
        /\ \E n \in Nodes : outcome[n] = "failed"
     \/ decision = "configure"
  /\ decision' = "abort"
  /\ UNCHANGED outcome

\* The launcher has ended, or is started anew.
Restart == outcome' = AllPending /\ decision' = "none"

Next == (\E n \in Nodes : NodeEnds(n)) \/ Configure \/ Abort \/ Restart

Spec == Init /\ [][Next]_vars
=============================================================================
