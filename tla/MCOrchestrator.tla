--------------------------- MODULE MCOrchestrator ---------------------------
(***************************************************************************)
(* Orchestrator on small sets of requests.  Nothing orders the requests of  *)
(* a kind, so exchanging them is a symmetry of the specification.           *)
(***************************************************************************)
EXTENDS Orchestrator, TLC

Symmetry == Permutations(Creates) \cup Permutations(Stops)

\* One client, which sends a request only when the last one was answered and
\* the firecracker it started is up.
Busy == {c \in Creates : cpc[c] \in {"start", "store"} \/ proc[c] = "starting"}
          \cup {s \in Stops : spc[s] \in {"kill", "delete"}}

SequentialSpec == Init /\ [][Next /\ Cardinality(Busy') <= 1]_vars
=============================================================================
