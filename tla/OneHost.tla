-------------------------------- MODULE OneHost --------------------------------
(***************************************************************************)
(* The stand-alone programs of src/src on one host, as one operator uses them: *)
(* ImageBuilder, K8sLauncher, which boots what the builder has made, and the   *)
(* two programs of VMClients.  StartMachine never returns and runs in a        *)
(* terminal of its own; the others are started one after the other, in any    *)
(* order.  Image, mounts, socket files and microVMs outlive them.             *)
(***************************************************************************)
EXTENDS K8sLauncher, VMClients

CONSTANT MaxRuns  \* bound: how often the operator starts a program

ASSUME HostBounds == MaxRuns \in Nat

VARIABLE runs

vars == <<buildVars, kubeVars, machineVars, apiVars, runs>>

TypeOK == BuilderTypeOK /\ LauncherTypeOK /\ ClientsTypeOK /\ runs \in 0..MaxRuns

Init == BuilderInit /\ LauncherInit /\ ClientsInit /\ runs = 0

AtRest == bpc = "rest" /\ kpc \in KubeRest /\ cpc \in ClientRest

Run(program) == runs < MaxRuns /\ runs' = runs + 1 /\ program

Builder ==
  /\ \/ AtRest /\ Run(StartBuild)
     \/ (BuilderStep \/ BuilderEnv) /\ UNCHANGED runs
  /\ UNCHANGED <<kubeVars, machineVars, apiVars>>

Launcher ==
  /\ \/ AtRest /\ Run(StartLauncher)
     \/ (LauncherStep \/ \E n \in Nodes : VMEnds(n)) /\ UNCHANGED runs
  /\ UNCHANGED <<buildVars, machineVars, apiVars>>

TwoMachines ==
  /\ Run(StartMachine) \/ (MachineStep /\ UNCHANGED runs)
  /\ UNCHANGED <<buildVars, kubeVars, apiVars>>

Client ==
  /\ \/ AtRest /\ Run(StartClient)
     \/ ClientStep /\ UNCHANGED runs
  /\ UNCHANGED <<buildVars, kubeVars, machineVars>>

Next == Builder \/ Launcher \/ TwoMachines \/ Client

Spec == Init /\ [][Next]_vars
=============================================================================
