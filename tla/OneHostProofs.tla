----------------------------- MODULE OneHostProofs -----------------------------
(***************************************************************************)
(* Theorems about OneHost, for any number of workers, microVMs and runs.      *)
(***************************************************************************)
EXTENDS OneHost, TLAPS

\* What a step is to each program.
LEMMA Parts ==
  ASSUME [Next]_vars
  PROVE  /\ StartBuild \/ BuilderStep \/ BuilderEnv \/ UNCHANGED buildVars
         /\ StartLauncher \/ LauncherStep \/ (\E n \in Nodes : VMEnds(n))
            \/ UNCHANGED kubeVars
         /\ StartMachine \/ MachineStep \/ UNCHANGED machineVars
         /\ StartClient \/ ClientStep \/ UNCHANGED apiVars
         /\ runs' = runs \/ (runs < MaxRuns /\ runs' = runs + 1)
BY DEF Next, vars, Builder, Launcher, TwoMachines, Client, Run

-----------------------------------------------------------------------------
(***************************************************************************)
(* The builder.                                                             *)
(***************************************************************************)

\* The image is mounted once, on top, from its mount to its unmount, as long as nobody
\* else uses /mnt.
OnceOnTop == mnt # <<>> /\ \A i \in DOMAIN mnt : mnt[i] = "image" => i = 1

BuildInv ==
  /\ BuilderTypeOK /\ BuiltMeansFilled
  /\ bpc \in {"extract", "dd", "mkfs", "mount", "copy", "umount"} => ~built
  /\ bpc \in {"dd", "mkfs", "mount", "copy", "umount"} => rootfs = "full"
  /\ bpc = "umount" /\ ~shared => image = "full"
  /\ bpc = "mount" => ~Mounted
  /\ bpc \in {"copy", "umount"} /\ ~shared => OnceOnTop

LEMMA PushOnce ==
  ASSUME mnt \in Seq({"image", "other"}), ~Mounted, mnt' = <<"image">> \o mnt
  PROVE  mnt' \in Seq({"image", "other"}) /\ OnceOnTop'
<1>1. /\ Len(mnt') = Len(mnt) + 1 /\ Len(mnt) \in Nat
      /\ mnt' \in Seq({"image", "other"})
      /\ \A i \in 1..Len(mnt') : i # 1 => mnt'[i] = mnt[i - 1]
  BY DEF Mounted
<1>2. \A i \in 1..Len(mnt') : i # 1 => mnt'[i] # "image"
  <2> TAKE i \in 1..Len(mnt')
  <2>1. i # 1 => i - 1 \in DOMAIN mnt
    BY <1>1
  <2> QED BY <1>1, <2>1 DEF Mounted
<1>3. mnt' # <<>>
  BY <1>1
<1> QED BY <1>1, <1>2, <1>3 DEF OnceOnTop

LEMMA PopTop ==
  ASSUME mnt \in Seq({"image", "other"}), Pop
  PROVE  /\ mnt' \in Seq({"image", "other"})
         /\ OnceOnTop => ~Mounted'
         /\ ~Mounted => ~Mounted'
<1>1. /\ mnt' \in Seq({"image", "other"}) /\ Len(mnt') = Len(mnt) - 1
      /\ Len(mnt) \in Nat
      /\ \A i \in 1..Len(mnt') : mnt'[i] = mnt[i + 1]
  BY DEF Pop
<1>2. \A i \in DOMAIN mnt' : i + 1 \in DOMAIN mnt /\ i + 1 # 1
  BY <1>1
<1> QED BY <1>1, <1>2 DEF OnceOnTop, Mounted

LEMMA PushOther ==
  ASSUME mnt \in Seq({"image", "other"}), mnt' = <<"other">> \o mnt
  PROVE  mnt' \in Seq({"image", "other"}) /\ Mounted' = Mounted
<1>1. /\ Len(mnt') = Len(mnt) + 1 /\ Len(mnt) \in Nat
      /\ mnt' \in Seq({"image", "other"}) /\ mnt'[1] = "other"
      /\ \A i \in 1..Len(mnt) : mnt'[i + 1] = mnt[i]
      /\ \A i \in 1..Len(mnt') : i # 1 => mnt'[i] = mnt[i - 1]
  OBVIOUS
<1>2. Mounted => Mounted'
  <2> SUFFICES ASSUME NEW i \in DOMAIN mnt, mnt[i] = "image" PROVE Mounted'
    BY DEF Mounted
  <2>1. i \in 1..Len(mnt)
    OBVIOUS
  <2>2. i + 1 \in DOMAIN mnt' /\ mnt'[i + 1] = "image"
    BY <1>1, <2>1
  <2> QED BY <2>2 DEF Mounted
<1>3. Mounted' => Mounted
  <2> SUFFICES ASSUME NEW i \in DOMAIN mnt', mnt'[i] = "image" PROVE Mounted
    BY DEF Mounted
  <2>1. i \in 1..Len(mnt') /\ i # 1
    BY <1>1
  <2>2. i - 1 \in DOMAIN mnt /\ mnt[i - 1] = "image"
    BY <1>1, <2>1
  <2> QED BY <2>2 DEF Mounted
<1>4. Mounted \in BOOLEAN /\ Mounted' \in BOOLEAN
  BY DEF Mounted
<1> QED BY <1>1, <1>2, <1>3, <1>4

LEMMA BuildNext ==
  ASSUME BuildInv, StartBuild \/ BuilderStep \/ BuilderEnv \/ UNCHANGED buildVars
  PROVE  BuildInv'
<1> USE DEF BuildInv, BuilderTypeOK, BuiltMeansFilled
<1>1. CASE StartBuild \/ Extract \/ Allocate \/ Format \/ Copy \/ Killed
  <2>1. UNCHANGED mnt
    BY <1>1 DEF StartBuild, Extract, Allocate, Format, Copy, Killed
  <2>2. Mounted' = Mounted /\ OnceOnTop' = OnceOnTop
    BY <2>1 DEF Mounted, OnceOnTop
  <2>3. CASE StartBuild
    BY <2>1, <2>2, <2>3 DEF StartBuild
  <2>7. CASE Killed
    BY <2>1, <2>2, <2>7 DEF Killed
  <2>4. CASE Extract
    BY <2>1, <2>2, <2>4 DEF Extract
  <2>5. CASE Allocate \/ Format
    BY <2>1, <2>2, <2>5 DEF Allocate, Format
  <2>6. CASE Copy
    BY <2>1, <2>2, <2>6 DEF Copy
  <2> QED BY <1>1, <2>3, <2>4, <2>5, <2>6, <2>7
<1>2. CASE Mount
  <2>1. CASE mnt' = <<"image">> \o mnt /\ bpc' = "copy"
    BY <1>2, <2>1, PushOnce DEF Mount
  <2>2. CASE UNCHANGED mnt /\ bpc' = "rest"
    BY <1>2, <2>2 DEF Mount, Mounted
  <2> QED BY <1>2, <2>1, <2>2 DEF Mount
<1>3. CASE Unmount
  <2>1. CASE Pop /\ built' = TRUE
    BY <1>3, <2>1, PopTop DEF Unmount
  <2>2. CASE UNCHANGED <<mnt, built>>
    BY <1>3, <2>2 DEF Unmount, Mounted
  <2> QED BY <1>3, <2>1, <2>2 DEF Unmount
<1>4. CASE Deferred
  <2>1. CASE Pop
    BY <1>4, <2>1, PopTop DEF Deferred
  <2>2. CASE UNCHANGED mnt
    BY <1>4, <2>2 DEF Deferred, Mounted
  <2> QED BY <1>4, <2>1, <2>2 DEF Deferred
<1>5. CASE OtherMounts
  <2>1. mnt' \in Seq({"image", "other"}) /\ Mounted' = Mounted
    BY <1>5, PushOther DEF OtherMounts
  <2> QED BY <1>5, <2>1 DEF OtherMounts
<1>6. CASE OtherUnmounts
  BY <1>6, PopTop DEF OtherUnmounts
<1>7. CASE UNCHANGED buildVars
  BY <1>7 DEF buildVars, Mounted, OnceOnTop
<1> QED
  BY <1>1, <1>2, <1>3, <1>4, <1>5, <1>6, <1>7 DEF BuilderStep, BuilderEnv

LEMMA BuildInvariance == Spec => []BuildInv
<1>1. Init => BuildInv
  <2> SUFFICES ASSUME Init PROVE BuildInv
    OBVIOUS
  <2>1. mnt = <<>> /\ mnt \in Seq({"image", "other"})
    BY DEF Init, BuilderInit
  <2> QED BY <2>1 DEF Init, BuilderInit, BuildInv, BuilderTypeOK, BuiltMeansFilled
<1>2. BuildInv /\ [Next]_vars => BuildInv'
  BY Parts, BuildNext
<1> QED BY <1>1, <1>2, PTL DEF Spec

\* Whatever fails, and whatever others mount on /mnt and unmount between the builds: an
\* image said to be unmounted is filled and not mounted, if they kept off during its
\* build (lines 19-58).
THEOREM BuildsAreFilled == Spec => []BuiltMeansFilled
<1>1. BuildInv => BuiltMeansFilled
  BY DEF BuildInv
<1> QED BY BuildInvariance, <1>1, PTL

\* An image left mounted stays so through any number of builds (lines 28-42).
THEOREM LeftMountedStays == Spec => StuckUntilUnmounted
<1>1. ASSUME BuildInv, [Next]_vars, LeftMounted, ~OtherUnmounts
      PROVE  LeftMounted'
  <2>1. mnt # <<>>
    BY <1>1 DEF LeftMounted, Mounted
  <2>2. CASE StartBuild \/ Extract \/ Allocate \/ Format \/ Killed \/ UNCHANGED buildVars
    BY <1>1, <2>2 DEF StartBuild, Extract, Allocate, Format, Killed, buildVars,
                      LeftMounted, Mounted
  <2>3. CASE Mount \/ Copy \/ Unmount \/ Deferred
    BY <1>1, <2>1, <2>3 DEF Mount, Copy, Unmount, Deferred, LeftMounted
  <2>4. CASE OtherMounts
    <3>1. Mounted' = Mounted
      BY <1>1, <2>4, PushOther DEF OtherMounts, BuildInv, BuilderTypeOK
    <3> QED BY <1>1, <2>4, <3>1 DEF OtherMounts, LeftMounted
  <2> QED BY <1>1, <2>2, <2>3, <2>4, Parts DEF BuilderStep, BuilderEnv
<1>2. BuildInv /\ [Next]_vars => [LeftMounted => LeftMounted' \/ OtherUnmounts]_buildVars
  BY <1>1
<1> QED BY BuildInvariance, <1>2, PTL DEF Spec, StuckUntilUnmounted

-----------------------------------------------------------------------------
(***************************************************************************)
(* The Kubernetes launcher.                                                 *)
(***************************************************************************)

\* How far this run has got: which nodes it has launched, and which of them were
\* reached by ssh since.
Launching ==
  /\ kpc = "launch" => launched = 0..(node - 1)
  /\ kpc \in {"assign", "init"} => launched = 0..node
  /\ kpc = "init" => node = 0
  /\ kpc \in {"token", "join", "announced"} => launched = Nodes

Booted ==
  /\ kpc \in {"launch", "init", "token", "join", "announced"}
       => \A n \in launched : vm[n] # "hung"
  /\ kpc = "assign" => \A n \in launched \ {node} : vm[n] # "hung"

KubeInv == LauncherTypeOK /\ Launching /\ Booted

LEMMA AbandonedType ==
  ASSUME LauncherTypeOK, Abandoned
  PROVE  vm' \in [Nodes -> {"off", "up", "hung"}] /\ sockets' \subseteq Nodes
BY DEF Abandoned, Boots, LauncherTypeOK

LEMMA KubeNext ==
  ASSUME KubeInv,
         \/ StartLauncher \/ LauncherStep \/ (\E n \in Nodes : VMEnds(n))
         \/ UNCHANGED kubeVars
  PROVE  KubeInv'
<1> USE LauncherConstants DEF KubeInv, LauncherTypeOK, Launching, Booted, Nodes,
        ControlPlane, KubeRest
<1>1. CASE StartLauncher
  BY <1>1 DEF StartLauncher
<1>2. CASE Launch
  <2>1. CASE /\ Boots /\ sockets' = sockets \cup {node}
             /\ launched' = launched \cup {node} /\ kpc' = "assign"
    <3>1. /\ vm' \in [0..Workers -> {"off", "up", "hung"}]
          /\ \A n \in 0..Workers : n # node => vm'[n] = vm[n]
      BY <2>1 DEF Boots
    <3>2. launched' = 0..node /\ node' = node
      BY <1>2, <2>1 DEF Launch
    <3> QED BY <1>2, <2>1, <3>1, <3>2 DEF Launch
  <2>2. CASE /\ kpc' = "fatal" /\ UNCHANGED launched
             /\ UNCHANGED <<sockets, vm>> \/ Abandoned
    <3>1. vm' \in [0..Workers -> {"off", "up", "hung"}] /\ sockets' \subseteq Nodes
      BY <2>2, AbandonedType
    <3> QED BY <1>2, <2>2, <3>1 DEF Launch
  <2> QED BY <1>2, <2>1, <2>2 DEF Launch
<1>3. CASE AssignStaticIP
  BY <1>3 DEF AssignStaticIP, NextNode, Reachable
<1>4. CASE InitControlPlane
  <2>1. UNCHANGED <<sockets, vm, launched>> /\ inited' \in BOOLEAN
    BY <1>4 DEF InitControlPlane
  <2>2. CASE kpc' = "fatal" /\ UNCHANGED node
    BY <2>1, <2>2
  <2>3. CASE NextNode
    BY <1>4, <2>1, <2>3 DEF InitControlPlane, NextNode
  <2> QED BY <1>4, <2>2, <2>3 DEF InitControlPlane
<1>5. CASE GetJoinCommand
  BY <1>5 DEF GetJoinCommand
<1>6. CASE JoinNode
  BY <1>6 DEF JoinNode
<1>7. ASSUME NEW n \in Nodes, VMEnds(n) PROVE KubeInv'
  <2>1. /\ vm' \in [0..Workers -> {"off", "up", "hung"}]
        /\ \A m \in 0..Workers : vm'[m] = "hung" => vm[m] = "hung"
    BY <1>7 DEF VMEnds
  <2> QED BY <1>7, <2>1 DEF VMEnds
<1>8. CASE LauncherKilled
  <2>1. vm' \in [0..Workers -> {"off", "up", "hung"}] /\ sockets' \subseteq Nodes
    BY <1>8, AbandonedType DEF LauncherKilled
  <2> QED BY <1>8, <2>1 DEF LauncherKilled
<1>9. CASE UNCHANGED kubeVars
  BY <1>9 DEF kubeVars
<1> QED
  BY <1>1, <1>2, <1>3, <1>4, <1>5, <1>6, <1>7, <1>8, <1>9 DEF LauncherStep

LEMMA KubeInvariance == Spec => []KubeInv
<1>1. Init => KubeInv
  <2> SUFFICES ASSUME Init PROVE KubeInv
    OBVIOUS
  <2>1. 0 \in Nodes /\ vm \in [Nodes -> {"off"}]
    BY LauncherConstants DEF Init, LauncherInit, Nodes
  <2> QED BY <2>1 DEF Init, LauncherInit, KubeInv, LauncherTypeOK, Launching, Booted,
                      ControlPlane, KubeRest
<1>2. KubeInv /\ [Next]_vars => KubeInv'
  BY Parts, KubeNext
<1> QED BY <1>1, <1>2, PTL DEF Spec

\* Success is announced only if this run has started every node and reached the
\* guest of each (lines 254-290).
THEOREM AnnouncedBooted == Spec => []AnnouncedMeansBooted
<1>1. KubeInv => AnnouncedMeansBooted
  BY DEF KubeInv, Launching, Booted, AnnouncedMeansBooted
<1> QED BY KubeInvariance, <1>1, PTL

\* A socket file of the control plane that a run has left stops every later run
\* (lines 254-265).
THEOREM PathStaysTaken == Spec => TakenForGood
<1>1. ASSUME KubeInv, [Next]_vars, PathTaken PROVE PathTaken'
  <2> USE <1>1 DEF PathTaken, KubeRest, ControlPlane
  <2>1. CASE StartLauncher \/ UNCHANGED kubeVars
    BY <2>1 DEF StartLauncher, kubeVars
  <2>2. CASE LauncherStep
    BY <2>2 DEF LauncherStep, Launch, AssignStaticIP, InitControlPlane, GetJoinCommand,
                JoinNode, LauncherKilled, Abandoned
  <2>3. ASSUME NEW n \in Nodes, VMEnds(n) PROVE PathTaken'
    <3>1. kpc = "launch" => 0 \notin launched
      BY DEF KubeInv, Launching
    <3> QED BY <2>3, <3>1 DEF VMEnds
  <2> QED BY <2>1, <2>2, <2>3, Parts
<1>2. KubeInv /\ [Next]_vars => [PathTaken => PathTaken']_kubeVars
  BY <1>1
<1> QED BY KubeInvariance, <1>2, PTL DEF Spec, TakenForGood

-----------------------------------------------------------------------------
(***************************************************************************)
(* The other two programs.                                                  *)
(***************************************************************************)

\* A request for InstanceStart goes to a process that was given the drive, or to
\* one that was given nothing.
ClientsInv ==
  /\ ClientsTypeOK /\ alive \subseteq usocks
  /\ StartedWithDrive
  /\ cpc = "start" /\ fc = "open" => settings = {} \/ "drive" \in settings

LEMMA ClientsNext ==
  ASSUME ClientsInv,
         StartMachine \/ MachineStep \/ UNCHANGED machineVars,
         StartClient \/ ClientStep \/ UNCHANGED apiVars
  PROVE  ClientsInv'
<1> USE DEF ClientsInv, ClientsTypeOK, StartedWithDrive
<1> DEFINE MachinesOK ==
      /\ spc \in {"off", "running"} /\ gpc \in [VMs -> {"off", "launch", "up", "failed"}]
      /\ usocks \subseteq VMs /\ alive \subseteq VMs /\ stray \subseteq VMs
      /\ alive \subseteq usocks
<1>1. MachinesOK'
  <2>1. CASE StartMachine \/ UNCHANGED machineVars
    BY <2>1 DEF StartMachine, machineVars
  <2>2. CASE MachineEnds
    BY <2>2 DEF MachineEnds, LeftBy
  <2>3. ASSUME NEW v \in VMs, LaunchInstance(v) PROVE MachinesOK'
    BY <2>3 DEF LaunchInstance, LeftBy
  <2>4. ASSUME NEW v \in VMs, InstanceEnds(v) \/ StrayEnds(v) PROVE MachinesOK'
    BY <2>4 DEF InstanceEnds, StrayEnds
  <2> QED BY <2>1, <2>2, <2>3, <2>4 DEF MachineStep
<1> DEFINE ApiOK ==
      /\ cpc \in ClientRest \cup {"machine", "boot", "drive", "start"}
      /\ fc \in {"none", "open", "started"}
      /\ settings \subseteq {"machine", "boot", "drive"}
      /\ StartedWithDrive
      /\ cpc = "start" /\ fc = "open" => settings = {} \/ "drive" \in settings
<1>2. ApiOK'
  <2> USE DEF ClientRest
  <2>1. CASE StartClient \/ ProcessStarts \/ ProcessEnds \/ UNCHANGED apiVars
    BY <2>1 DEF StartClient, ProcessStarts, ProcessEnds, apiVars
  <2>2. ASSUME NEW s \in {"machine", "boot", "drive"}, Put(s) PROVE ApiOK'
    BY <2>2 DEF Put, Following
  <2>3. CASE InstanceStart
    BY <2>3 DEF InstanceStart
  <2> QED BY <2>1, <2>2, <2>3 DEF ClientStep
<1> QED BY <1>1, <1>2

LEMMA ClientsInvariance == Spec => []ClientsInv
<1>1. Init => ClientsInv
  BY DEF Init, ClientsInit, ClientsInv, ClientsTypeOK, StartedWithDrive, ClientRest
<1>2. ClientsInv /\ [Next]_vars => ClientsInv'
  BY Parts, ClientsNext
<1> QED BY <1>1, <1>2, PTL DEF Spec

\* A guest started by start-vm.go has its kernel and its root drive, whenever the
\* process was replaced (lines 78-99).
THEOREM StartedHasDrive == Spec => []StartedWithDrive
<1>1. ClientsInv => StartedWithDrive
  BY DEF ClientsInv
<1> QED BY ClientsInvariance, <1>1, PTL

\* A microVM whose Start has returned is not started again while it lives, by any later
\* run, whatever Starts that failed or were cut short have left (lines 38-44, 90-102).
THEOREM NoSecondStart == Spec => NotStartedTwice
<1>1. ClientsInv /\ [Next]_vars
      => [\A v \in VMs : gpc[v] = "launch" /\ gpc'[v] = "up" => v \notin alive]_machineVars
  <2> SUFFICES ASSUME ClientsInv, [Next]_vars, NEW v \in VMs,
                      gpc[v] = "launch", gpc'[v] = "up"
               PROVE  v \notin alive
    OBVIOUS
  <2>1. ~StartMachine /\ ~MachineEnds /\ ~UNCHANGED machineVars
    BY DEF StartMachine, MachineEnds, machineVars
  <2>2. PICK w \in VMs : LaunchInstance(w) \/ InstanceEnds(w) \/ StrayEnds(w)
    BY <2>1, Parts DEF MachineStep
  <2>3. v = w /\ LaunchInstance(w) /\ w \notin usocks
    BY <2>2 DEF LaunchInstance, InstanceEnds, StrayEnds, ClientsInv, ClientsTypeOK
  <2> QED BY <2>3 DEF ClientsInv
<1> QED BY ClientsInvariance, <1>1, PTL DEF Spec, NotStartedTwice

-----------------------------------------------------------------------------
\* The variables of all four programs keep their types.
THEOREM TypeCorrect == Spec => []TypeOK
<1> DEFINE Count == runs \in 0..MaxRuns
<1>1. Init => Count
  BY HostBounds DEF Init
<1>2. Count /\ [Next]_vars => Count'
  <2> SUFFICES ASSUME Count, [Next]_vars PROVE Count'
    OBVIOUS
  <2>1. runs' = runs \/ (runs < MaxRuns /\ runs' = runs + 1)
    BY Parts
  <2> QED BY <2>1, HostBounds
<1>3. Count /\ BuildInv /\ KubeInv /\ ClientsInv => TypeOK
  BY DEF BuildInv, KubeInv, ClientsInv, TypeOK
<1> QED
  BY BuildInvariance, KubeInvariance, ClientsInvariance, <1>1, <1>2, <1>3, PTL DEF Spec
=============================================================================
