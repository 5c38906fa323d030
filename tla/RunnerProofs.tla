----------------------------- MODULE RunnerProofs -----------------------------
(***************************************************************************)
(* Theorems about Runner, for any bound on the starts.                       *)
(*                                                                          *)
(* The type invariant is proved in three parts: what the files may hold,     *)
(* the processes and what names them, and the image that guests and mounts   *)
(* rest on.                                                                  *)
(***************************************************************************)
EXTENDS Runner, TLAPS

FilesOK ==
  /\ pc \in BuildSteps \cup {"idle", "built", "cleanNet", "cleanFiles"}
  /\ kernel \in BOOLEAN /\ temp \in BOOLEAN /\ mounted \in BOOLEAN
  /\ whole \in BOOLEAN /\ tap \in BOOLEAN
  /\ rootfs \in {"none", "empty", "partial", "short", "copied", "corrupt"}
  /\ cfg \in {"none", "tap-microvm", "tap0"}

ProcsOK ==
  /\ count \in 0..MaxVMs
  /\ sock \in 0..count /\ pidFile \in [PidFiles -> 0..count]
  /\ vm \in [VMs -> {"none", "launched", "up", "cutOff", "dead"}]
  /\ \A v \in VMs : vm[v] = "none" <=> v > count
  /\ alone \in [VMs -> BOOLEAN]

ImageOK ==
  /\ stale \subseteq Guests
  /\ mounted \/ Alive # {} => rootfs # "none"

LEMMA TypeParts == TypeOK <=> FilesOK /\ ProcsOK /\ ImageOK
  BY DEF TypeOK, FilesOK, ProcsOK, ImageOK

LEMMA Sizes == MaxVMs \in Nat /\ VMs = 1..MaxVMs
  BY RunnerConstantsOK DEF VMs

LEMMA InitTypeOK == Init => TypeOK
<1> SUFFICES ASSUME Init PROVE TypeOK
  OBVIOUS
<1>1. FilesOK
  BY DEF Init, FilesOK
<1>2. ProcsOK
  BY Sizes DEF Init, ProcsOK
<1>3. Guests = {} /\ Alive = {}
  BY DEF Init, Guests, Alive
<1>4. ImageOK
  BY <1>3 DEF Init, ImageOK
<1> QED BY <1>1, <1>2, <1>4, TypeParts

LEMMA NextFilesOK == FilesOK /\ [Next]_vars => FilesOK'
<1> SUFFICES ASSUME FilesOK, [Next]_vars PROVE FilesOK'
  OBVIOUS
<1>1. CASE Build
  <2>1. CASE ExportContainer
    <3>1. whole' \in BOOLEAN
      BY <2>1, RunnerConstantsOK DEF ExportContainer
    <3> QED BY <2>1, <3>1
        DEF ExportContainer, hostFrame, Step, BuildSteps, FilesOK
  <2>2. CASE FillImage
    <3>1. rootfs' \in {"copied", "short", "corrupt"}
      BY <2>2 DEF FillImage
    <3> QED BY <2>2, <3>1 DEF FillImage, hostFrame, Step, BuildSteps, FilesOK
  <2>3. CASE BuildFails \/ FormatImage \/ MountImage \/ UnmountImage
    BY <2>3
    DEF BuildFails, FormatImage, MountImage, UnmountImage, hostFrame, Step,
        BuildSteps, FilesOK
  <2>4. CASE DockerBuild
    BY <2>4 DEF DockerBuild, hostFrame, buildVars, Step, BuildSteps, FilesOK
  <2>5. CASE DockerBuilt
    BY <2>5 DEF DockerBuilt, hostFrame, buildVars, Step, BuildSteps, FilesOK
  <2>6. CASE CreateContainer
    BY <2>6 DEF CreateContainer, hostFrame, buildVars, Step, BuildSteps, FilesOK
  <2>7. CASE RemoveContainer
    BY <2>7 DEF RemoveContainer, hostFrame, buildVars, Step, BuildSteps, FilesOK
  <2>8. CASE WriteVMConfig
    BY <2>8 DEF WriteVMConfig, hostFrame, buildVars, Step, BuildSteps, FilesOK
  <2>9. CASE BuildReturns
    BY <2>9 DEF BuildReturns, hostFrame, buildVars, Step, BuildSteps, FilesOK
  <2> QED
    BY <1>1, <2>1, <2>2, <2>3, <2>4, <2>5, <2>6, <2>7, <2>8, <2>9 DEF Build
<1>2. CASE Command
  <2>1. CASE SetupNetwork \/ StartVM \/ CleanupNet \/ CleanTaps
    BY <2>1
    DEF SetupNetwork, StartVM, Launch, CleanupNet, DeleteTap, CleanTaps, buildVars,
        Step, BuildSteps, FilesOK
  <2>2. CASE \/ CleanupFiles \/ KillProcesses
             \/ \E next \in {"idle", "cleanNet"} : StopVM(next)
             \/ \E f \in PidFiles : RemovePidFile(f)
    BY <2>2
    DEF StopVM, CleanupFiles, KillProcesses, RemovePidFile, hostFrame, buildVars,
        Step, BuildSteps, FilesOK
  <2> QED BY <1>2, <2>1, <2>2 DEF Command
<1>3. CASE Host
  <2>1. CASE \E v \in VMs : Boot(v) \/ BootFails(v)
    BY <2>1 DEF Boot, BootFails, buildVars, FilesOK
  <2>2. CASE \E v \in VMs : Halt(v) \/ GuestWrites(v)
    BY <2>2 DEF Halt, GuestWrites, hostFrame, FilesOK
  <2>3. CASE Reboot
    BY <2>3 DEF Reboot, FilesOK
  <2> QED BY <1>3, <2>1, <2>2, <2>3 DEF Host
<1>4. CASE UNCHANGED vars
  BY <1>4 DEF vars, buildVars, FilesOK
<1> QED BY <1>1, <1>2, <1>3, <1>4 DEF Next

\* A signal ends processes and starts none.
LEMMA KillProcsOK ==
  ASSUME ProcsOK, NEW P, Kill(P)
  PROVE  /\ vm' \in [VMs -> {"none", "launched", "up", "cutOff", "dead"}]
         /\ \A v \in VMs : vm'[v] = "none" <=> vm[v] = "none"
  BY DEF Kill, ProcsOK, Alive

LEMMA KillImageOK ==
  ASSUME ImageOK, ProcsOK, NEW P, Kill(P), rootfs' = rootfs,
         mounted' = mounted \/ mounted' = FALSE
  PROVE  ImageOK'
<1>1. \A v \in VMs : v \in Guests' <=> v \in Guests /\ v \notin P
  BY DEF Kill, ProcsOK, Guests, Alive
<1>2. Guests \subseteq VMs /\ Guests' \subseteq VMs
  BY DEF Guests, VMs
<1>3. Alive' \subseteq Alive
  BY DEF Kill, ProcsOK, Alive
<1> QED BY <1>1, <1>2, <1>3 DEF Kill, ImageOK

\* Without its device a guest is a guest.
LEMMA DeleteTapOK ==
  ASSUME ProcsOK, DeleteTap
  PROVE  /\ vm' \in [VMs -> {"none", "launched", "up", "cutOff", "dead"}]
         /\ \A v \in VMs : vm'[v] = "none" <=> vm[v] = "none"
         /\ Guests' = Guests /\ Alive' = Alive
<1>1. vm' = [v \in VMs |-> IF vm[v] = "up" THEN "cutOff" ELSE vm[v]]
  BY DEF DeleteTap
<1>2. Guests' = {v \in VMs : vm'[v] \in {"up", "cutOff"}}
  BY DEF Guests, VMs
<1>3. Alive' = {v \in VMs : vm'[v] \in {"launched", "up", "cutOff"}}
  BY DEF Alive, VMs
<1> QED BY <1>1, <1>2, <1>3 DEF ProcsOK, Guests, Alive

LEMMA BuildFrame == Build => UNCHANGED <<tap, sock, pidFile, vm, count, alone>>
  BY DEF Build, DockerBuild, DockerBuilt, CreateContainer, ExportContainer,
         RemoveContainer, FormatImage, MountImage, FillImage, UnmountImage,
         WriteVMConfig, BuildReturns, BuildFails, hostFrame, vmVars

LEMMA NextProcsOK == ProcsOK /\ [Next]_vars => ProcsOK'
<1> SUFFICES ASSUME ProcsOK, [Next]_vars PROVE ProcsOK'
  OBVIOUS
<1> USE Sizes
<1>Build. CASE Build
  BY <1>Build, BuildFrame DEF ProcsOK
<1>SetupNetwork. CASE SetupNetwork
  BY <1>SetupNetwork DEF SetupNetwork, vmVars, ProcsOK
<1>StartVM. CASE StartVM
  <2>1. /\ count' = count + 1 /\ count < MaxVMs /\ sock' = 0
        /\ vm' = [vm EXCEPT ![count'] = "launched"]
        /\ alone' = [alone EXCEPT ![count'] = (Alive = {})]
        /\ pidFile' = [pidFile EXCEPT !["microvm.pid"] = count']
    BY <1>StartVM DEF StartVM, Launch
  <2>2. count' \in 0..MaxVMs /\ count' \in VMs /\ sock' \in 0..count'
    BY <2>1 DEF ProcsOK
  <2>3. pidFile' \in [PidFiles -> 0..count']
    <3>1. \A f \in PidFiles : pidFile[f] \in 0..count'
      BY <2>1 DEF ProcsOK
    <3>2. count' \in 0..count'
      BY <2>2
    <3> QED BY <2>1, <3>1, <3>2 DEF ProcsOK
  <2>4. vm' \in [VMs -> {"none", "launched", "up", "cutOff", "dead"}]
    BY <2>1 DEF ProcsOK
  <2>5. \A v \in VMs : vm'[v] = "none" <=> v > count'
    BY <2>1, <2>2 DEF ProcsOK
  <2>6. (Alive = {}) \in BOOLEAN
    OBVIOUS
  <2>7. alone' \in [VMs -> BOOLEAN]
    BY <2>1, <2>6 DEF ProcsOK
  <2> QED BY <2>2, <2>3, <2>4, <2>5, <2>7 DEF ProcsOK
<1>StopVM. ASSUME NEW next, StopVM(next) PROVE ProcsOK'
  <2>1. /\ Kill({pidFile["firecracker-microvm.pid"]})
        /\ pidFile' = [pidFile EXCEPT !["firecracker-microvm.pid"] = 0]
        /\ sock' = 0 /\ UNCHANGED <<count, alone>>
    BY <1>StopVM DEF StopVM
  <2>2. pidFile' \in [PidFiles -> 0..count'] /\ sock' \in 0..count'
    <3>1. 0 \in 0..count /\ count' = count
      BY <2>1 DEF ProcsOK
    <3>2. pidFile' \in [PidFiles -> 0..count]
      BY <2>1, <3>1 DEF ProcsOK
    <3> QED BY <2>1, <3>1, <3>2
  <2>3. /\ vm' \in [VMs -> {"none", "launched", "up", "cutOff", "dead"}]
        /\ \A v \in VMs : vm'[v] = "none" <=> vm[v] = "none"
    BY <2>1, KillProcsOK
  <2>4. \A v \in VMs : vm'[v] = "none" <=> v > count'
    BY <2>1, <2>3 DEF ProcsOK
  <2> QED BY <2>1, <2>2, <2>3, <2>4 DEF ProcsOK
<1>CleanupNet. CASE CleanupNet
  <2>1. DeleteTap \/ vm' = vm
    BY <1>CleanupNet DEF CleanupNet
  <2> QED BY <1>CleanupNet, <2>1, DeleteTapOK DEF CleanupNet, ProcsOK
<1>CleanupFiles. CASE CleanupFiles
  BY <1>CleanupFiles DEF CleanupFiles, hostFrame, vmVars, ProcsOK
<1>KillProcesses. CASE KillProcesses
  BY <1>KillProcesses, KillProcsOK DEF KillProcesses, ProcsOK
<1>CleanTaps. CASE CleanTaps
  BY <1>CleanTaps, DeleteTapOK DEF CleanTaps, ProcsOK
<1>RemovePidFile. ASSUME NEW f \in PidFiles, RemovePidFile(f) PROVE ProcsOK'
  BY <1>RemovePidFile DEF RemovePidFile, vmVars, ProcsOK
<1>Boot. ASSUME NEW v \in VMs, Boot(v) PROVE ProcsOK'
  BY <1>Boot DEF Boot, ProcsOK
<1>BootFails. ASSUME NEW v \in VMs, BootFails(v) PROVE ProcsOK'
  <2>1. v \in 0..count
    BY <1>BootFails DEF BootFails, ProcsOK
  <2>2. sock' \in 0..count'
    BY <1>BootFails, <2>1 DEF BootFails, ProcsOK
  <2> QED BY <1>BootFails, <2>2 DEF BootFails, ProcsOK
<1>Halt. ASSUME NEW v \in VMs, Halt(v) PROVE ProcsOK'
  BY <1>Halt, KillProcsOK DEF Halt, ProcsOK
<1>GuestWrites. ASSUME NEW v \in VMs, GuestWrites(v) PROVE ProcsOK'
  BY <1>GuestWrites DEF GuestWrites, hostFrame, vmVars, ProcsOK
<1>Reboot. CASE Reboot
  BY <1>Reboot, KillProcsOK DEF Reboot, ProcsOK
<1>stutter. CASE UNCHANGED vars
  BY <1>stutter DEF vars, vmVars, ProcsOK
<1> QED
  BY <1>Build, <1>SetupNetwork, <1>StartVM, <1>StopVM, <1>CleanupNet,
     <1>CleanupFiles, <1>KillProcesses, <1>CleanTaps, <1>RemovePidFile,
     <1>Boot, <1>BootFails, <1>Halt, <1>GuestWrites, <1>Reboot, <1>stutter
  DEF Next, Command, Host

\* How far a build that is under way has brought the image.
BuildOK ==
  /\ pc \in {"mount", "fill"} => rootfs # "none"
  /\ pc \in {"unmount", "config", "built"}
       => rootfs \in {"short", "copied", "corrupt"}
  /\ pc \in {"config", "built"} => ~mounted

LEMMA NextBuildOK == BuildOK /\ [Next]_vars => BuildOK'
<1> SUFFICES ASSUME BuildOK, [Next]_vars PROVE BuildOK'
  OBVIOUS
<1>1. CASE Build
  <2>1. CASE FillImage
    <3>1. pc' = "unmount" /\ rootfs' \in {"copied", "short", "corrupt"}
      BY <2>1 DEF FillImage, Step
    <3> QED BY <3>1 DEF BuildOK
  <2>2. CASE DockerBuild \/ DockerBuilt \/ CreateContainer \/ ExportContainer
             \/ RemoveContainer \/ BuildFails
    <3>1. pc' \in {"dockerBuild", "create", "export", "remove", "format", "idle"}
      BY <2>2
      DEF DockerBuild, DockerBuilt, CreateContainer, ExportContainer,
          RemoveContainer, BuildFails, Step
    <3> QED BY <3>1 DEF BuildOK
  <2>3. CASE FormatImage \/ MountImage
    BY <2>3 DEF FormatImage, MountImage, Step, BuildOK
  <2>4. CASE UnmountImage \/ WriteVMConfig \/ BuildReturns
    BY <2>4 DEF UnmountImage, WriteVMConfig, BuildReturns, buildVars, Step, BuildOK
  <2> QED BY <1>1, <2>1, <2>2, <2>3, <2>4 DEF Build
<1>2. CASE Command
  <2>1. pc' \in {"idle", "cleanNet", "cleanFiles"}
    BY <1>2
    DEF Command, SetupNetwork, StartVM, Launch, StopVM, CleanupNet,
        CleanupFiles, KillProcesses, CleanTaps, RemovePidFile, Step
  <2> QED BY <2>1 DEF BuildOK
<1>3. CASE Host
  <2>1. CASE \E v \in VMs : Boot(v) \/ BootFails(v)
    BY <2>1 DEF Boot, BootFails, buildVars, BuildOK
  <2>2. CASE \E v \in VMs : Halt(v) \/ GuestWrites(v)
    <3>1. /\ pc' = pc /\ mounted' = mounted
          /\ rootfs' = rootfs \/ rootfs' = "corrupt"
      BY <2>2 DEF Halt, GuestWrites
    <3> QED BY <3>1 DEF BuildOK
  <2>3. CASE Reboot
    BY <2>3 DEF Reboot, BuildOK
  <2> QED BY <1>3, <2>1, <2>2, <2>3 DEF Host
<1>4. CASE UNCHANGED vars
  BY <1>4 DEF vars, buildVars, BuildOK
<1> QED BY <1>1, <1>2, <1>3, <1>4 DEF Next

LEMMA NextImageOK ==
  TypeOK /\ BuildOK /\ [Next]_vars => ImageOK'
<1> SUFFICES ASSUME FilesOK, ProcsOK, ImageOK, BuildOK, [Next]_vars
             PROVE  ImageOK'
  BY TypeParts
<1>Build. CASE Build
  <2>1. Guests' = Guests /\ Alive' = Alive
    BY <1>Build, BuildFrame DEF Guests, Alive
  <2>2. CASE FormatImage \/ BuildFails
    BY <2>1, <2>2 DEF FormatImage, BuildFails, ImageOK
  <2>3. CASE MountImage
    BY <2>1, <2>3 DEF MountImage, Step, ImageOK, BuildOK
  <2>4. CASE ~(FormatImage \/ BuildFails \/ MountImage)
    <3>1. /\ stale' = stale
          /\ rootfs' # "none" \/ rootfs' = rootfs
          /\ mounted' = mounted \/ mounted' = FALSE
      BY <1>Build, <2>4
      DEF Build, DockerBuild, DockerBuilt, CreateContainer, ExportContainer,
          RemoveContainer, FillImage, UnmountImage, WriteVMConfig,
          BuildReturns, buildVars
    <3> QED BY <2>1, <3>1 DEF ImageOK
  <2> QED BY <2>2, <2>3, <2>4
<1>Signals. CASE \/ \E next : StopVM(next)
                 \/ KillProcesses \/ \E v \in VMs : Halt(v)
                 \/ Reboot
  <2>1. /\ \E P : Kill(P)
        /\ rootfs' = rootfs /\ (mounted' = mounted \/ mounted' = FALSE)
    BY <1>Signals DEF StopVM, KillProcesses, Halt, Reboot
  <2> QED BY <2>1, KillImageOK
<1>Taps. CASE CleanupNet \/ CleanTaps
  <2>1. (DeleteTap \/ vm' = vm) /\ UNCHANGED <<rootfs, mounted, stale>>
    BY <1>Taps DEF CleanupNet, CleanTaps, buildVars
  <2>2. Guests' = Guests /\ Alive' = Alive
    BY <2>1, DeleteTapOK DEF Guests, Alive
  <2> QED BY <2>1, <2>2 DEF ImageOK
<1>StartVM. CASE StartVM
  <2>1. /\ rootfs # "none" /\ UNCHANGED <<rootfs, mounted, stale>>
        /\ count' = count + 1 /\ vm' = [vm EXCEPT ![count'] = "launched"]
    BY <1>StartVM DEF StartVM, Launch, buildVars
  <2>2. \A v \in VMs : v > count => vm[v] = "none"
    BY DEF ProcsOK
  <2>3. Guests' = Guests
    BY <2>1, <2>2, Sizes DEF ProcsOK, Guests
  <2> QED BY <2>1, <2>3 DEF ImageOK
<1>Boot. ASSUME NEW v \in VMs, Boot(v) \/ BootFails(v) PROVE ImageOK'
  <2>1. /\ v \notin Guests /\ v \in Alive /\ UNCHANGED <<rootfs, mounted, stale>>
        /\ vm' = [vm EXCEPT ![v] = "up"] \/ vm' = [vm EXCEPT ![v] = "dead"]
    BY <1>Boot DEF Boot, BootFails, Guests, Alive, buildVars
  <2>2. Guests \subseteq Guests' /\ Alive' \subseteq Alive
    BY <2>1 DEF ProcsOK, Guests, Alive
  <2> QED BY <2>1, <2>2 DEF ImageOK
<1>others. CASE \/ SetupNetwork \/ CleanupFiles
                \/ \E f \in PidFiles : RemovePidFile(f)
                \/ \E v \in VMs : GuestWrites(v)
                \/ UNCHANGED vars
  <2>1. /\ UNCHANGED <<vm, mounted, stale>>
        /\ rootfs' = rootfs \/ rootfs' = "corrupt"
    BY <1>others
    DEF SetupNetwork, CleanupFiles, RemovePidFile, GuestWrites, hostFrame,
        buildVars, vmVars, vars
  <2>2. Guests' = Guests /\ Alive' = Alive
    BY <2>1 DEF Guests, Alive
  <2> QED BY <2>1, <2>2 DEF ImageOK
<1> QED
  BY <1>Build, <1>Signals, <1>Taps, <1>StartVM, <1>Boot, <1>others
  DEF Next, Command, Host

-----------------------------------------------------------------------------
\* As long as the latest process, launched when no other was alive, has not
\* made its socket, all the others are dead, and so nobody can.
LonelyOK ==
  \A v \in VMs : vm[v] = "launched" /\ alone[v] /\ v = count =>
    /\ sock = 0
    /\ \A w \in VMs : w # v => vm[w] \in {"none", "dead"}

LEMMA NextLonelyOK == TypeOK /\ LonelyOK /\ [Next]_vars => LonelyOK'
<1> SUFFICES ASSUME ProcsOK, LonelyOK, [Next]_vars PROVE LonelyOK'
  BY TypeParts
<1>StartVM. CASE StartVM
  <2>1. /\ count' = count + 1 /\ count' \in VMs /\ sock' = 0
        /\ vm' = [vm EXCEPT ![count'] = "launched"]
        /\ alone' = [alone EXCEPT ![count'] = (Alive = {})]
    BY <1>StartVM, Sizes DEF StartVM, Launch, ProcsOK
  <2>2. ASSUME alone'[count'], NEW w \in VMs, w # count'
        PROVE  vm'[w] \in {"none", "dead"}
    <3>1. Alive = {}
      BY <2>1, <2>2 DEF ProcsOK
    <3>2. vm[w] \in {"none", "dead"}
      BY <3>1 DEF Alive, ProcsOK
    <3> QED BY <2>1, <2>2, <3>2 DEF ProcsOK
  <2> QED BY <2>1, <2>2 DEF LonelyOK
<1>Ending. ASSUME UNCHANGED <<count, alone>>, sock' = sock \/ sock' = 0,
                  \A v \in VMs : vm'[v] = vm[v] \/ vm'[v] = "dead"
                       \/ (vm[v] = "up" /\ vm'[v] = "cutOff")
           PROVE  LonelyOK'
  <2>1. \A v \in VMs : vm'[v] = "launched" => vm[v] = "launched"
    BY <1>Ending
  <2>2. \A v \in VMs : vm[v] \in {"none", "dead"} => vm'[v] \in {"none", "dead"}
    BY <1>Ending
  <2> QED BY <1>Ending, <2>1, <2>2 DEF LonelyOK
<1>Boot. ASSUME NEW u \in VMs, Boot(u) \/ BootFails(u) PROVE LonelyOK'
  <2>1. /\ UNCHANGED <<count, alone>> /\ vm[u] = "launched"
        /\ vm' = [vm EXCEPT ![u] = "up"] \/ vm' = [vm EXCEPT ![u] = "dead"]
    BY <1>Boot DEF Boot, BootFails
  <2>2. ASSUME NEW v \in VMs, vm'[v] = "launched", alone'[v], v = count'
        PROVE  FALSE
    <3>1. v # u /\ vm[v] = "launched" /\ alone[v] /\ v = count
      BY <2>1, <2>2 DEF ProcsOK
    <3>2. vm[u] \in {"none", "dead"}
      BY <3>1 DEF LonelyOK
    <3> QED BY <2>1, <3>2
  <2> QED BY <2>2 DEF LonelyOK
<1>Build. CASE Build
  <2>1. UNCHANGED <<vm, count, alone, sock>>
    BY <1>Build, BuildFrame
  <2> QED BY <2>1, <1>Ending
<1>Signals. ASSUME NEW P, Kill(P), UNCHANGED <<count, alone>>,
                   sock' = sock \/ sock' = 0
            PROVE  LonelyOK'
  <2>1. \A v \in VMs : vm'[v] = vm[v] \/ vm'[v] = "dead"
    BY <1>Signals DEF Kill
  <2> QED BY <2>1, <1>Signals, <1>Ending
<1>Taps. CASE CleanupNet \/ CleanTaps
  <2>1. \A v \in VMs : vm'[v] = vm[v] \/ (vm[v] = "up" /\ vm'[v] = "cutOff")
    BY <1>Taps DEF CleanupNet, CleanTaps, DeleteTap
  <2> QED BY <1>Taps, <2>1, <1>Ending DEF CleanupNet, CleanTaps
<1>killers. CASE \/ \E next : StopVM(next)
                 \/ KillProcesses \/ \E v \in VMs : Halt(v)
                 \/ Reboot
  <2>1. /\ \E P : Kill(P)
        /\ UNCHANGED <<count, alone>> /\ (sock' = sock \/ sock' = 0)
    BY <1>killers DEF StopVM, KillProcesses, Halt, Reboot
  <2> QED BY <2>1, <1>Signals
<1>others. CASE \/ SetupNetwork \/ CleanupFiles
                \/ \E f \in PidFiles : RemovePidFile(f)
                \/ \E v \in VMs : GuestWrites(v)
                \/ UNCHANGED vars
  <2>1. UNCHANGED <<vm, count, alone, sock>>
    BY <1>others
    DEF SetupNetwork, CleanupFiles, RemovePidFile, GuestWrites, hostFrame,
        vmVars, vars
  <2> QED BY <2>1, <1>Ending
<1> QED
  BY <1>StartVM, <1>Boot, <1>Build, <1>Taps, <1>killers, <1>others
  DEF Next, Command, Host

Inv == TypeOK /\ BuildOK /\ LonelyOK

LEMMA SpecInv == Spec => []Inv
<1>1. Init => Inv
  <2>1. Init => BuildOK /\ LonelyOK
    BY DEF Init, BuildOK, LonelyOK
  <2> QED BY <2>1, InitTypeOK DEF Inv
<1>2. Inv /\ [Next]_vars => Inv'
  <2> SUFFICES ASSUME Inv, [Next]_vars PROVE Inv'
    OBVIOUS
  <2>1. FilesOK' /\ ProcsOK' /\ ImageOK'
    BY TypeParts, NextFilesOK, NextProcsOK, NextImageOK DEF Inv
  <2>2. TypeOK'
    BY <2>1 DEF TypeOK, FilesOK, ProcsOK, ImageOK
  <2> QED BY <2>2, NextBuildOK, NextLonelyOK DEF Inv
<1> QED BY <1>1, <1>2, PTL DEF Spec

\* Every state of the scripts and the processes is well-typed; in particular a
\* mount and a process always have an image.
THEOREM TypeCorrect == Spec => []TypeOK
  BY SpecInv, PTL DEF Inv

\* "Build complete" is said only of an image that holds all that tar had unpacked, the
\* dotfiles of its root apart, or that a guest has written to; not that tar had all.
THEOREM BuildIsCopied == Spec => []BuiltMeansCopied
<1>1. Inv => BuiltMeansCopied
  BY DEF Inv, BuildOK, BuiltMeansCopied
<1> QED BY <1>1, SpecInv, PTL

\* No leftover socket stands in the way of a start on a quiet host.
THEOREM FreshStartBinds == Spec => []LonelyStartBinds
<1>1. Inv => LonelyStartBinds
  BY DEF Inv, LonelyOK, LonelyStartBinds
<1> QED BY <1>1, SpecInv, PTL

\* A name left over while no build is past docker create.
Wedged ==
  temp /\ pc \in {"idle", "dockerBuild", "create", "cleanNet", "cleanFiles"}

\* A build that left its container behind is the last that gets to the end.
THEOREM WedgeLasts == Spec => WedgedForGood
<1>1. Wedged /\ [Next]_vars => Wedged'
  <2> SUFFICES ASSUME Wedged, [Next]_vars PROVE Wedged'
    OBVIOUS
  <2>1. CASE Build
    BY <2>1
    DEF Build, DockerBuild, DockerBuilt, CreateContainer, ExportContainer,
        RemoveContainer, FormatImage, MountImage, FillImage, UnmountImage,
        WriteVMConfig, BuildReturns, BuildFails, buildVars, Step, Wedged
  <2>2. CASE Command
    BY <2>2
    DEF Command, SetupNetwork, StartVM, Launch, StopVM, CleanupNet,
        CleanupFiles, KillProcesses, CleanTaps, RemovePidFile, buildVars,
        Step, Wedged
  <2>3. CASE Host
    BY <2>3
    DEF Host, Boot, BootFails, Halt, GuestWrites, Reboot, buildVars, Wedged
  <2>4. CASE UNCHANGED vars
    BY <2>4 DEF vars, buildVars, Wedged
  <2> QED BY <2>1, <2>2, <2>3, <2>4 DEF Next
<1>2. temp /\ pc = "idle" => Wedged
  BY DEF Wedged
<1>3. Wedged => pc # "built"
  BY DEF Wedged
<1> QED BY <1>1, <1>2, <1>3, PTL DEF Spec, WedgedForGood
=============================================================================
