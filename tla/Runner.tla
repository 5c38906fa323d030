-------------------------------- MODULE Runner --------------------------------
(***************************************************************************)
(* The scripts of src/bootable-container: microvm_runner.sh, which builds a  *)
(* root image, sets up a TAP device and starts and stops one microVM,        *)
(* docker_to_ext4.sh, which its build calls, and cleanup.sh.  One operator   *)
(* types commands one after the other; the firecracker processes that        *)
(* `start' puts in the background run beside them.  Both scripts that build  *)
(* run under `set -e', and ^C or a reboot may come at any step.  As in       *)
(* STEPS.md, `start' runs without root, and ./tmp exists.                    *)
(***************************************************************************)
EXTENDS Naturals

CONSTANTS
  MaxVMs,   \* bound on the number of starts
  Faults    \* whether a command may fail or be interrupted, a host rebooted

ASSUME RunnerConstantsOK == MaxVMs \in Nat /\ Faults \in BOOLEAN

VARIABLES
  pc,       \* the command under way and its step
  kernel,   \* whether vmlinux.bin is there
  temp,     \* whether a container named temp-container exists
  whole,    \* whether tar has unpacked all of the container
  rootfs,   \* what rootfs.ext4 holds
  mounted,  \* whether it is loop-mounted
  cfg,      \* the TAP device that vm-config.json names, or "none"
  tap,      \* whether tap-microvm exists
  sock,     \* the process that made ./tmp/microvm.socket, 0 if there is none
  pidFile,  \* the process each pid file names, 0 if there is none
  count,    \* firecracker processes launched so far
  vm,       \* their states
  stale,    \* guests whose image was formatted anew under them
  alone     \* history: no other process was alive when this one was launched

buildVars == <<kernel, whole, temp, rootfs, mounted, stale>>
vmVars    == <<vm, count, alone>>
vars      == <<pc, buildVars, cfg, tap, sock, pidFile, vmVars>>

VMs    == 1..MaxVMs
Guests == {v \in VMs : vm[v] \in {"up", "cutOff"}}
Alive  == {v \in VMs : vm[v] \in {"launched", "up", "cutOff"}}

BuildSteps == {"dockerBuild", "create", "export", "remove", "format", "mount",
               "fill", "unmount", "config"}
PidFiles   == {"microvm.pid", "firecracker-microvm.pid"}

TypeOK ==
  /\ pc \in BuildSteps \cup {"idle", "built", "cleanNet", "cleanFiles"}
  /\ kernel \in BOOLEAN /\ temp \in BOOLEAN /\ mounted \in BOOLEAN
  /\ whole \in BOOLEAN /\ tap \in BOOLEAN
  /\ rootfs \in {"none", "empty", "partial", "short", "copied", "corrupt"}
  /\ cfg \in {"none", "tap-microvm", "tap0"}
  /\ count \in 0..MaxVMs
  /\ sock \in 0..count /\ pidFile \in [PidFiles -> 0..count]
  /\ vm \in [VMs -> {"none", "launched", "up", "cutOff", "dead"}]
  /\ \A v \in VMs : vm[v] = "none" <=> v > count
  /\ alone \in [VMs -> BOOLEAN]
  /\ stale \subseteq Guests
  /\ mounted \/ Alive # {} => rootfs # "none"

\* A fresh checkout, whose vm-config.json names tap-microvm.  No script brings
\* the kernel: the operator has put it there, or not.
Init ==
  /\ pc = "idle" /\ kernel \in BOOLEAN /\ temp = FALSE
  /\ whole = TRUE /\ rootfs = "none" /\ mounted = FALSE /\ stale = {}
  /\ cfg = "tap-microvm" /\ tap = FALSE /\ sock = 0
  /\ pidFile = [f \in PidFiles |-> 0]
  /\ count = 0 /\ vm = [v \in VMs |-> "none"] /\ alone = [v \in VMs |-> FALSE]

\* Processes of P get a signal that they do not survive.
Kill(P) ==
  /\ vm' = [v \in VMs |-> IF v \in P \cap Alive THEN "dead" ELSE vm[v]]
  /\ stale' = stale \ P

-----------------------------------------------------------------------------
(* build: docker build, then docker_to_ext4.sh.                             *)

Step(from, to) == pc = from /\ pc' = to
hostFrame      == UNCHANGED <<tap, sock, pidFile, vmVars>>

DockerBuild ==
  /\ Step("idle", "dockerBuild")
  /\ UNCHANGED <<buildVars, cfg>> /\ hostFrame

DockerBuilt ==
  /\ Step("dockerBuild", "create")
  /\ UNCHANGED <<buildVars, cfg>> /\ hostFrame

\* docker create refuses a name that is in use.
CreateContainer ==
  /\ Step("create", "export")
  /\ ~temp /\ temp' = TRUE
  /\ UNCHANGED <<kernel, whole, rootfs, mounted, stale, cfg>> /\ hostFrame

\* `docker export | tar': the status is tar's, so that an export that breaks off
\* between two files goes unnoticed.
ExportContainer ==
  /\ Step("export", "remove")
  /\ whole' \in {TRUE, ~Faults}
  /\ UNCHANGED <<kernel, temp, rootfs, mounted, stale, cfg>> /\ hostFrame

\* Variant: the image is mounted before it is made.
RemoveContainer_MountFirst ==
  /\ Step("remove", "mount")
  /\ temp' = FALSE
  /\ UNCHANGED <<kernel, whole, rootfs, mounted, stale, cfg>> /\ hostFrame

RemoveContainer ==
  /\ Step("remove", "format")
  /\ temp' = FALSE
  /\ UNCHANGED <<kernel, whole, rootfs, mounted, stale, cfg>> /\ hostFrame

\* dd gives the file its size and keeps its contents; mkfs.ext4 -F refuses a
\* file that is mounted.  A guest that has it open is not noticed.
FormatImage ==
  /\ Step("format", "mount")
  /\ ~mounted /\ rootfs' = "empty" /\ stale' = Guests
  /\ UNCHANGED <<kernel, whole, temp, mounted, cfg>> /\ hostFrame

MountImage ==
  /\ Step("mount", "fill")
  /\ mounted' = TRUE
  /\ UNCHANGED <<kernel, whole, temp, rootfs, stale, cfg>> /\ hostFrame

\* Variant: without `set -e' a copy that fails is followed by the next step.
FillImage_NoSetE ==
  /\ Step("fill", "unmount")
  /\ rootfs' \in IF rootfs = "corrupt" THEN {"corrupt"}
                 ELSE {"partial", "copied"}
  /\ UNCHANGED <<kernel, whole, temp, mounted, stale, cfg>> /\ hostFrame

\* The copy of what tar has unpacked, and the edits for Firecracker.  `cp -a dir/*'
\* leaves out the dotfiles of the root directory, in every image: "copied" is without
\* them.
FillImage ==
  /\ Step("fill", "unmount")
  /\ rootfs' = CASE rootfs = "corrupt" -> "corrupt"
                 [] rootfs # "corrupt" /\ whole -> "copied"
                 [] OTHER -> "short"
  /\ UNCHANGED <<kernel, whole, temp, mounted, stale, cfg>> /\ hostFrame

UnmountImage ==
  /\ Step("unmount", "config")
  /\ mounted' = FALSE
  /\ UNCHANGED <<kernel, whole, temp, rootfs, stale, cfg>> /\ hostFrame

\* The configuration this script writes names tap0, which no script makes.
WriteVMConfig ==
  /\ Step("config", "built")
  /\ cfg' = "tap0"
  /\ UNCHANGED buildVars /\ hostFrame

\* "Build complete".
BuildReturns ==
  /\ Step("built", "idle")
  /\ UNCHANGED <<buildVars, cfg>> /\ hostFrame

MustFail == (pc = "create" /\ temp) \/ (pc = "format" /\ mounted)

\* Variant: what is left of the container is removed on the way out.
BuildFails_Trap ==
  /\ Faults \/ MustFail
  /\ pc \in BuildSteps /\ pc' = "idle"
  /\ temp' = FALSE
  /\ UNCHANGED <<kernel, whole, rootfs, mounted, stale, cfg>> /\ hostFrame

\* `set -e': the step fails, as far as the shell sees it, or ^C, and everything stays
\* as it is then.
BuildFails ==
  /\ Faults \/ MustFail
  /\ pc \in BuildSteps /\ pc' = "idle"
  /\ \/ UNCHANGED <<rootfs, stale>>
     \/ pc = "format" /\ ~mounted /\ rootfs' = "empty" /\ stale' = Guests
     \/ pc = "fill" /\ rootfs # "corrupt" /\ rootfs' = "partial"
                    /\ UNCHANGED stale
  /\ UNCHANGED <<kernel, whole, temp, mounted, cfg>> /\ hostFrame

-----------------------------------------------------------------------------
(* The other commands of microvm_runner.sh.                                 *)

\* setup-net as root: a device that exists is taken, whatever made it.
SetupNetwork ==
  /\ Step("idle", "idle")
  /\ tap' = TRUE
  /\ UNCHANGED <<buildVars, cfg, sock, pidFile, vmVars>>

\* start: the two files are only looked for.  firecracker goes to the
\* background, and the pid file that names the previous one is overwritten.
Launch(s) ==
  /\ Step("idle", "idle")
  /\ kernel /\ rootfs # "none" /\ count < MaxVMs
  /\ cfg' = "tap-microvm" /\ sock' = s
  /\ count' = count + 1 /\ vm' = [vm EXCEPT ![count'] = "launched"]
  /\ alone' = [alone EXCEPT ![count'] = (Alive = {})]
  /\ pidFile' = [pidFile EXCEPT !["microvm.pid"] = count']
  /\ UNCHANGED <<buildVars, tap>>

\* Variant: the socket is left to cleanup.sh.
StartVM_KeepSocket == Launch(sock)

StartVM == Launch(0)

\* stop_vm: kill what firecracker-microvm.pid names, remove it and the socket.
StopVM(next) ==
  /\ Step("idle", next)
  /\ Kill({pidFile["firecracker-microvm.pid"]})
  /\ pidFile' = [pidFile EXCEPT !["firecracker-microvm.pid"] = 0]
  /\ sock' = 0
  /\ UNCHANGED <<kernel, whole, temp, rootfs, mounted, cfg, tap, count, alone>>

\* ip link delete: a guest on the device stays up without a network.
DeleteTap ==
  /\ tap' = FALSE
  /\ vm' = [v \in VMs |-> IF vm[v] = "up" THEN "cutOff" ELSE vm[v]]

\* cleanup, after its stop_vm: as root the device goes, else it stays.
CleanupNet ==
  /\ Step("cleanNet", "cleanFiles")
  /\ DeleteTap \/ UNCHANGED <<tap, vm>>
  /\ UNCHANGED <<buildVars, cfg, sock, pidFile, count, alone>>

CleanupFiles ==
  /\ Step("cleanFiles", "idle")
  /\ cfg' = "none"
  /\ UNCHANGED buildVars /\ hostFrame

-----------------------------------------------------------------------------
(* cleanup.sh.  Its `all' is these commands in a row; its socket pattern is  *)
(* under /tmp and matches no socket of the runner.                           *)

\* Every process that pgrep finds: TERM, and KILL two seconds later.
KillProcesses ==
  /\ Step("idle", "idle")
  /\ Kill(VMs)
  /\ UNCHANGED <<kernel, whole, temp, rootfs, mounted, cfg, tap, sock, pidFile,
                 count, alone>>

CleanTaps ==
  /\ Step("idle", "idle")
  /\ DeleteTap
  /\ UNCHANGED <<buildVars, cfg, sock, pidFile, count, alone>>

\* The operator is asked for each pid file.
RemovePidFile(f) ==
  /\ Step("idle", "idle")
  /\ pidFile' = [pidFile EXCEPT ![f] = 0]
  /\ UNCHANGED <<buildVars, cfg, tap, sock, vmVars>>

-----------------------------------------------------------------------------
(* External: firecracker, its guests and the host.                          *)

CanBoot ==
  /\ sock = 0 /\ cfg = "tap-microvm" /\ tap
  /\ \A w \in VMs : vm[w] # "up"

\* firecracker binds its socket, reads the configuration and opens the TAP
\* device, which must be there and not in use.
Boot(v) ==
  /\ vm[v] = "launched" /\ CanBoot
  /\ vm' = [vm EXCEPT ![v] = "up"] /\ sock' = v
  /\ UNCHANGED <<pc, buildVars, cfg, tap, pidFile, count, alone>>

\* It ends otherwise, before or after it made the socket.
BootFails(v) ==
  /\ vm[v] = "launched" /\ (Faults \/ ~CanBoot)
  /\ vm' = [vm EXCEPT ![v] = "dead"]
  /\ sock' \in {sock, IF sock = 0 THEN v ELSE sock}
  /\ UNCHANGED <<pc, buildVars, cfg, tap, pidFile, count, alone>>

\* A guest shuts down; nothing removes the socket.
Halt(v) ==
  /\ v \in Guests
  /\ Kill({v})
  /\ UNCHANGED <<pc, kernel, whole, temp, rootfs, mounted, cfg, tap, sock, pidFile,
                 count, alone>>

\* A guest writes to an image that is not only its own.
GuestWrites(v) ==
  /\ v \in Guests
  /\ v \in stale \/ mounted \/ Guests # {v}
  /\ rootfs' = "corrupt"
  /\ UNCHANGED <<pc, kernel, whole, temp, mounted, stale, cfg>> /\ hostFrame

\* The host goes down and comes up: files and containers are still there.
Reboot ==
  /\ Faults
  /\ pc' = "idle" /\ tap' = FALSE /\ mounted' = FALSE
  /\ Kill(VMs)
  /\ UNCHANGED <<kernel, whole, temp, rootfs, cfg, sock, pidFile, count, alone>>

-----------------------------------------------------------------------------
Build ==
  \/ DockerBuild \/ DockerBuilt \/ CreateContainer \/ ExportContainer
  \/ RemoveContainer \/ FormatImage \/ MountImage \/ FillImage
  \/ UnmountImage \/ WriteVMConfig \/ BuildReturns \/ BuildFails

Command ==
  \/ SetupNetwork \/ StartVM \/ CleanupNet \/ CleanupFiles
  \/ \E next \in {"idle", "cleanNet"} : StopVM(next)
  \/ KillProcesses \/ CleanTaps \/ \E f \in PidFiles : RemovePidFile(f)

Host ==
  \/ \E v \in VMs : Boot(v) \/ BootFails(v) \/ Halt(v) \/ GuestWrites(v)
  \/ Reboot

Next == Build \/ Command \/ Host

Spec == Init /\ [][Next]_vars

-----------------------------------------------------------------------------
\* When build says "Build complete" (microvm_runner.sh:52), the image is unmounted and
\* all that tar had unpacked was copied to it but the dotfiles of the root directory,
\* unless a guest that had been started before, or a second one, wrote to it meanwhile.
\* What tar never got is not in it (docker_to_ext4.sh:20, 31-34, 106).
BuiltMeansCopied ==
  pc = "built" => ~mounted /\ rootfs \in {"short", "copied", "corrupt"}

\* A build that ends between docker create and docker rm
\* (docker_to_ext4.sh:19-21) leaves temp-container, and no later build gets
\* past that name, whatever the operator does with the scripts.
WedgedForGood == [](temp /\ pc = "idle" => [](pc # "built"))

\* A start while no firecracker process is alive finds its socket path free,
\* whatever an earlier one left there: rm -f of microvm_runner.sh:131, and what
\* cleanup.sh:183 promises.
LonelyStartBinds ==
  \A v \in VMs : vm[v] = "launched" /\ alone[v] /\ v = count => sock = 0

\* "Stop VM first" (microvm_runner.sh:196): when cleanup goes on to the
\* network, no guest is up.
CleanupStopsFirst == pc = "cleanNet" => Guests = {}
=============================================================================
