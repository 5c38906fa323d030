------------------------------- MODULE VMClients -------------------------------
(***************************************************************************)
(* Two programs that boot the drive ./setup/ubuntu-24.04.ext4.               *)
(*                                                                         *)
(* StartMachine of src/src/launch-vms/create_micro_vms.go starts two microVMs *)
(* from two goroutines, each on a socket path of its own, logs what failed    *)
(* and blocks for ever; it ends when it is killed, and its microVMs live on.  *)
(* A Start that fails, or is cut short, may have started the guest; the SDK   *)
(* removes the path of one that fails, unless the last request, that for the  *)
(* start of the guest, is what failed.                                       *)
(*                                                                         *)
(* src/src/start-vm.go sets up the firecracker process that somebody has      *)
(* started on /tmp/firecracker.socket, one PUT request after the other, and   *)
(* exits at the first that fails.  That process is external: it takes         *)
(* settings until its guest runs, starts a guest that has a kernel, and may   *)
(* be replaced by a new one at any time.                                     *)
(***************************************************************************)
EXTENDS FiniteSets

CONSTANTS
  VMs,        \* the two VMIDs
  CallsFail   \* whether a Start or a request may fail by itself

VARIABLES
  spc,      \* control point of StartMachine
  gpc,      \* control point of each goroutine
  usocks,   \* microVMs whose socket file exists
  alive,    \* microVMs that a Start has returned and that live
  stray,    \* those that live although their Start failed or was cut short
  cpc,      \* the next request of start-vm.go
  fc,       \* the process on /tmp/firecracker.socket
  settings  \* what was PUT to it

machineVars == <<spc, gpc, usocks, alive, stray>>
apiVars     == <<cpc, fc, settings>>

ClientRest == {"rest", "ok", "failed"}

ClientsTypeOK ==
  /\ spc \in {"off", "running"}
  /\ gpc \in [VMs -> {"off", "launch", "up", "failed"}]
  /\ usocks \subseteq VMs /\ alive \subseteq VMs /\ stray \subseteq VMs
  /\ cpc \in ClientRest \cup {"machine", "boot", "drive", "start"}
  /\ fc \in {"none", "open", "started"}
  /\ settings \subseteq {"machine", "boot", "drive"}

ClientsInit ==
  /\ spc = "off" /\ gpc = [v \in VMs |-> "off"]
  /\ usocks = {} /\ alive = {} /\ stray = {}
  /\ cpc = "rest" /\ fc = "none" /\ settings = {}

-----------------------------------------------------------------------------
\* StartMachine.

StartMachine ==
  /\ spc = "off" /\ spc' = "running"
  /\ gpc' = [v \in VMs |-> "launch"]
  /\ UNCHANGED <<usocks, alive, stray>>

\* Variant: a socket file that was left is removed first.
LaunchInstance_Remove(v) ==
  /\ gpc[v] = "launch"
  /\ gpc' = [gpc EXCEPT ![v] = "up"]
  /\ usocks' = usocks \cup {v} /\ alive' = alive \cup {v}
  /\ UNCHANGED <<spc, stray>>

\* What Starts of some microVMs leave when they do not return: socket files, guests.
LeftBy(starts) ==
  \E files, guests \in SUBSET starts :
    usocks' = usocks \cup files /\ stray' = stray \cup guests

\* launchFirecrackerInstance: a path that exists is refused before anything is started.
LaunchInstance(v) ==
  /\ gpc[v] = "launch"
  /\ \/ v \notin usocks /\ gpc' = [gpc EXCEPT ![v] = "up"]
        /\ usocks' = usocks \cup {v} /\ alive' = alive \cup {v} /\ UNCHANGED stray
     \/ v \in usocks /\ gpc' = [gpc EXCEPT ![v] = "failed"]
        /\ UNCHANGED <<usocks, alive, stray>>
     \/ v \notin usocks /\ CallsFail /\ gpc' = [gpc EXCEPT ![v] = "failed"]
        /\ LeftBy({v}) /\ UNCHANGED alive
  /\ UNCHANGED spc

\* A microVM ends; the SDK removes its socket file if its program still runs.
InstanceEnds(v) ==
  /\ v \in alive /\ alive' = alive \ {v}
  /\ usocks' = IF gpc[v] = "up" THEN usocks \ {v} ELSE usocks
  /\ UNCHANGED <<spc, gpc, stray>>

\* So does one whose Start failed, if that was in this run and left the file.
StrayEnds(v) ==
  /\ v \in stray /\ stray' = stray \ {v}
  /\ UNCHANGED usocks \/ (gpc[v] = "failed" /\ v \notin alive /\ usocks' = usocks \ {v})
  /\ UNCHANGED <<spc, gpc, alive>>

\* select{}: the program ends when it is killed, also within a Start, or when Go
\* finds every goroutine blocked because both Starts have failed.
MachineEnds ==
  /\ spc = "running" /\ spc' = "off" /\ gpc' = [v \in VMs |-> "off"]
  /\ LeftBy({v \in VMs \ usocks : gpc[v] = "launch"})
  /\ UNCHANGED alive

MachineStep ==
  MachineEnds \/ \E v \in VMs : LaunchInstance(v) \/ InstanceEnds(v) \/ StrayEnds(v)

-----------------------------------------------------------------------------
\* start-vm.go.

StartClient ==
  /\ cpc \in ClientRest /\ cpc' = "machine"
  /\ UNCHANGED <<fc, settings>>

\* Variant: the drive is set before the kernel.
Following_DriveFirst(s) ==
  CASE s = "machine" -> "drive" [] s = "drive" -> "boot" [] s = "boot" -> "start"

Following(s) ==
  CASE s = "machine" -> "boot" [] s = "boot" -> "drive" [] s = "drive" -> "start"

\* sendPutRequest of one setting.
Put(s) ==
  /\ cpc = s
  /\ \/ fc = "open" /\ settings' = settings \cup {s} /\ cpc' = Following(s)
     \/ fc # "open" /\ UNCHANGED settings /\ cpc' = "failed"
     \/ /\ CallsFail /\ cpc' = "failed"
        /\ UNCHANGED settings \/ (fc = "open" /\ settings' = settings \cup {s})
  /\ UNCHANGED fc

InstanceStart ==
  /\ cpc = "start"
  /\ \/ /\ fc = "open" /\ "boot" \in settings /\ fc' = "started"
        /\ cpc' = "ok" \/ (CallsFail /\ cpc' = "failed")
     \/ /\ fc # "open" \/ "boot" \notin settings \/ CallsFail
        /\ cpc' = "failed" /\ UNCHANGED fc
  /\ UNCHANGED settings

\* External: a process is started on the path, or the one there ends.
ProcessStarts == fc = "none" /\ fc' = "open" /\ settings' = {} /\ UNCHANGED cpc
ProcessEnds   == fc # "none" /\ fc' = "none" /\ settings' = {} /\ UNCHANGED cpc

ClientStep ==
  \/ \E s \in {"machine", "boot", "drive"} : Put(s)
  \/ InstanceStart \/ ProcessStarts \/ ProcessEnds

-----------------------------------------------------------------------------
(***************************************************************************)
(* Properties                                                              *)
(***************************************************************************)

\* While a microVM lives that StartMachine has reported as started, neither a later
\* run, nor what was left by Starts that failed or were cut short, brings about that it
\* is started a second time (lines 38-44, 90-102).  Of one whose Start failed although
\* its guest runs this does not hold: it is in stray only, and may be started again.
NotStartedTwice ==
  [][\A v \in VMs : gpc[v] = "launch" /\ gpc'[v] = "up" => v \notin alive]_machineVars

\* A guest that start-vm.go has started has its kernel and its root drive, though
\* the process may have been replaced between any two requests, or have been set
\* up in part by a client that failed (lines 78-99).
StartedWithDrive == fc = "started" => {"boot", "drive"} \subseteq settings
=============================================================================
