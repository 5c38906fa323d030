--------------------------------- MODULE Deploy ---------------------------------
(***************************************************************************)
(* The deploy service of src/api/main.go.  Every request is a goroutine of   *)
(* gin: POST /deploy pulls an image and makes a snapshot, a container and a  *)
(* task one call of containerd after the other, taking nothing back when one *)
(* fails; DELETE /delete/:id works in the namespace "default" only.          *)
(*                                                                         *)
(* containerd is external and outlives the service.  It keeps snapshots,     *)
(* containers and tasks by namespace and name, refuses a name in use, guards *)
(* a new snapshot by a lease until its container was made, and collects a    *)
(* snapshot without lease or container.  Any call may fail, a question too.  *)
(***************************************************************************)
EXTENDS FiniteSets

CONSTANTS
  Deploys,    \* POST /deploy requests under way at once
  Deletes,    \* DELETE /delete/:id requests under way at once
  Keys,       \* microVMs: namespace and microvm_id
  InDefault,  \* those of the namespace "default"
  EnvFaults   \* whether containerd's calls may fail, tasks vanish, the service crash

ASSUME DeployConstants ==
  /\ Deploys \cap Deletes = {} /\ InDefault \subseteq Keys /\ Keys # {}
  /\ EnvFaults \in BOOLEAN

VARIABLES
  up,     \* the service listens
  pc,     \* control point of each handler
  key,    \* the microVM its request names
  snap,   \* microVMs whose <id>-snapshot exists
  lease,  \* those whose snapshot a lease keeps
  cont,   \* microVMs whose container exists
  task    \* microVMs that have a task, running or stopped

ctrd == <<snap, lease, cont, task>>
vars == <<up, pc, key, ctrd>>

Requests == Deploys \cup Deletes
AtRest   == {"idle", "ok", "failed"}
Making   == {"task", "create", "start"}     \* a deploy after its container
Removing == {"get", "unsnap", "uncont"}     \* a delete after its look for a task

TypeOK ==
  /\ up \in BOOLEAN
  /\ pc \in [Requests -> AtRest \cup Making \cup Removing
                         \cup {"pull", "snapshot", "container", "load", "check"}]
  /\ key \in [Requests -> Keys]
  /\ snap \subseteq Keys /\ lease \subseteq snap \cup InDefault
  /\ cont \subseteq Keys /\ task \subseteq Keys
  /\ ~up => \A r \in Requests : pc[r] = "idle"
  /\ \A r \in Deletes : pc[r] = "idle" \/ key[r] \in InDefault

Init ==
  /\ up = FALSE /\ pc = [r \in Requests |-> "idle"] /\ key \in [Requests -> Keys]
  /\ snap = {} /\ lease = {} /\ cont = {} /\ task = {}

Goto(r, l) == pc' = [pc EXCEPT ![r] = l]

-----------------------------------------------------------------------------
\* main: the service listens once both clients were made, and ends if not.
Serve ==
  /\ ~up /\ up' = TRUE
  /\ UNCHANGED <<pc, key, ctrd>>

\* Its end takes the handlers with it.
Crash ==
  /\ up /\ EnvFaults
  /\ up' = FALSE /\ pc' = [r \in Requests |-> "idle"]
  /\ UNCHANGED <<key, ctrd>>

\* A request that does not bind is answered 400.
ReceiveDeploy(r) ==
  /\ up /\ pc[r] \in AtRest
  /\ \E k \in Keys : key' = [key EXCEPT ![r] = k]
  /\ Goto(r, "pull") \/ Goto(r, "failed")
  /\ UNCHANGED <<up, ctrd>>

\* Variant: the namespace is the request's.
ReceiveDelete_AnyNamespace(r) ==
  /\ up /\ pc[r] \in AtRest
  /\ \E k \in Keys : key' = [key EXCEPT ![r] = k]
  /\ Goto(r, "load")
  /\ UNCHANGED <<up, ctrd>>

ReceiveDelete(r) ==
  /\ up /\ pc[r] \in AtRest
  /\ \E k \in InDefault : key' = [key EXCEPT ![r] = k]
  /\ Goto(r, "load")
  /\ UNCHANGED <<up, ctrd>>

-----------------------------------------------------------------------------
\* deployMicroVM.

Pull(r) ==
  /\ pc[r] = "pull"
  /\ Goto(r, "snapshot") \/ (EnvFaults /\ Goto(r, "failed"))
  /\ UNCHANGED <<up, key, ctrd>>

\* NewContainer: the snapshot, under a lease.
Prepare(r) ==
  LET k == key[r] IN
  /\ pc[r] = "snapshot"
  /\ \/ k \notin snap /\ Goto(r, "container")
        /\ snap' = snap \cup {k} /\ lease' = lease \cup {k}
     \/ (k \in snap \/ EnvFaults) /\ Goto(r, "failed") /\ UNCHANGED <<snap, lease>>
  /\ UNCHANGED <<up, key, cont, task>>

\* NewContainer: the container, and the end of the lease.
NewContainer(r) ==
  LET k == key[r] IN
  /\ pc[r] = "container" /\ lease' = lease \ {k}
  /\ \/ k \notin cont /\ Goto(r, "task") /\ cont' = cont \cup {k}
     \/ (k \in cont \/ EnvFaults) /\ Goto(r, "failed")
        /\ (UNCHANGED cont \/ (EnvFaults /\ cont' = cont \cup {k}))
  /\ UNCHANGED <<up, key, snap, task>>

\* NewTask looks up the container and the mounts of its snapshot,
NewTask(r) ==
  /\ pc[r] = "task"
  /\ \/ key[r] \in cont \cap snap /\ Goto(r, "create")
     \/ (key[r] \notin cont \cap snap \/ EnvFaults) /\ Goto(r, "failed")
  /\ UNCHANGED <<up, key, ctrd>>

\* and creates the task, for a container that still exists.
CreateTask(r) ==
  LET k == key[r] IN
  /\ pc[r] = "create"
  /\ \/ k \in cont \ task /\ task' = task \cup {k} /\ (Goto(r, "start")
                                                \/ (EnvFaults /\ Goto(r, "failed")))
     \/ (k \notin cont \cap snap \/ k \in task \/ EnvFaults)
        /\ Goto(r, "failed") /\ UNCHANGED task
  /\ UNCHANGED <<up, key, snap, lease, cont>>

Start(r) ==
  /\ pc[r] = "start"
  /\ \/ key[r] \in task /\ Goto(r, "ok")
     \/ (key[r] \notin task \/ EnvFaults) /\ Goto(r, "failed")
  /\ UNCHANGED <<up, key, ctrd>>

-----------------------------------------------------------------------------
\* deleteMicroVM.

Load(r) ==
  /\ pc[r] = "load"
  /\ \/ key[r] \in cont /\ Goto(r, "check")
     \/ (key[r] \notin cont \/ EnvFaults) /\ Goto(r, "failed")
  /\ UNCHANGED <<up, key, ctrd>>

\* container.Delete refuses a container whose task it finds, even a stopped one, and
\* goes on when the look-up of the task fails, whatever the reason.
Check(r) ==
  /\ pc[r] = "check"
  /\ \/ key[r] \in task /\ Goto(r, "failed")
     \/ (key[r] \notin task \/ EnvFaults) /\ Goto(r, "get")
  /\ UNCHANGED <<up, key, ctrd>>

Get(r) ==
  /\ pc[r] = "get"
  /\ \/ key[r] \in cont /\ Goto(r, "unsnap")
     \/ (key[r] \notin cont \/ EnvFaults) /\ Goto(r, "failed")
  /\ UNCHANGED <<up, key, ctrd>>

\* WithSnapshotCleanup: a snapshot that is gone is no error.
RemoveSnapshot(r) ==
  /\ pc[r] = "unsnap"
  /\ \/ Goto(r, "uncont") /\ snap' = snap \ {key[r]}
     \/ EnvFaults /\ Goto(r, "failed") /\ UNCHANGED snap
  /\ UNCHANGED <<up, key, lease, cont, task>>

RemoveContainer(r) ==
  /\ pc[r] = "uncont"
  /\ \/ key[r] \in cont /\ Goto(r, "ok") /\ cont' = cont \ {key[r]}
     \/ (key[r] \notin cont \/ EnvFaults) /\ Goto(r, "failed") /\ UNCHANGED cont
  /\ UNCHANGED <<up, key, snap, lease, task>>

-----------------------------------------------------------------------------
\* External: containerd by itself.

LeaseExpires(k) ==
  /\ k \in lease /\ \A r \in Deploys : pc[r] = "container" => key[r] # k
  /\ lease' = lease \ {k}
  /\ UNCHANGED <<up, pc, key, snap, cont, task>>

Collect(k) ==
  /\ k \in snap \ (lease \cup cont)
  /\ snap' = snap \ {k}
  /\ UNCHANGED <<up, pc, key, lease, cont, task>>

\* The shim dies, or the host restarts.
TaskVanishes(k) ==
  /\ EnvFaults /\ k \in task /\ task' = task \ {k}
  /\ UNCHANGED <<up, pc, key, snap, lease, cont>>

-----------------------------------------------------------------------------
DeployStep(r) ==
  Pull(r) \/ Prepare(r) \/ NewContainer(r) \/ NewTask(r) \/ CreateTask(r) \/ Start(r)
DeleteStep(r) ==
  Load(r) \/ Check(r) \/ Get(r) \/ RemoveSnapshot(r) \/ RemoveContainer(r)

Next ==
  \/ Serve \/ Crash
  \/ \E r \in Deploys : ReceiveDeploy(r) \/ DeployStep(r)
  \/ \E r \in Deletes : ReceiveDelete(r) \/ DeleteStep(r)
  \/ \E k \in Keys : LeaseExpires(k) \/ Collect(k) \/ TaskVanishes(k)

Spec == Init /\ [][Next]_vars

-----------------------------------------------------------------------------
(***************************************************************************)
(* Properties                                                              *)
(***************************************************************************)

\* Outside the namespace "default" one deploy at most of a microVM is beyond its
\* container: of two at once the other was refused (lines 82-92, 150).
OneDeployer ==
  \A r, s \in Deploys :
    /\ pc[r] \in Making /\ pc[s] \in Making
    /\ key[r] = key[s] /\ key[r] \notin InDefault
    => r = s

\* That as a claim, made once: the deploys of each such microVM that are beyond its
\* container.
Outside == Keys \ InDefault
Beyond  == [k \in Outside |-> {r \in Deploys : pc[r] \in Making /\ key[r] = k}]

Claim == INSTANCE OneClaim
  WITH Names <- Outside, Clients <- Deploys, taken <- cont \ InDefault, past <- Beyond

\* Deploys that name one microVM outside "default", at once or one after the other, get
\* beyond its container as OneClaim says (lines 88-104, 150).
ImplementsClaim == Claim!Spec

\* There, a container that no deploy is working on is in the way of every later
\* deploy of that name: whatever failed after NewContainer cannot be repeated, and
\* what was deployed is deployed once (lines 88-104, 150).
UsedUp(k) ==
  /\ k \in cont \ InDefault
  /\ \A r \in Deploys : pc[r] \in Making => key[r] # k

UsedUpForGood == [][\A k \in Keys : UsedUp(k) => UsedUp(k)']_vars
=============================================================================
