---------------------------- MODULE Orchestrator ----------------------------
(***************************************************************************)
(* The HTTP service of src/orchestrator/api.go: it starts and kills         *)
(* firecracker processes and keeps them in the map `instances'.  Every      *)
(* request is served by a goroutine of its own.  The mutex mu covers single *)
(* accesses to the map, so each of them is one step, and everything between *)
(* two of them interleaves.  GET /list reads the map in one such step and   *)
(* changes nothing: what it answers is the operator Listed.  A body that    *)
(* BindJSON rejects is answered with 400 and changes nothing either.        *)
(***************************************************************************)
EXTENDS Integers, FiniteSets

CONSTANTS
  Creates,    \* POST /create requests; each also names the process it starts
  Stops,      \* POST /stop/:id requests
  EnvFaults,  \* whether exec and kill may fail and a process may die by itself
  None        \* no instance

ASSUME RequestsOK ==
  /\ IsFiniteSet(Creates) /\ Creates # {}
  /\ None \notin Creates
  /\ EnvFaults \in BOOLEAN

\* instance-<i>, for every i that len(instances)+1 can be
Ids == 1..Cardinality(Creates)

VARIABLES
  cpc,        \* control point of each createInstance
  id,         \* its local variable id
  proc,       \* the process it started
  spc,        \* control point of each stopInstance
  sid,        \* its path parameter :id
  found,      \* the instance it looked up
  instances,  \* the map: the create whose instance an id leads to, or None
  sockets     \* ids whose /tmp/firecracker-<id>.socket exists

createVars == <<cpc, id>>
stopVars   == <<spc, sid, found>>
vars       == <<createVars, proc, stopVars, instances, sockets>>

TypeOK ==
  /\ cpc \in [Creates -> {"idle", "start", "store", "ok", "failed"}]
  /\ id \in [Creates -> Ids]
  /\ proc \in [Creates -> {"none", "starting", "running", "exited", "killed"}]
  /\ spc \in [Stops -> {"idle", "kill", "delete", "ok", "notFound", "failed"}]
  /\ sid \in [Stops -> Ids]
  /\ found \in [Stops -> Creates \cup {None}]
  /\ instances \in [Ids -> Creates \cup {None}]
  /\ sockets \subseteq Ids

Init ==
  /\ cpc = [c \in Creates |-> "idle"]
  /\ id = [c \in Creates |-> 1]
  /\ proc = [c \in Creates |-> "none"]
  /\ spc = [s \in Stops |-> "idle"]
  /\ sid = [s \in Stops |-> 1]
  /\ found = [s \in Stops |-> None]
  /\ instances = [i \in Ids |-> None]
  /\ sockets = {}

Listed  == {i \in Ids : instances[i] # None}
Live(c) == proc[c] \in {"starting", "running"}

-----------------------------------------------------------------------------
\* createInstance

\* Variant: ids are counted from one too many.
ReadLen_AfterLast(c) ==
  /\ cpc[c] = "idle"
  /\ id' = [id EXCEPT ![c] = Cardinality(Listed) + 2]
  /\ cpc' = [cpc EXCEPT ![c] = "start"]
  /\ UNCHANGED <<proc, stopVars, instances, sockets>>

\* id is derived from len(instances), read without the mutex.
ReadLen(c) ==
  /\ cpc[c] = "idle"
  /\ id' = [id EXCEPT ![c] = Cardinality(Listed) + 1]
  /\ cpc' = [cpc EXCEPT ![c] = "start"]
  /\ UNCHANGED <<proc, stopVars, instances, sockets>>

\* cmd.Start: the process exists, or the answer is 500.
StartProcess(c) ==
  /\ cpc[c] = "start"
  /\ \/ /\ proc' = [proc EXCEPT ![c] = "starting"]
        /\ cpc' = [cpc EXCEPT ![c] = "store"]
     \/ /\ EnvFaults
        /\ cpc' = [cpc EXCEPT ![c] = "failed"]
        /\ UNCHANGED proc
  /\ UNCHANGED <<id, stopVars, instances, sockets>>

\* Variant: the instance is not stored.
StoreInstance_Forgotten(c) ==
  /\ cpc[c] = "store"
  /\ cpc' = [cpc EXCEPT ![c] = "ok"]
  /\ UNCHANGED <<id, proc, stopVars, instances, sockets>>

\* instances[id] = instance, under the mutex; 200.
StoreInstance(c) ==
  /\ cpc[c] = "store"
  /\ instances' = [instances EXCEPT ![id[c]] = c]
  /\ cpc' = [cpc EXCEPT ![c] = "ok"]
  /\ UNCHANGED <<id, proc, stopVars, sockets>>

-----------------------------------------------------------------------------
\* stopInstance

\* The instance is looked up under the mutex; 404 if there is none.
LookUp(s) ==
  /\ spc[s] = "idle"
  /\ \E i \in Ids :
       /\ sid' = [sid EXCEPT ![s] = i]
       /\ found' = [found EXCEPT ![s] = instances[i]]
       /\ spc' = [spc EXCEPT ![s] =
                    IF instances[i] = None THEN "notFound" ELSE "kill"]
  /\ UNCHANGED <<createVars, proc, instances, sockets>>

\* Variant: an error of Kill is dropped.
KillProcess_IgnoreError(s) ==
  /\ spc[s] = "kill"
  /\ \/ proc' = [proc EXCEPT ![found[s]] =
                    IF Live(found[s]) THEN "killed" ELSE @]
     \/ EnvFaults /\ UNCHANGED proc
  /\ spc' = [spc EXCEPT ![s] = "delete"]
  /\ UNCHANGED <<createVars, sid, found, instances, sockets>>

\* Process.Kill: SIGKILL leaves the socket file behind.  Nobody waits for the
\* process, so killing one that has ended is no error.  An error is answered
\* with 500 and the entry stays.
KillProcess(s) ==
  /\ spc[s] = "kill"
  /\ \/ /\ proc' = [proc EXCEPT ![found[s]] =
                      IF Live(found[s]) THEN "killed" ELSE @]
        /\ spc' = [spc EXCEPT ![s] = "delete"]
     \/ /\ EnvFaults
        /\ spc' = [spc EXCEPT ![s] = "failed"]
        /\ UNCHANGED proc
  /\ UNCHANGED <<createVars, sid, found, instances, sockets>>

\* Variant: the entry stays.
DeleteInstance_Kept(s) ==
  /\ spc[s] = "delete"
  /\ spc' = [spc EXCEPT ![s] = "ok"]
  /\ UNCHANGED <<createVars, proc, sid, found, instances, sockets>>

\* delete(instances, id), under the mutex: by id, whatever is stored there by
\* now; 200.
DeleteInstance(s) ==
  /\ spc[s] = "delete"
  /\ instances' = [instances EXCEPT ![sid[s]] = None]
  /\ spc' = [spc EXCEPT ![s] = "ok"]
  /\ UNCHANGED <<createVars, proc, sid, found, sockets>>

-----------------------------------------------------------------------------
\* External: firecracker --api-sock.

\* Variant: a file that is there is removed first.
OpenSocket_Replacing(c) ==
  /\ proc[c] = "starting"
  /\ proc' = [proc EXCEPT ![c] = "running"]
  /\ sockets' = sockets \cup {id[c]}
  /\ UNCHANGED <<createVars, stopVars, instances>>

\* It serves a socket it creates, and ends at once if the file exists.
OpenSocket(c) ==
  /\ proc[c] = "starting"
  /\ IF id[c] \in sockets
     THEN proc' = [proc EXCEPT ![c] = "exited"] /\ UNCHANGED sockets
     ELSE /\ proc' = [proc EXCEPT ![c] = "running"]
          /\ sockets' = sockets \cup {id[c]}
  /\ UNCHANGED <<createVars, stopVars, instances>>

\* The process dies by itself.
Die(c) ==
  /\ EnvFaults /\ Live(c)
  /\ proc' = [proc EXCEPT ![c] = "exited"]
  /\ UNCHANGED <<createVars, stopVars, instances, sockets>>

-----------------------------------------------------------------------------
Create(c)  == ReadLen(c) \/ StartProcess(c) \/ StoreInstance(c)
Stop(s)    == LookUp(s) \/ KillProcess(s) \/ DeleteInstance(s)
Process(c) == OpenSocket(c) \/ Die(c)

Next ==
  \/ \E c \in Creates : Create(c) \/ Process(c)
  \/ \E s \in Stops : Stop(s)

Spec == Init /\ [][Next]_vars

-----------------------------------------------------------------------------
(***************************************************************************)
(* Properties                                                              *)
(***************************************************************************)

\* A stop that was answered with 200 has ended the process it looked up, and
\* that process is never in the map again, however other requests interleave
\* (api.go:86-107).
StoppedForGood ==
  \A s \in Stops :
    spc[s] = "ok" => /\ ~Live(found[s])
                     /\ \A i \in Ids : instances[i] # found[s]

\* A live process whose creation was answered with 200 can be found under its
\* id, unless another create was given that same id: no other interleaving of
\* creates and stops loses a process (api.go:48, 67-69, 102-104).
LostOnlyByCollision ==
  \A c \in Creates :
    cpc[c] = "ok" /\ Live(c)
      => \/ instances[id[c]] = c
         \/ \E d \in Creates \ {c} : cpc[d] # "idle" /\ id[d] = id[c]

\* Whichever creates were given one id, and whatever was stopped in between, at
\* most one firecracker serves it at a time: the socket path is derived from
\* the id alone, and the file outlives the process (api.go:48-55, 97).
OneRunsPerId ==
  \A c, d \in Creates :
    c # d /\ id[c] = id[d] => ~(proc[c] = "running" /\ proc[d] = "running")

\* Until a stop has been answered, a create is never given an id that a create
\* answered earlier was given: only overlapping creates collide (api.go:48).
FreshUntilStop ==
  [][\A c, d \in Creates :
       /\ cpc[c] = "idle" /\ cpc'[c] = "start" /\ cpc[d] = "ok"
       /\ \A s \in Stops : spc[s] # "ok"
       => id'[c] # id[d]]_vars

-----------------------------------------------------------------------------
\* What the comments of api.go say, and the code does not do.

Quiet == /\ \A c \in Creates : cpc[c] \notin {"start", "store"}
         /\ \A s \in Stops : spc[s] \notin {"kill", "delete"}

\* api.go:74 "listInstances returns all running instances": while no request
\* is under way, every process that was created and not stopped is listed.
ListIsComplete ==
  Quiet => \A c \in Creates : proc[c] = "running" => instances[id[c]] = c
=============================================================================
