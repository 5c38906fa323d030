# Verification of the Firecracker set-up

TLA+ models of the programs in this repository, TLC runs that check them on small
instances, and TLAPS proofs of their main properties for every size. Paths below are
relative to the repository root; the modules are in this directory.

    tlc -workers 2 -config ClusterSignals.cfg Cluster.tla     # a run
    tlapm ClusterProofs.tla                                   # a proof module

## 1. Inventory

The repository holds several programs that start Firecracker microVMs and make
Kubernetes nodes of them. They share no code; each keeps its own state, and they meet
only on the host (devices, socket files, images, processes).

| Part | State | Operations | Status |
|---|---|---|---|
| Cluster launcher (`main.go`, `cluster/cluster.go`) | `c.Nodes`, `node.Machine`, the error channel, the context, the join command; on the host: node directories, root images, API sockets, TAP devices, VMs | `Provision`, `provisionNode` (a goroutine per node), `configureKubernetes`, `Cleanup` (from `main` and from the signal handler) | `Cluster`, `ProvisionBarrier`, proved |
| Instance orchestrator (`src/orchestrator/api.go`) | the map `instances`, processes, socket files | `POST /create`, `GET /list`, `POST /stop/:id`, a goroutine per request | `Orchestrator`, proved |
| Tenant service (`src/launch-k8s/manage_cilium_longhorn.go`) | none of its own; namespaces, policies, claims in the API server | `POST /create-tenant`, a goroutine per request | `Tenants`, `OneClaim`, proved |
| Launcher variant (`src/launch-k8s/provision_cluster.go`) | as `cluster.go`, but one API socket path and one drive for all nodes, no TAP creation and no signals | as `cluster.go` | `SharedSocket`, `ProvisionBarrier`, proved |
| microVM runner (`bootable-container/microvm_runner.sh`, `cleanup.sh`, `docker_to_ext4.sh`) | image, config file, pid file, socket, TAP, process | build, setup-net, start, stop, cleanup, the commands of `cleanup.sh` | `Runner`, proved |
| Deploy service (`src/api/main.go`) | none; containerd's images, snapshots, containers, tasks | `POST /deploy`, `DELETE /delete/:id`, a goroutine per request | `Deploy`, `OneClaim`, proved |
| Sequential launcher (`src/launch-k8s/create_k8s_cluster.go`) | none of its own; microVMs and socket files that outlive it | launch, address, init, token, join, in one thread | `K8sLauncher` in `OneHost`, proved |
| Two-VM launcher, VM client (`src/launch-vms/create_micro_vms.go`, `src/start-vm.go`) | none of their own; microVMs, socket files, the settings of a firecracker process | two Starts in two goroutines; four requests | `VMClients` in `OneHost`, proved |
| Image builder (`src/launch-vms/create_ext4.go`, `src/convert_docker_to_ext4.sh`) | the extracted tree, the image, the mounts on `/mnt` | extract, dd, mkfs, mount, copy, unmount twice | `ImageBuilder` in `OneHost`, proved; the script is not modelled |
| Launch scripts (`src/launch_node_ip.sh`, `src/k8s/*.sh`, `src/start_vm.sh`, ...) | tap0, sockets, config file | linear scripts | not modelled |
| Host recipes (`src/Justfile`, `src/setup_network.sh`) | devices, processes | `clean_up` and others | `clean_up` is in `Cluster` |
| Guest set-up (`src/setup/*.sh`, `src/k8s/install_k8s.sh`) | packages in a guest | linear scripts | not modelled: no state of this system |

What is hard in them, and what would be correct:

* **Cluster launcher.** Node goroutines end in any order, fail at any of a dozen host
  calls, and report through a channel nobody reads until all have ended. The signal
  handler runs `Cleanup` without a lock while `Provision`, its goroutines and perhaps
  `main`'s own `Cleanup` are under way, then ends the process; the host keeps what was
  there, and the launcher is started again on it. Correct means: nothing is configured
  before every node is up; no goroutine blocks; a failure is followed by a Cleanup that
  sees every VM whose Start succeeded and cuts off the others; no VM has half an image under it;
  workers join a master that is ready; what is announced as ready is, also after runs that
  were killed; a run that is told to end does.
* **Orchestrator.** The id of a new instance is the length of the map, read without the
  mutex; stop looks up, kills and deletes in three steps. Correct means: a stopped
  instance is dead and stays out of the map; a live one can be found; ids are fresh.
* **Tenant service.** Three creations, none of them taken back when a later one fails,
  with concurrent requests and retries for the same tenant. Correct means: success is
  complete, storage never precedes isolation, requests for one tenant do not mix.
* **Variant.** Several Firecracker processes race for one socket path, one machine's client may
  set up another's process, and a Start that fails removes the path under the others. Correct
  means: nodes reported up have a microVM each, and after a failure no process is left.
* **Runner.** `start` writes one pid file and `stop` reads another; an image can be booted
  while a build has it mounted.
* **Deploy service.** A deployment is four calls to containerd without a way back, a deletion five
  after its look-up; requests for one name overlap, the service may end between two calls, and
  delete knows one namespace only. Correct means: one microVM per name, and what runs is neither
  lost nor replaced, and what is deleted is gone. The last two do not hold inside `default` (section 8).
* **Sequential launcher.** Each node is tried by ssh right after its Start; any error ends the
  program and leaves what was started, which is what its next run begins with. Correct means:
  success is announced for nodes that are there, and the program can be run again.
* **Two-VM launcher, client.** One never returns, and its microVMs survive it; the other sets up a
  process that may be replaced between two requests. Correct means: no microVM that was reported as
  started is started a second time, none without its drive.
* **Image builder.** A mount point that others use too, two unmounts per build, and kills in between.
  Correct means: what is reported as built is filled and not mounted.

## 2. Cluster launcher: `Cluster`

### State

| In the code | In the model |
|---|---|
| the program points of `main` and of the signal goroutine | `pc["main"]`, `pc["sig"]` |
| those of the goroutine of node n | `npc[n]` |
| `c.Nodes`, which the signal goroutine reads without a lock | `nodes`: `nil`, `torn` (three words half stored), `set` |
| `node.Machine != nil` | `machine[n]` |
| the errors buffered in `errCh` | `errCh`, the set of nodes that sent one |
| `c.ctx` cancelled | `ctxDone` |
| the loops of `Cleanup` and `configureKubernetes` | `cursor[g]`, `target` |
| `c.joinCommand` | `joinCommand` |
| the process, and how often it was started | `exit`, `run` |
| `node.RootPath`, its `root.img` and `firecracker.sock` | `dir`, `img` (`partial` while copied, `used` once a guest wrote), `sock` |
| the TAP device of n | `tap[n]`: absent, down, up |
| Firecracker processes | `vm[n]` (`unlinked`: it runs on files without a path), and `orphan[n]` for one of an earlier run |
| what kubeadm did in a guest | `kube[n]` |

Every action is one call on the host or one access to memory that another goroutine can
see, and is named for it; the module's comments and `PROJECT.json` give the lines. A
host call has a branch for its error when `EnvFaults` is set. `Restart` starts the launcher
again on the host as it is. `Killed` (with `Kills`) is a SIGKILL or the OOM killer: it ends the
launcher at any point, also while it serves, and nothing is cleaned up. `JustCleanUp` is the recipe
`clean_up`, run between two starts: it names the devices of a cluster `clxx` of three nodes
(`Named`), and its `rm` and `pkill` are without `sudo`, so that either may do nothing. `NodeCount`
is at least 1: `-nodes 0` is not checked by the code and panics (cluster.go:80).

External, modelled by what the launcher relies on: Firecracker starts on an existing image,
a free socket path and a TAP no other process holds; the SDK kills a VM when its context is
cancelled and forwards signals to it, both only while the launcher lives; `Start` may fail and
leave the process running; a guest answers while its VM runs on a device that is up. The last is
generous: `CreateTapDevice` gives the device no address and puts it on no bridge, so that on a real host
something else has to route to the guest, or the run ends as it does when `waitForSSH` fails. The ssh of
a stock host rejects the port `password` that `getJoinCommand` passes: the constant
`SshPortResolves` says whether it does (a port may also be a name in `/etc/services`).

### Runs

| Run | Instance | What it checks |
|---|---|---|
| `cluster_signals` | 2 nodes, 1 start, faults, signals, `FairSpec` | `TypeOK`, `SurvivorsAreCutOff`, `FailureCleanedUp`, `UnseenMeansFailed`, `ReadyMeansAssembled`, `WaitReturns`, `CleanupEndsRun` |
| `cluster_kills` | 2 nodes, 3 starts, faults, kills | `NoBootFromPartialCopy`, `ReadyOnOwnDevices`, and that `Provision` refines `ProvisionBarrier` (`ImplementsBarrier`) |
| `cluster_ready` | 3 nodes, no fault, no signal, ssh accepts the port, `FairGuestSpec` | `WorkersJoinAfterMaster`, `EventuallyReady` |
| `cluster_not_ready` | 2 nodes, no fault, no signal, a stock host's ssh, `FairGuestSpec` | `EventuallyReady` is violated |

Bounds. Two nodes are a master and a worker, and every pair of node goroutines; nothing in
`Provision` or `Cleanup` relates more than two. Three are needed where the order of *two*
workers matters (`cluster_ready`). Three starts are a run that is killed and leaves a VM on its device, one that
fails on it, and one after the guest has halted; what a signal leaves on the host is among what a kill leaves. The
two are not in one run for its size: signals over several starts are left to the theorems.
The proofs below do without these bounds. Deadlock is not
checked: a launcher that has ended its last run, or serves without a signal, stops.

Fairness. `FairSpec` is weakly fair to every step of `main` outside the guests, to both
Cleanups and to every node goroutine: the Go scheduler is fair and host calls return. It is
**not** fair to the configuration steps, because `session.Run` and `cmd.Run` have no timeout
and a guest may never answer. `FairGuestSpec` adds that, for `EventuallyReady` only. `WaitReturns` needs the channel to have
room for every error (`ErrChHasRoom`, proved below): a send that blocked would hold its goroutine
before `wg.Done`.

### What it shows

* `Provision` is the fork-join it looks like, for every interleaving with signals.
* `SurvivorsAreCutOff`, of a launcher that ends by itself: a signal that meets a Start half-way leaves a VM running that no `Machine`
  stands for, but never one that is still on its node's directory, unless the cluster is persistent:
  a Cleanup cancels the context before anything else and then removes every directory it has not
  logged. Such a VM (`orphan`) runs on deleted files. A launcher that is *killed* leaves its VMs on
  their directories, with nothing logged: no property of the code says otherwise.
* `ReadyOnOwnDevices`: nevertheless no later run announces a cluster over what a killed one has left. A
  device is taken as it is found, but one that is held by an orphan makes the Start fail, and one that is down
  lets no ssh through. What is not prevented is that the next run truncates the root image of an orphan
  that still runs on it (cluster.go:265).
* `UnseenMeansFailed`: a VM that `Cleanup` cannot see belongs to a Start that failed. It is seen by nobody:
  its `Machine` is nil, and `Provision` returns one of the errors and drops the others
  (cluster.go:112-117). What ends such a VM is the cancelled context, if the launcher lives long
  enough, and `SurvivorsAreCutOff` is what is left to say of it.
* `WedgedUntilCleanUp`: a persistent cluster keeps its directories, and with them the API socket
  of a VM that was killed. Nothing in the launcher removes that file, so no later run starts the
  node until the recipe `clean_up` removes it.
* **Finding** `cluster_not_ready`: on a stock host the join command can never be fetched, so
  every cluster is torn down after its master was initialised.
* Further behaviour in the model that no property could exclude, because the code does nothing
  about it: `Cleanup` cancels the context before it calls `Machine.Shutdown` with it, so no VM
  is shut down, all are killed; the signal handler may end the process while a VM is being
  started or not yet killed, and that VM lives on (`orphan`); a goroutine that is still running
  may create its directory again after `Cleanup` removed it; a device whose `up` failed is
  taken as it is by the next run; a second start of a persistent cluster truncates the root images
  (`os.Create`, cluster.go:265) although `Persistent` is to say "Whether storage should persist after
  shutdown" (cluster.go:28); a signal in the instant `c.Nodes` is stored may panic.

## 3. The abstract specifications: `ProvisionBarrier` and `OneClaim`

`ProvisionBarrier` is the fork-join. Each node ends once, up or failed; when all have ended, the decision is to configure if all are
up and to abort otherwise; a restart begins again. `Cluster` maps `outcome` to the state of
the goroutine and the channel (`Outcome`), and `decision` to where `main` is (`Decision`). A run
checks the refinement, a theorem proves it. It is stated apart from `Cluster` because
`SharedSocket` refines it too: `provision_cluster.go` has the same fork-join around another
`provisionNode`. In both the result is what the goroutines *report*; section 7 shows what
a report is worth.

`OneClaim` is what a service gets that creates something under a name before it goes on, where a
name in use is refused and never given back. `taken` are the names in use, `past[n]` the clients that
are past the creation of n; a creation succeeds (`Claim`), takes effect although its client is told that it
failed (`Waste`), and clients leave, several at once if the service ends (`Leave`). Its theorems say that
one client at most is past a name (`AtMostOne`), and that nobody comes past a name that is taken, for ever
(`OnceForAll`). The tenant service does this with a tenant's namespace (`past` is computed from the
handlers' control points, `Past`), the deploy service with the container of a microVM outside `default`
(`Beyond`). Each refinement is checked by a run and proved; that one of several requests at most succeeds, and
that what failed half-way cannot be repeated, follows in both from the abstract theorems.

## 4. Instance orchestrator: `Orchestrator`

A request is a constant, its control point `cpc[c]` or `spc[s]`; `instances` maps ids to the create
whose instance is stored. One action per access to the map and per call on the host. `GET /list`
takes the mutex once and changes nothing; it is the operator `Listed`. The read of
`len(instances)` is a race with writers under the mutex; the length is one word, so it reads as
before or after a concurrent write. Ids are numbers up to the count of creates, which
`TypeCorrect` proves to be enough. Firecracker ends at once when its socket file exists, and a
killed one leaves it.

| Run | Instance | What it checks |
|---|---|---|
| `orchestrator_safety` | 3 creates, 2 stops, faults, all interleavings | `TypeOK`, `StoppedForGood`, `LostOnlyByCollision`, `OneRunsPerId`, `FreshUntilStop` |
| `orchestrator_list_complete` | 3 creates, 1 stop, one request at a time | `ListIsComplete` is violated |

Three creates and a stop are the least that makes the length name an id in use; two stops can meet
at one entry. Requests of a kind are interchangeable, hence the symmetry.

**Finding** `orchestrator_list_complete`: create, create, stop the first, create: the new instance
overwrites the second, which runs on and is in no list. The model also has (as `OpenSocket`) the
instance that is stored and listed although its process ended at a leftover socket file. The other side
of that is `OneRunsPerId`: the file that is never removed keeps two creates of one id from both having
a microVM, whatever happened to the entry.

## 5. Tenant service: `Tenants`

`pc[r]` is the control point of the handler of request r; `ns`, `policy` and `pvc` are the tenants
whose objects exist. A size is known by who accepts it: neither, the handler only (zero or less
parses, and the API server refuses it), or both. A call may fail by itself, before or after it took
effect. Nothing in the repository deletes these objects; an administrator who does is outside
the model, and `OkMeansComplete` then no longer holds.

| Run | Instance | What it checks |
|---|---|---|
| `tenants` | 3 requests, 2 tenants, faults | `TypeOK`, `OkMeansComplete`, `StorageIsIsolated`, `AbandonedForGood`, and that it refines `OneClaim` (`ImplementsClaim`) |

Three requests for one tenant are one that makes the namespace, one that overlaps it and a retry;
two tenants show that they do not disturb each other. That its namespace is a tenant's lock
(`NamespaceIsLock`, from the refinement) is proved only. `AbandonedForGood` is the other side of the lock: a tenant left half-made can never be completed through this service.

## 6. microVM runner: `Runner`

One operator types the commands of `microvm_runner.sh` and `cleanup.sh` in any order (`pc`);
`build` goes through the steps of `docker_to_ext4.sh` one by one, and with `Faults` each of them
may fail or be interrupted, which under `set -e` leaves everything as it is then. The exception is
`docker export | tar`: without `pipefail` its status is tar's, and an export that breaks off at a file
boundary lets the build go on (`whole`). The firecracker
processes (`vm`) run beside the commands: they bind the socket, read `vm-config.json` and open
the TAP device some time after `start` has returned. `rootfs` is what the image holds: `copied` is all of the
export but the dotfiles of the root directory, which `cp -a $TEMP_DIR/*` leaves out, `short` what was
copied of an export that broke off;
a guest whose image was formatted under it (`stale`), is mounted, or has a second guest writes
it `corrupt`. `alone` is history: whether a process was launched on a quiet host. Assumed are
what `STEPS.md` shows (`start` without root, so that firecracker makes no device itself) and a
directory `./tmp`, which no script makes; `vmlinux.bin` is there or not, since the build's
download of it is commented out. External and known from their manuals: `docker create` refuses a
name in use, `mkfs.ext4 -F` a mounted file, firecracker a socket path in use and a TAP device
that another process has open.

| Run | Instance | What it checks |
|---|---|---|
| `runner` | 3 starts, faults | `TypeOK`, `BuiltMeansCopied`, `LonelyStartBinds`, `WedgedForGood` |
| `runner_cleanup` | 1 start, no faults | `CleanupStopsFirst` is violated |

Three starts are a guest that was cut off from its device, one that took its place, and one
that finds the device busy. The number of starts is the only bound.

`BuiltMeansCopied` says of a build that is complete that the image is unmounted and that all is in it which tar had
unpacked. It does not say that all files of the container are, though docker_to_ext4.sh:33 has "Copy all files from
container": a broken-off export is not noticed, and dotfiles of the root directory are left out always. `LonelyStartBinds` is
about the socket; a configuration removed under a process that starts is a boot that fails (`BootFails`).

**Finding** `runner_cleanup`: `stop_vm` reads a pid file that nothing writes. After `stop`,
`cleanup`, `setup-net` and `start` the first guest is still up, without a network, and both write one
image. `WedgedForGood` is a guarantee of the unwelcome kind: a build that ends between `docker create`
and `docker rm` is the last one until somebody removes `temp-container` by hand.

## 7. Shared-socket variant: `SharedSocket`

`pc` and `npc[n]` are the control points of `Provision` and of the goroutines; `target` and `step` are
where `configureKubernetes` is. `proc[n]` is the process that node n's Start launched, `at` the one
whose file is at `/tmp/firecracker-vm.sock`, `cfg[v]` the node whose settings process v was given last,
`by[v]` the node whose Start started its guest, `swept` the Starts that have removed the path (each
does once). A Start is four actions: `Launch` (refused if the path exists), `WaitForSocket` (until
*anybody* answers there), `SendConfig` and `StartInstance` (to whoever answers). `Bind`, `Die`, `Sweep` are
the processes and the SDK's goroutine beside them; from the SDK and firecracker come the rules named in the module's head.

| Run | Instance | What it checks |
|---|---|---|
| `shared_socket` | a master and two workers, faults, `FairSpec` | `TypeOK`, `OneSurvivor`, `NeverSucceeds`, `NothingLeftRunning`, and that it refines `ProvisionBarrier` |

Three nodes let one goroutine set up a process that a second launched while a third removes the path.
`FairSpec` is fair to `main`, to the goroutines, to the SDK, and to the kill that a cancelled context
brings. It is not fair to guests (`Configure`), nor to processes ending by themselves. The kill takes place only as long
as the calling program lives (`Killing`); that program may end once `Provision` has returned, or before
(`CallerEnds`), and what it leaves then is left for good.

What it shows: all nodes may well be reported up, but then at most one microVM is alive, and every
other process has died after its Start returned; with more than one node `Provision` never returns
nil. After a failed `Provision` nothing is left *if the caller lives on*, although `node.Machine` is nil for
some processes: the cancelled context reaches them all. Nothing makes the caller wait for that: `main.go:164-166`,
the sibling's caller, logs the error and ends, and the same there would leave microVMs running. With one node the model reaches `ok`.

Abstracted: the root image copied to the node's directory is never used, since `pathOnHost` is fixed
(line 142). A MAC such as `AA:FC:00:00:00:0m` (line 148) is not hexadecimal and no gateway is given,
for which firecracker or the SDK may refuse every Start: a refusal at any point is among the
branches of `EnvFaults`, and the properties hold with and without it.

## 8. Deploy service: `Deploy`

`pc[r]` is the control point of request r's handler and `key[r]` the microVM (namespace and id) it names.
The service keeps nothing; `snap`, `cont` and `task` are containerd's, which outlive it (`Crash`,
`Serve`), and `lease` is the lease `NewContainer` holds while it makes the snapshot and the container.
One action per call to containerd: `Pull`, `Prepare`, `NewContainer`, `NewTask`, `CreateTask`, `Start`
for a deploy, `Load`, `Check`, `Get`, `RemoveSnapshot`, `RemoveContainer` for a delete. External, from
containerd 1.7.24, the version in `go.mod`: any call may fail, a name in use is refused, `container.Delete`
refuses a container whose task it finds, even a stopped one, and goes on when that look-up fails for any reason, a snapshot is collected when neither a lease nor a container refers to it.

| Run | Instance | What it checks |
|---|---|---|
| `deploy` | 2 deploys, 2 deletes, a microVM in `default` and one outside, faults, crashes | `TypeOK`, and that it refines `OneClaim` outside `default` (`ImplementsClaim`) |

Handlers are reused without a bound, so two of a kind are any number of requests of which two overlap;
a third would have to meet both at one name, and nothing a handler reads was written by two. The
invariants are proved for any number.

What it shows: outside `default` the container's name serves as a lock between deploys (`OneDeployer`), *and* as a
trap: a deploy that failed after `NewContainer` can never be repeated (`UsedUpForGood`), because
the delete handler looks in `default` only. Inside `default` a deletion can take the container from under
a deploy between its container and its task.

Inside `default` no property holds that the comment "deleteMicroVM deletes a Firecracker microVM" (main.go:147) would
suggest, and none is stated. A microVM that was deployed has a task, nothing in the service ends a task, and so every delete of it
is refused (`Check`), unless the look-up of the task fails. A delete that looks for the task just before a deploy creates it removes
snapshot and container under that task and answers with success.

## 9. One host: `OneHost` with `ImageBuilder`, `K8sLauncher`, `VMClients`

`OneHost` composes the stand-alone programs of `src/src` as one operator uses them: `StartMachine`, which
never returns, in a terminal of its own, the others one after the other, in any order and again
and again. What outlives a program is the next one's start: the image, the mounts on `/mnt`, socket files
and microVMs. `K8sLauncher` EXTENDS `ImageBuilder` because its guests boot what the builder left
(`Boots`); the programs of `VMClients` use another drive.

| In the code | In the model |
|---|---|
| the program point of each `main`, of the two goroutines | `bpc`, `kpc`, `spc`, `gpc[v]`, `cpc` |
| `rootfs/`, `k8s-img-rootfs.ext4`, what is mounted on `/mnt`; whether others used it during this build | `rootfs`, `image`, `mnt` (a stack); `shared` (history) |
| the loop variables of `main` and its helpers | `node` |
| the socket files, the microVMs | `sockets`, `vm[n]` (`hung`: ssh will not get through); `usocks`, `alive`, `stray` |
| which nodes this run has started; whether `kubeadm init` ran | `launched`, `inited` |
| the process on `/tmp/firecracker.socket` and what it was told | `fc`, `settings` |

| Run | Instance | What it checks |
|---|---|---|
| `one_host` | a control plane and 2 workers, 2 microVMs, 3 runs, faults, kills | `TypeOK`, `BuiltMeansFilled`, `AnnouncedMeansBooted`, `StartedWithDrive`, `StuckUntilUnmounted`, `TakenForGood`, `NotStartedTwice` |

`MaxRuns` = 3 is the least that lets a build, a run of the launcher that fails or is killed, and another run or a
build under what it left follow each other; the proofs have no such bound. Others have at most one thing mounted on `/mnt`
at a time (`OneOther`), which is what they need to get between any two commands of the builder.

* `BuiltMeansFilled`: the builder reports success only for a filled, unmounted image, although its
  deferred unmount runs a second time and then takes away what somebody else had mounted below. That is so if
  others keep off `/mnt` during the build; nothing keeps them off, and what they mount there gets the files instead.
* `StuckUntilUnmounted`: after a kill or a failed unmount every later build zeroes the image and fails.
* `AnnouncedMeansBooted`: what holds of "success" is that this run started every node and reached its
  guest once. It says nothing of the joins, whose errors are logged. `AssignStaticIP` may fail on any guest: its
  command names the host's TAP device, which a guest has only by chance (line 415).
* `TakenForGood`: a run that ends with the control plane's socket file in place is the last one that gets past
  its first Start, until somebody removes the file.
* `NotStartedTwice`: the socket files, which nobody removes, are what protects a surviving microVM whose Start has
  returned. A microVM that lives although its Start failed (`stray`) may have lost its file to the SDK: the
  next run starts it a second time, on the same drive, and no property says that it does not.
* `StartedWithDrive`: the order of the four requests does, against a process that is replaced in between.

Not prevented by the code, and reachable in the model: an image rebuilt under guests that run on it; two
microVMs that write one drive; a stray microVM of `StartMachine` beside a second one of its name. Left out: what
`joinNode` does inside a worker; what `extractTarGz` drops (links, devices, modes), since a "full" image is one
with everything the tool copies. The launcher asks for a TAP named `tap-control-plane`, 17 characters
where Linux has room for 15, and gives no gateway: on a stock host its first Start is probably always
refused, which is one of the branches of `Launch`.

## 10. Proofs

All theorems are checked by `tlapm` to the last leaf, for any value of the constants that
satisfies the modules' assumptions (`ConstantsOK`, `RequestsOK`, `RunnerConstantsOK`,
`SharedSocketConstants`, `DeployConstants`, `LauncherConstants`, `HostBounds`), which TLC evaluates in the runs.

`ClusterProofs`, from type correctness (`TypeOK` is inductive) upwards:

| Invariant | Says | Gives |
|---|---|---|
| `Phase` | where `main` is determines whether goroutines exist and have all ended | |
| `NodeOutcome` | a goroutine that has ended has a machine or an error, one that has not has neither | `ConfigureAfterAllUp`, `UnseenFailed`, `ErrChNeverFull`, `ProvisionIsBarrier` |
| `ImageOK` | which images may be partial at each point of a goroutine, and under which VM | `NoPartialBoot` |
| `TapOK` | in a first run a device exists only from `TapAdd` on | `FreshHostTapUp` |
| `Removal`, `Ended` | the directories main's Cleanup has passed are gone or logged, also after it exits | `FailureCleansUp` |
| `Passed` | a Cleanup past its first step has cancelled the context, and what its loop has behind it is cut off or logged | `SurvivorsCutOff` |
| `StartingHasVM` | a Start under way has a process | `WedgeStays` |
| `Smooth` | without faults each call of a goroutine finds what the calls before it have made | `NoFaultNoFailure`, `MainIsBounded` |
| `Joining` | the workers before `target` are joined, and the master is as far as `main`'s control point says | `JoinOrder`, `ReadyIsAssembled` |

`Passed` holds of two loops that run at once over the same nodes while goroutines may still start VMs: only
`StartVMM` makes a VM that is not cut off (`StaysCutOff`), and the context is cancelled before either loop
begins. A launcher that was killed is excluded. A Cleanup that finds `c.Nodes` nil has no loop; then no goroutine exists, or none starts anything any
more.

`CleanupIsBounded` and `GoroutinesAreBounded` are the part of termination that can be proved: a rank
(`CleanupSteps`, `NodeSteps`) that each step of a Cleanup or of a goroutine lowers and that no step of
anybody else raises. With `ErrChNeverFull`, by which a goroutine is never held at its send, what
`CleanupEndsRun` and `WaitReturns` add to them is that a step that stays possible is taken.

`EventuallyReady` has the same two halves. Where nothing fails (`FaultFree`), no step of the launcher makes
another fail, for any number of nodes (`NoFaultNoFailure`), and each step of `main` lowers `MainSteps`
(`MainIsBounded`). On a stock host, on the other hand, nothing gets `main` past the join command, with or
without faults and in any run (`NeverReadyOnStockHost`): the finding of `cluster_not_ready` does not
depend on the size of its instance.

`ErrChHasRoom` needs a count: the nodes in `errCh` are among those that have ended, so the one that is
about to send is missing from them. Safety properties speak of the state, not of the order in which
it came about, so each needs the invariant of its row; none is inductive alone. `ProvisionIsBarrier`
maps every step of `Cluster` to a step of the barrier or to a stutter.

`OrchestratorProofs`: `Entries` (an entry is the instance of an answered create under that create's
id, and a stop holds such an instance) makes the map injective, so that its length plus one is an
id (`TypeCorrect`). `Stopped` (what was killed stays dead, and only the entry a stop deletes could lead
to it) gives `StopsForGood` and, since the entry lost to another stop belongs to a live process,
`LostByCollision`. `Serving` (a process that serves has its socket file, a create without an id has no
process) with `OneRunsPerId` is inductive (`OneServes`). `Fresh` (until a delete the ids in the map are exactly 1..k) gives `FreshIds`.

`TenantsProofs`: `Progress` (a handler past a call relies on its object) is inductive with `StorageIsIsolated`.
`NamespaceIsClaim` maps every step of a handler to one of `OneClaim`; `NamespaceLock` is its
`AtMostOne`. `NeverRepaired` is shown step by step.

`RunnerProofs`: the type invariant, which says that a mount or a process has an image, is not inductive
without `BuildOK` (how far a build under way has brought the image), which also gives
`BuildIsCopied`. `LonelyOK` (while the latest process, launched on a quiet host, has not booted,
all others are dead) gives `FreshStartBinds`, and `Wedged` is an invariant of its own for `WedgeLasts`.

`SharedSocketProofs`: `Control` (what `Provision` knows of its goroutines), `Starters` (a Start that
returned nil has started some guest) and `OnPath` (while no Start failed and no process was refused,
the one at the path is the only one alive) are inductive with `TypeOK`. When all nodes are up, as many
guests were started as there are nodes, and a process starts one guest at most: the map from processes to
the Starts that started them is onto, so every process has started one (`AllStarted`, by cardinality),
none was refused, and `OnPath` leaves one alive (`OnlyOneSurvives`). It has one address, so that only one
node can be reached; `Stage` carries that through `configureKubernetes` (`ProvisionNeverSucceeds`). `AllDoomed`
is the part of `NothingLeftRunning` that needs no fairness: after the error, and as long as the caller lives, the
context stays cancelled, nothing is launched, and `ProcSteps` only falls.

`DeployProofs`: outside `default` containers only come, and a deploy gets beyond `NewContainer` only with
one that was not there (`OutsideStays`); so every step that makes such a container is a `Claim` or a `Waste`
and every other a `Leave` (`ContainerIsClaim`). `DeployersDiffer` and `NamesAreUsedUp` are `AtMostOne` and
`OnceForAll` read through the refinement mapping.

`OneHostProofs`: `Parts` says what a step is to each program, so that each has an invariant of its
own. `BuildInv` adds that the image is mounted once and on top (`OnceOnTop`) from mount to unmount while others keep off,
`KubeInv` which nodes were launched (`Launching`) and reached (`Booted`) at each control point,
`ClientsInv` that a process asked to start a guest was given the drive or nothing at all.

Only model-checked: the liveness properties (`WaitReturns`, `CleanupEndsRun`, `EventuallyReady`,
`NothingLeftRunning`), because temporal reasoning with fairness is outside the prover's reach, though the safety half
of each is proved (`GoroutinesAreBounded`, `CleanupIsBounded`, `NoFaultNoFailure` with `MainIsBounded`,
`AllDoomed`). Only proved, because their
refinements and neighbours are what the runs check: `ConfigureOnlyAfterAllUp`, `NamespaceIsLock`, `OneDeployer`,
`UsedUpForGood`, `FirstRunTapUp`, `CleanupAdvances`, `GoroutinesAdvance`, `WedgedUntilCleanUp`, `NothingFails`, `MainAdvances`,
`StockHostNeverReady`, `EndsAfterError`. The violated
properties are counterexamples and need no proof.

## 11. Not modelled

* Guest set-up (`src/setup/*.sh`, `src/k8s/install_k8s.sh`): linear package installation inside a
  guest, no state of this system.
* Launch scripts (`src/launch_node_ip.sh`, `src/start_vm.sh`, `src/k8s/*.sh`): fixed lists of commands. What
  could go wrong between two of them, a TAP device, socket path or image in use, is what `Runner` has
  for the runner and `Cluster` for the launcher.
* `src/convert_docker_to_ext4.sh`: a linear script with the steps of `docker_to_ext4.sh`, which `Runner` has.
* The other recipes of the Justfile and `setup_network.sh`, the OpenAPI specification, configuration files
  and binaries, and the handlers that are commented out.
* Clock time: the two minutes of `waitForSSH` are a choice between success and failure.
* The text of addresses and device names, except `HostPart` in `SharedSocket`, which knows that the host part of
  an address ends at 255. A module of pure functions (`getNextIP`, the device names and their 15
  characters) against a reference definition would be the next one to write.
