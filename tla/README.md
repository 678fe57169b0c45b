# Verification of open-functions

TLA+ models, TLC runs and TLAPS proofs for open-functions, the host that builds,
starts and routes to HTTP and Pub/Sub functions. `CORE` below stands for
`src/crates/open-functions-core/src/`, `BIN` for `src/crates/open-functions/src/`.
`PROJECT.json` holds the same facts for tools: which definition models which lines,
what each run checks, which mutation of the code each property catches, the hazards
and the theorems.

## 1. The system

One process serves two listeners: the ingress (`BIN/server/invoke.rs`), which maps a
request to a function and forwards it to one of its instances, and the admin API
(`BIN/server/admin.rs`), which deploys, deletes and stops functions. Handlers are tokio
tasks; **hyper drops a handler's future when its client goes away**, at whatever await it
is. Background tasks are one idle reaper per pool, one retry loop for Pub/Sub triggers, one watcher
per instance, and the drains that copy output into logs.

| Component | State | Operations | Talks to | What makes it correct |
|---|---|---|---|---|
| Instance pool `CORE/pool/` | `PoolState`: instances by address, `starting`, `draining`, the spec template; a global semaphore shared by all pools | acquire, warm_to, report_dead, reap_idle_once, begin_drain, stop_all | drivers (spawn, stop), handlers, reaper, delete | limits per pool and in total; one start at a time; nobody waits for a start nobody makes; the reaper spares busy instances and min_instances; acquire returns |
| Invoke and push `BIN/server/invoke.rs`, `BIN/forward.rs` | the handler's locals (permit, pool) | one request each | record, pools map, pool, instance | a broken connection reports its instance; nothing leaks when the client goes away |
| Registry `CORE/registry/service.rs` | pools map, reapers, `building` | register (Dir, Image), delete, stop_instances | store, build, pool, reconciler | Ready means restorable; a failed redeploy is harmless; the name is released; history is kept |
| Restore `CORE/registry/restore.rs` | none of its own | settle interrupted builds, re-create pools, warm up | store, registry, pool | what the running builds it finds mean for their functions is settled; what is Ready gets its pool back |
| Store `CORE/registry/redb_store.rs` | tables of functions, revisions, builds, bindings | one transaction per call | - | each call is atomic and durable |
| Reconciler `CORE/pubsub/reconcile.rs` and client | stored `TriggerBinding`, the subscription at open-pubusb | try_bind, try_unbind, sweep_once | open-pubusb, store | bindings tell the truth, converge, and are not retried for ever |
| Drivers `CORE/runtime/` | `InstanceHandle` and its oneshot channels, the watcher task, cgroups, containers | spawn, stop, wait | OS, dockerd | spawn and stop return; an exit is reported of what is gone; nothing is left in nobody's hand |
| Builds `CORE/build/` | the revision's directory, the log file | build | cargo, uv or pip, docker | an artifact is what its own build made, also after a failed attempt; a build returns |
| Logs `CORE/logs/` | `LogStore`, ring buffers, broadcast channels | push, tail, subscribe, remove | drains, admin API | a follower misses and repeats no line it could have had |
| Admin API `BIN/server/admin.rs` | streaming followers | deploy, delete, stop, logs, build log | registry, logs | a build log's follower sees the end of it |
| Serve `BIN/serve.rs` | the shutdown sequence | start, serve, shut down | all | no instance survives the host |
| Resolver, conversion, headers `CORE/resolve/`, `CORE/pubsub/convert.rs`, `CORE/forward/` | none (pure) | resolve, to_cloud_event, rewrite | invoke handlers | the instance sees the caller's request, of its own function, with the host's marks |
| Validation, CLI, SDK, metrics, launch specs | none that the others depend on | - | - | - |

### What is hard here

* *Interleaving.* Every `await` between two critical sections of a pool, every pair of
  store calls of a deploy, and every call of open-pubusb is a place where the others run.
* *A value used after an await*: the capacity test before `driver.spawn()`, the record
  read before a build of minutes, the bindings the sweep listed, the address of an
  instance whose port may have a new owner.
* *Dropped futures.* A handler may end at any await without running the code after it.
* *Crashes* between the store calls of a deploy and of a delete, and halfway through a prune.
* *Lost answers* of open-pubusb after the call had its effect, and messages it delivers again.
* *What outlives its owner*: installers past their deadline, detached log drains, containers.
* *Waiting*: `notify_waiters` wakes only who already waits; the pools map is held while
  instances stop.
* *Boundaries*: pruning at `current - 1`, numbering from `current + 1`, the reaper's floor.

The full list, each entry at its line and with the properties aimed at it, is under
`hazards` in `PROJECT.json`.

## 2. The modules

### InstancePool

The pools, their callers and the processes. State and code correspond as follows.

| Variable | In the code |
|---|---|
| `tracked`, `starting`, `draining` | the fields of `PoolState` (instance.rs:115-135); the entries of all pools are one set, split by `owner` |
| `freeGlobal` | free permits of the `global_limit` semaphore |
| `pc`, `pool`, `inst`, `waited` | where a handler or `warm_to` is, and its locals |
| `proc`, `owner`, `addr` | what the operating system knows of an instance |
| `unused` | the time since `InstanceState.last_used` |
| `admin` | what `fn stop` or `delete` is doing to the pool |

Each critical section of the pool's mutex is one action: `AcquireExisting` and `NoneFree`
for the pass over the entries, the four outcomes of `begin_start` as `BeginProceed`,
`BeginDraining`, `BeginWaitForOther` and `BeginAtCapacity`, `finish_start` as `FinishStart` and
`FinishStartFailed`, then `ReportDead`, `ReapIdle`, `BeginDrain`, `StopAll`. The forwarding
of a request ends as `ForwardOk`, `ForwardTimeout` or `ForwardBroken`, by who listens at the
address of its instance; `BodyEnds` ends a response whose body outlives its handler.
`Disconnect` drops a handler wherever it waits: the global permit returns, as
`OwnedSemaphorePermit` does in its drop, and the flag `starting` does not, as in the code.
`Exit`, `Crash` and `Tick` belong to the outside. `Environment` says which events of the
outside a run allows, and `PromptSteps` whether the clock may overtake a caller that could
take a step.

The permits of an instance are not counted by a variable: they are the callers that hold
one, `HoldersOf`, which is what an owned permit is.

### Registry

One function: its record, revisions, build records and files, which survive a crash, and its
pool, the name in `building` and the handlers, which do not. Functions meet only in maps
keyed by their names, and one name is enough to say what register, delete and restore do to
each other. A call of the store is one action, so `register()` becomes `Accept`, `ReadExisting`,
`PutBuilding`, `PutBuildRunning`, `BuildStarts`, `BuildSucceeds` or `BuildFails`, `PutBuildResult`,
`PutRevision` or `PutFailed`, then `activate_revision()`: `SwapTemplate`, `ReadCurrent`, `PutReady`,
and `prune_old_artifacts()`: `PruneSkips`, `PruneRemoves`, `PruneMarks`, `PruneEnds`; an image deploy
is `PutImageReady` before `PutRevision`. `delete()` is `FindFunction`, `PutDeleting`, `TakePool`,
`StopReturns`, `DeleteRecord`, `RemoveFiles`. `restore()` walks over the running builds it listed once
(`listed`, taken at the crash that precedes it, since nothing changes them in between): `FailBuild` and `FixFunction`
for each, then `BuildsReconciled`, and `RestorePool` or `NothingToRestore`. `files[n]` says *whose* build made
the directory of a number, because attempts of the same number share it. `torn` is a history variable: a crash
came `Halfway`, between two records of which the first alone is not the truth. The properties that cannot hold across
such a crash name it, and `NeverStuckBuilding` is what such a crash breaks.

### Reconciler

The Pub/Sub trigger of one function: record, stored binding, and the subscription at
open-pubusb. `Created`, `Refused`, `Conflict`, `Inspect`, `Remove` and `Unsubscribe` are the calls of the
client (`recreate` is `Remove` followed by a second `Created`), `CallFails(effect)` is a call that had its effect and no good answer, or
neither, `PutBinding` and `DeleteBinding` are the store calls. `ListBindings` starts a sweep over a due
binding with what it read. `calm` is a history variable: no two operations have overlapped and
none was cut short; the promises that hold only then name it.

### InstanceBudget

What the limits promise, without locks, waiting or addresses: `Admit` takes a place of a pool and
of the whole, one start at a time per pool, `Open` ends the start, `GiveUp` and `Release` give
places back. `InstancePool` implements it: `occupied` is what is tracked or being started,
`opening` what is being started, `home` the owner (`Budget` and `ImplementsBudget` in InstancePool).
It is deliberately ignorant of the semaphore: a permit lost or doubled shows as a step that is
no step of the budget.

### InstanceDriver

`spawn()` of both drivers, one action per await: `LaunchProcess`, or `LaunchContainer`, `StartContainer`,
`InspectAddr`; then `Ready`, `ReadyTimeout` or `ExitedBeforeReady`, and `Undo` for what a failed start
removes. `DropSpawn` drops its future: `kill_on_drop` sends SIGKILL to a process, a container has
nobody. The watcher task is `SelectExit`, `SelectStop`, `GraceOver`, `StopReturns`, `Reaped`,
`RemoveContainer`; the handle moves from the start to the pool and from there to a stop, a wait, or
nobody. `limiter` and `limited` are CgroupLimiter and its cgroups. `Shutdown`, `StopAllInstances` and
`Exit` are the end of serve.rs, `HostDies` is a host that is killed, `Restart` sweeps the containers.
Which instance is stopped, and when, is InstancePool's decision; here any may be at any time.

### PythonBuild

The artifact directory of one revision number through several attempts. `src`, `reqs` and `venv` are its
parts, `proc` the installer each attempt started, which has a life of its own (`CommandSteps`): a deadline
ends the wait and not the process on the host. `SnapshotEntry` copies one entry with what `fs::copy`,
`create_dir_all` and `symlink` do when the name exists; `Resolve` writes the requirements; `Launch`
and `CommandEnded` are the host's commands, `ContainerEnded` the one script of the container.
`Edit` changes the source between the attempts and during them.

### BuildLog

The log file that all attempts at a number share: `CreateLog` truncates, a writer writes at the
position of its own handle (`WriteAt`, which leaves a hole when the file was truncated under it), and
`DrainEnds` is the detached task of host cargo. The follower reads (`ReadNewBytes`), and after an empty
read ends or waits and fetches the status (`AfterEmptyRead`), in the code's order.

### LogRing

The drains of a function's instances, `LogStore`, ring and channel, and one follower. `push()` is two
actions, `Insert` under the lock and `Send` after it; the handler is `Find`, `ReadTail`, `Subscribe`; `Recv` has
what `broadcast::Receiver` does when it lags (its own rule, external). `Line` is a line's identity: its drain and
its number there. `inserted` and `sent` are histories of a buffer, whose orders differ when two drains push at once.

### Invocation

The invoke listener, from the request line to the answer, with awaits as boundaries: `Admit` (route,
record, or the push's envelope and trigger), `Lookup` (the pools map), `NotAcquired` or `Forward`,
`InstanceAnswers` or `ForwardFails`, `Return`; `Abandon` drops the handler. `Resolve`, `RewriteRequest`,
`RewriteResponse`, `MapOutcome`, `Parses` and `ToCloudEvent` are the pure parts, over hosts and paths as
sequences of labels and segments and headers as sequences of lines of tokens. The registry appears as far as the handlers read it
(`Declare`, `Activate`, `FailBuild`, `MarkDeleting`, `RemovePool`, `FinishDelete`), open-pubusb as messages that are
pushed until they are acknowledged, by subscriptions that `Bind` makes some time after the record has its topic and that
a delete may leave behind. `registrations` is the history of register() calls; a pool is known by the number of the one that
created it, and so an instance by the function its pool was made for. A handler that has found a pool may forward to it
however long it has been removed and drained: `try_acquire_existing()` and `finish_start()` ask for neither
(instance.rs:456-477, 518-538). The source of an event is the topic of the record the handler read, which is not the
message's own when the function was registered for another topic in between. A delete that overlaps a build is
Registry's subject and left out here.

### How they fit together

The modules share no variables; each takes what it needs of a neighbour as its own, more general,
choice. InstancePool's `FinishStart`/`FinishStartFailed` are the two results of InstanceDriver's
`spawn()`; InstanceDriver lets any instance be stopped at any time, which covers the reaper, the drain
and the stop of InstancePool. Invocation lets `acquire()` grant or refuse as it likes, which covers
InstancePool; Registry lets a build succeed or fail, which covers PythonBuild and BuildLog. Each of the
two attempts PythonBuild and BuildLog allow at a number is a deploy that Registry repeats under the
same number.

### What the models leave out

* Durations. Waits count up to the bound they are compared with; a backoff is `later` or `due`, a
  deadline passed or not.
* Answers of open-pubusb to the reconciler are: created, conflict, missing topic (4xx), and no good answer
  (5xx, timeout, or lost). An unreadable body of a 2xx answer, which the client turns into a
  permanent error, is not modelled.
* Errors of the store's backend, logging, metrics, and the bytes of bodies.
* `set_spec_template` matters to Registry, where `template` is; InstancePool does not say which
  revision an instance runs.
* `set_current_revision` of the store: nobody calls it.
* A cgroup that cannot be deleted (cgroup.rs:128 logs a warning and leaves it): `CgroupsRemoved` is about the
  paths on which the removal is not even tried.
* Directories inside the source of a Python function: an entry that is one stands for what is below it.

## 3. The runs

| Run | Instance | Question |
|---|---|---|
| `pool_faults` | 2 pools (1 and 2 instances at most), global limit 2, min 1, concurrency 1, 2 requests, 2 instances, 2 addresses, every event of the environment | Do limits, permits, single flight and the reaper's promises survive everything the outside does, and is each step one of the abstract budget? About 1.1 million states. |
| `pool_live` | 1 pool, 2 requests, 1 warm-up, waits and idle time of one tick, crashes and a delete | Does everyone come back: acquire, lookup, warm-up? Is any process forgotten? |
| `registry_deploy` | 4 source deploys, 2 crashes, clients that go away | Is a Ready function restorable at any time, is the template's artifact kept, is history kept? |
| `registry_live` | a source deploy, an image deploy, a delete, a crash | Is a failed redeploy harmless, also across a restart, and is the name released? |
| `reconcile` | 2 registers, a delete, the sweep; 3 topics, one missing, and HTTP; 2 lost or failed calls, a crash | Do bindings tell the truth and converge, and do retries end? |
| `drivers` | a process and a container, 2 lives of the host, every fault | Is what is reported gone gone, is anything left in nobody's hand, do spawn and stop return? |
| `python_build` | 2 files (main.py, requirements.txt), 2 contents, 2 attempts, 1 edit, both builders, every fault; 0.9 million states | Is a ready artifact its own attempt's, and does every build return? |
| `build_log` | 2 attempts of up to 3 lines, both kinds of writers, dropped and killed | Does the follower get the whole log of its build, and an end? |
| `logs` | 2 drains of 2 lines, 2 buffers, ring and channel of 2, tails of 1 and 2 | What can a follower miss, get twice or out of turn, and does its stream end? |
| `invocation` | 1 client with a request for each rule of routing and header rewriting, 1 delivery of 1 message in 5 kinds of envelope, 2 functions of which one is called, 2 topics, 2 registrations; 135,000 states | Does an instance of the function that was named get the request that was sent, whatever is deleted or registered between the steps of its handler? Is nothing acknowledged that was not handled, does every message get through? |
| `pool_wedged`, `python_retry` | see section 4 | two sentences of the code that are not so |

What the properties say, beyond the names:

* InstancePool: `AdmissionInv` is `AtMostMaxInstances` (no pool tracks and starts more than its limit),
  `PermitConservation` (free permits, entries and starts add up to the global limit) and `FlightInv` (one
  start per pool, announced by `starting`). `ReaperSparesHolders`, `FloorKept` (no reaping below
  min_instances), `NoOrphan`, `AtMostOneSurvivor` (a delete leaves at most the one start that was under way).
  `CallsReturn`: acquire, the lookup in the pools map and the warm-up come back.
* Registry: `ReadyIsBacked`, `TemplateIsBacked`, `ReadyHasPool`, `HistoryKept`, `FailedRedeployHarmless`,
  `BuildingReleased`.
* Reconciler: `BoundIsSubscribed`, `RecordIsBound`, `DeletedIsUnsubscribed`, `RetriesEnd`.
* InstanceDriver: `ReportedIsGone`, `ContainersInHand`, `ShutdownLeaves`, `CgroupsRemoved`, `SpawnAndStopReturn`.
* PythonBuild: `ReadyIsOwn`: the packages are those the revision's requirements ask for and the files those
  its source held when they were come across. The exceptions are part of the statement: an installer
  that an earlier attempt left behind, a file the source no longer has, one written through a link.
* BuildLog: `FollowerComplete`: a stream that ended has given the whole log of its build in order, but in the cases
  the definition names.
* LogRing: `FollowerSees` says which lines a follower may miss or get twice: the windows in which the code does lose or repeat
  a line are named one by one, so that a new one is a violation. It says nothing of order; `FollowerInOrder` does: the
  tail comes in the order of the ring and the rest in that of the channel, and no line of a drain after a later one of it.
  Between two drains there is no order to keep, since ring and channel need not agree.
* Invocation: `ExchangesIntact`: the function, the path, the event and the headers of what an instance gets, and the execution
  id of the answer. It names the function of an instance's pool and not the revision the instance runs, which the handler does not know.
  `AckedIsHandled`, `MessagesGetThrough`.

Each module has a `TypeOK` next to these.

**Bounds.** *Pools*: two pools and a global limit of two let one pool take the other's last permit while
the larger still has room of its own; two requests compete for one instance, for one start, and
with the reaper; two addresses let a port pass to a newer instance while an old permit still
names it. Concurrency 1 makes every second caller meet a full instance. A third request
repeats the role of the second, since the code compares counts with limits and never callers
with each other; the proofs of section 5 do not need the bound. Waits of 0 in `pool_faults` let every timer fire
at once, which is the worst order; `pool_live` has waits of one tick, so that a wait can be both
ended by a notification and by its timeout. *Registry*: four deploys reach revision 4, the first number at
which a prune passes over one already pruned, and let two deploys fail in between; two crashes let
the second hit the work of the first restore. *Reconciler*: two failures let both calls of `recreate` fail
or one be lost and its retry fail. *Drivers*: instances share only the limiter, so one of each kind shows
what one's failure does to the other; two lives have one restart, which is all a sweep needs.
*Builds*: an attempt's leftovers are met by the next one, and an edit in between makes the two differ.
*Logs*: ring and channel of 2 both overflow with 4 lines; a second buffer is what a delete makes.
*Invocation*: two registrations, of one function or of two, let a request find the record of one and the pool of the
other, hold a pool that was deleted while the next one is there, and the trigger change; with two functions a
pool or a message of the wrong one would show, and two topics tell the message's own from the record's. What is
called is one of the functions (`Called`, and `Subscribers` has it only); the other is the one that must not be called instead, and
since no action tells functions apart, nothing is gained from calling both. An exchange reads nothing another one writes but
whether the message is outstanding, so one of each kind is enough: a delivery that is dropped or whose answer is lost makes room
for the next one of the same message. That several of them overlap is left to `NothingLost` of section 5, for any number of
deliveries. `MixedTraffic = FALSE` keeps
client requests and messages out of each other's behaviours: neither writes anything the other reads.

**Deadlock** is not checked: requests, deploys, starts and messages are made once each, so every model may
stop when all are handled. Nobody waiting for ever is what the liveness properties are for.

**Fairness.** tokio polls a runnable task, a spawn is bounded by `start_timeout`, a stop by its grace
period, a build and a call of open-pubusb by their timeouts, the sweep ticks every five seconds, and
the kernel delivers SIGKILL: those steps are weakly fair. A step that needs a lock others may take again and again is strongly
fair, because tokio's `Mutex` and `RwLock` serve their waiters in order: lookups, the steps of a delete,
`SwapTemplate`, `TakePool`. So is the clock. Some awaits have no timeout in the code and are assumed to return: the calls of
dockerd, the pull of an image, the copy of a snapshot and the `--version` probes of the Python tools. A build that hangs in one of
them does not return, and `BuildReturns` and `SpawnAndStopReturn` do not say otherwise. In BuildLog the detached writer stops after
`MaxLines`; a process the build leaves behind that writes for ever would keep the stream open. Requests, clients, crashes, failed calls, edits, an installer's
progress and the admin's commands are never fair. `PromptSteps` in `pool_live` says that no tick passes while a caller can take
a lock step; without it a bounded wait could expire between any two polls for ever, which
no clock of milliseconds does. `MessagesGetThrough` is the one property that needs more than the host can
give: that open-pubusb goes on delivering, that a pool does not refuse every time and that a
function which is asked again and again answers 2xx some time (strong fairness per message). It says that the host adds
no reason of its own for a message to be refused for good.

`pool_live`'s clients stay connected and its ports are not reused: with a client that goes away
acquire does not return, as `pool_wedged` shows.

## 4. Where the code and its own words disagree

The first two are the counterexamples of runs; the next seven were, and are reproduced by giving the
definition named as the INVARIANT of the cfg named, in place of its own properties. The others are what the
models had to follow against a comment; `PROJECT.json` has the lines.

| Run or definition | The words | What the code does |
|---|---|---|
| run `pool_wedged` | `starting` is set "while one caller is in the middle of `driver.spawn()`" (instance.rs:123) | a client that goes away during a cold start leaves it set; every later start of the pool waits for nobody, without ever reaching queue_max_wait |
| run `python_retry` | a retry at the same number must not fail "regardless of whether the actual problem was fixed" (host.rs:199-207) | the snapshot's symlink(2) fails with EEXIST over the one a failed attempt left; the number never changes, so neither does the outcome |
| `NeverStuckBuilding`, registry_live.cfg | restore never leaves a function "stuck `building` forever" (restore.rs:9-13) | it goes by the builds that are still running: a crash between the record and its running build, between a build's result and the function's new state, or between the two stores of restore itself leaves the record at Building, and no restart settles it |
| `DeleteScalesToZero`, pool_wedged.cfg with `Environment = {"delete"}` | a completed delete "really has scaled the function to zero" (service.rs:1304) | a start in progress hands its instance to the drained pool after delete has returned |
| `BusyNeverReaped`, pool_wedged.cfg with `Environment = {"stream"}` | "A busy instance is never reaped" (instance.rs:419) | the permit goes with the handler, the body still streams, and the reaper stops it after idle_timeout |
| `BuildingIsRunning`, registry_deploy.cfg | `building` holds the names "with a build currently running" (service.rs:245) | an abandoned PUT leaves the name there; later deploys are refused until a restart |
| `PoolFitsTemplate`, registry_live.cfg | `activate_revision` "builds (or replaces)" the pool (service.rs:1033) | a pool that exists keeps the driver and limits of its first activation |
| `BoundAsRecorded`, reconcile.cfg | a desired binding comes from the "current configuration" (reconcile.rs:17) | the sweep works on bindings it listed earlier and can undo a newer registration for good |
| `HttpIsUnsubscribed`, reconcile.cfg | try_unbind serves functions "re-registered without a pubsub trigger" (reconcile.rs:210) | no register path calls it |
| exception `startfailed` of `ContainersInHand` | "Best-effort cleanup" of a container that failed to start (container.rs:148) | the closure only maps the error |
| `ShutdownLeaves` speaks of `collected` | at shutdown "every running function instance gets SIGTERM" (serve.rs:387) | a start that ends after the pools were asked is not stopped; a container runs on |
| `SelectExit` with a handle in `stop` | stop() "Always resolves to `InstanceExit::Stopped`" (runtime/mod.rs:61) | an exit that is seen first is reported as Crashed |
| exceptions of `ReadyIsOwn` | starts "see a frozen copy" of the source (snapshot.rs:1) | a retry copies over the failed attempt's snapshot; what the source no longer has stays |
| `ContainerEnded` | each step's exit code maps to its own error (python/container.rs:181) | every error item of wait_container, which bollard gives for a non-zero exit, becomes a failed install |
| `DeadlinePasses` | the timeout covers "snapshot through entry-point verification" (python/mod.rs:53) | it bounds the wait for the container, or the commands from venv on |
| `FollowerEnds` of LogRing | a follower keeps the buffer by "its own `Arc` clone" (ring.rs:84) | it keeps the receiver only, and ends when the removed buffer's last drain does |
| `FollowerComplete` asks for `"closed"` writers | the stream lasts "until the build is no longer `running`" (admin.rs:445) | host cargo's drain may still write; the last lines are not sent |
| `Refusal` | callers compare `PushEnvelope::subscription` themselves (convert.rs:22) | nobody does |

Two behaviours no document speaks about are in the models and worth a maintainer's decision: a redeploy puts
the record in Building, so that requests are refused with 503 during the build although the old pool is there
(service.rs:471, invoke.rs:102); and a failed redeploy leaves the old revision serving with the new
trigger and limits in its record (service.rs:945), so that pushes may be refused with 400.

## 5. What is proved

Eight modules of proofs, one for each component's module (`<module>_proofs`; the refinement of InstanceBudget is in
InstancePool's), for every value of the constants that meets the modules' named assumptions: any number of pools, requests,
instances, containers, lives of the host, deploys, crashes, topics, failures, attempts, log lines and messages, any
limits, any subset of the environment's events and faults. Every invariant and every action property the runs check, and the
refinement, is stated by a theorem. Where a theorem assumes more, its hypothesis is in its statement: `Calm`,
`SourceOnly` and `~Disconnects` below, all three conditions on the constants that the runs which check the property meet.
TLC checked each inductive invariant on a run's instance before it was proved.

**InstancePool.** The inductive invariant is

    PoolInv == Typed /\ FlightInv /\ PermitConservation /\ AtMostMaxInstances

Neither count is inductive alone. `finish_start` adds exactly one entry only if the new instance
is not yet tracked, and it stays within the bound `begin_start` tested only if nobody else
started an instance in between: both are `FlightInv`. The upper bound of the permits in `TypeOK` is
not part of the invariant, it follows from counting. The argument goes by what a step does to
the counted sets: `QuietStep` leaves them alone, `UntrackStep` moves entries to free permits,
`BeginStep`, `StartGivenUp` and `FinishStep` move one caller in and out of `Starters`.

* `PoolInvariant`, `TypeCorrect`, `AdmissionSafe`; its parts `PermitsConserved`, `MaxInstancesSafe`, `StartsExclusive`
* `ReaperSafe`: `ReaperSparesHolders`, from the further invariant `HeldInv`, that what a request
  holds has been started and was not reaped while it held it.
* `ReaperKeepsFloor`: the action property `FloorKept`, from the choice of the removed entries in `ReapIdle`.
* `NobodyOrphaned`, `OneSurvivorAtMost`: `NoOrphan` and `AtMostOneSurvivor`, from `PoolInv` and

      KnownInv == AddrsDiffer /\ AdminInv /\ StageInv /\ NoOrphan /\ OneSurvivor

  `report_dead()` and the `insert()` of `finish_start()` go by address. That they take away no live instance needs that
  two instances anybody remembers differ in theirs (`AddrsDiffer`), and that what a handler reports is dead (`StageInv`). What
  a delete leaves behind is then somebody's start, and `FlightInv` allows one per pool. The hypothesis
  `Calm` is that no handler is dropped, no live instance breaks a connection and no port comes back while it is remembered.
  It cannot be weakened by any of the three: with just one of them allowed, next to crashes and deletes, TLC finds
  both properties violated (pool_live.cfg with a third instance and that event in `Environment`).
* `StartsAreReal`: with no handler dropped, `StartingHasStarter` is true: what `pool_wedged` shows has no other cause.

**Refinement.** `PoolsImplementBudget`: the pools implement `InstanceBudget` under the mapping of section 2. Each
class of steps above maps to `Admit`, `Open`, `GiveUp`, `Release` or a stutter; `PlacesCounted` shows that the flag
`starting` and a free permit say exactly what the budget's guards ask, which is where `PoolInv` is used.

**InstanceDriver.** `DriverInv == TypeOK /\ \A i \in Instances : Each(i)`, where `Each` adds to the four safety
properties, stated of one instance, what they rest on: `Standing`, in which states spawn, watcher and verdict can
be together, and `Owned`, that a process has an owner or has been killed, which makes a shutdown leave no
process. Instances share only the limiter, so one lemma shows that a step of `i` keeps `Each(j)` and another
that the host's steps do.

* `DriverInvariant`, `TypeCorrect`, `ReportsAreTrue`, `ContainersKept`, `ShutdownComplete`, `CgroupsCollected`

**Registry.** `TypeInv` adds to `TypeOK` that revision numbers are bounded by the deploys that have read the record, without
which the numbers could grow past their type; it holds for all deploys and deletes. The other properties are proved
under `SourceOnly`, no image deploys and no deletes, which is what `registry_deploy` checks. The hypothesis cannot be
halved: images alone, and deletes alone, let TLC violate each of the four. A delete is not excluded by `building`; an image deploy
stores Ready before its revision, which is enough for `ReadyIsBacked`, `ReadyHasPool` and `HistoryKept`. `TemplateIsBacked` with
images takes longer to break, longer than the bounds of the run: a build stores its revision and crashes, a
second one at the same number crashes after its files and before its revision, an image deploy stores Ready with that number
and crashes, and restore() starts the first one's revision on the second one's files (registry_deploy.cfg with
three deploys, one of them an image's, and `MaxCrashes = 3`).

The invariant `Core` is `Alone` (the name in `building` makes a deploy the only one), `Doing` (what the deploy under way may
rely on at each of its steps: the record it read is as it was, its number is the next, what it wrote is
there), `Served`, `Kept` and `Named`.

`FailedRedeployHarmless` speaks of images and deletes too and has an invariant of its own, `FallbackInv`: while no
delete has interfered and no crash came `Halfway`, the deploy under way has, in `got`, a record it can return to and a pool that fits it
(`Revertible`), up to the point after which it cannot fail (`Deploying`), and what restore() finds on the disk is a
record whose revision is there, Ready or still Building, with a running build for it in the latter case (`Restoring`). It assumes `~Disconnects`, as `registry_live` does: a handler
that is dropped during its build leaves the record at Building, one of an image after its revision is stored leaves
the old template under the new number.

* `TypeInvariant`, `TypeCorrect`; `DeployInvariant`, `ReadyCanBeRestored`, `TemplateKeepsArtifact`, `ReadyIsServed`,
  `HistoryIsKept`; `FailuresAreHarmless`
* `NameHasDeploy`: under `~Disconnects`, `BuildingIsRunning` of section 4 is true: an abandoned PUT is its only exception.

**Reconciler.** The inductive invariant is `RecInv == TypeOK /\ TargetInv /\ TruthInv`: what each
operation works on is what its step needs, and while `calm` holds, an outcome that is about to be
stored is still true when it is. `BoundIsSubscribed` speaks of the stored binding only and says
nothing of the remote calls that led to it, so it is not inductive.

* `ReconcilerInvariant`, `TypeCorrect`, `BoundTellsTheTruth`

**PythonBuild.** `BuildInv == TypeOK /\ Ends /\ Stage /\ Files /\ Installed`. `ReadyIsOwn` looks at the end of a build only;
what makes it so is who may still write the directory. An attempt that ended otherwise than by its deadline or a cut
has no command under way but a container's (`Ends`); so while no earlier attempt may trespass, the commands that run are those of
the latest one, in their order (`Stage`), each finding the venv the one before it left (`Installed`). `Files` says what may be
under a name when the snapshot comes across it.

* `TypesHold`, `OwnRevision`

**BuildLog.** `LogInv` goes by positions: what stands at position i of the file is a hole or the i-th line of some
attempt (`InPlace`), so that two texts of one attempt agree wherever both have a line and only their lengths are left to
compare. `ReachedIsThere` bounds what the follower has by the file, as an attempt's file is truncated before its
first line and not again until the next attempt; `EmptyIsEnd` bounds the file by what the follower has, as a
closed writer adds nothing after an empty read.

* `TypesHold`, `CompleteLog`

**LogRing.** `RingInv == RingType /\ Rings /\ Journal /\ Seen`. A line is inserted once and sent once, and in between its drain
is at it (`Journal`), so each of the two has the lines of a drain in their order (`InTurn`); a follower's snapshot is a slice of what
was inserted, and what came from the channel a part of what was sent since it subscribed (`Seen`), at rising places
(`InPlace`), neither of which is changed by what is appended later. That no line of a drain comes after a later one rests on the
place where the two meet: a line of the snapshot that was not sent when the follower subscribed was being pushed then, so it
is the latest of its drain (`Due`).

* `TypesHold`, `FollowerSeesAll`, `FollowerKeepsOrder`

**Invocation.** `RouteIs` and `HeadersAreOurs` are about the pure parts, `Resolve` and `RewriteRequest`, for every host, path and
header, also those outside the small sets the run uses. `InvocationInv == Host /\ ExchangeType /\ \A c \in Exchanges : Each(c)`.
`Host` says that pools, records, subscriptions and messages come from registrations of their own function (`Owned`, `Sourced`);
as a registration never changes, a pool keeps its function when it has left the map (`MadeFor`), which is why a handler that holds
one forwards to the right function with no look at the map. `Each` follows each exchange from its arrival: a delivery carries
the message its request was made of (`Asked`), what was admitted was routed by that request (`Routed`), the instance got that
request, stamped (`Reached`), and no status but an instance's own 2xx becomes one (`Told`). Other exchanges, deploys and
deletes disturb none of it. All of it holds for any set of client requests whose hosts and paths are sequences of words and whose
headers are lines of tokens (`RequestAssumption`).

* `RouteIs`, `HeadersAreOurs`, `TypesHold`, `IntactExchanges`, `NothingLost`

**Model-checked only**: liveness, which rests on fairness and ENABLED, neither of which the prover handles: `CallsReturn`,
`BuildingReleased`, `RecordIsBound`, `DeletedIsUnsubscribed`, `RetriesEnd`, `SpawnAndStopReturn`, `BuildReturns`,
the two `FollowerEnds` and `MessagesGetThrough`.

## 6. What is left

In the order of what it would show:

1. A composition of Registry and InstancePool in which an instance knows its revision: artifacts of old
   revisions that still run, a register between the two halves of a delete.
2. `RecordIsBound` as a refinement: Reconciler against a register that is set and read at once.

**Not modelled**: the rules of validation (tests of single fields, without state), the reading of configuration and
options, the environment and command lines of launch.rs, the CLI and the SDK, which keep no state the
host depends on, and metrics, which are recomputed from state modelled here. The memory store is used by tests only.
