---------------------------- MODULE InstancePool ----------------------------
(***************************************************************************)
(* The instance pools of open-functions (pool/instance.rs) together with   *)
(* the callers that race on them: HTTP and push handlers (invoke.rs), the  *)
(* pre-warm at restore (restore.rs), the idle reaper, `fn stop`, delete    *)
(* (service.rs), and the processes the drivers start and stop.             *)
(*                                                                         *)
(* Every critical section of `PoolState`'s mutex is one action, and every  *)
(* await between two of them is a place where the others may run.          *)
(***************************************************************************)
EXTENDS Integers, FiniteSets

CONSTANTS
  Pools,          \* one InstancePool per deployed function
  Requests,       \* invocations; each is handled once
  Warmers,        \* warm_to() calls made by restore before requests are served
  Instances,      \* identities of started processes or containers
  Addrs,          \* socket addresses the drivers hand out
  NoInstance,
  MaxInstances,   \* PoolConfig.max_instances of each pool: functions differ in size
  MinInstances,   \* PoolConfig.min_instances
  Concurrency,    \* PoolConfig.concurrency
  GlobalLimit,    \* runtime.max_total_instances
  QueuePolicy,    \* PoolConfig.queue_policy
  QueueMaxWait,   \* PoolConfig.queue_max_wait, in clock ticks
  IdleTimeout,    \* PoolConfig.idle_timeout, in clock ticks
  PromptSteps,    \* TRUE: no tick passes while a caller can take a lock step
  Environment     \* what the outside may do, a subset of EnvironmentEvents

Callers == Requests \cup Warmers

(* "disconnect": a client goes away and hyper drops the handler future;    *)
(* "crash": a running instance exits by itself; "reset": a live instance   *)
(* breaks one connection; "stream": response bodies outlive their handler; *)
(* "reuse": the OS hands a free port out again; "stop" and "delete": the   *)
(* admin operations of those names.                                        *)
EnvironmentEvents ==
  {"disconnect", "crash", "reset", "stream", "reuse", "stop", "delete"}

ASSUME PoolAssumption ==
  /\ IsFiniteSet(Requests) /\ IsFiniteSet(Warmers) /\ IsFiniteSet(Instances)
  /\ Requests \cap Warmers = {}
  /\ Pools # {} /\ Addrs # {}
  /\ NoInstance \notin Instances
  /\ MaxInstances \in [Pools -> Nat] /\ MinInstances \in Nat /\ GlobalLimit \in Nat
  /\ Concurrency \in Nat \ {0}
  /\ QueuePolicy \in {"Wait", "Reject"}
  /\ QueueMaxWait \in Nat /\ IdleTimeout \in Nat
  /\ PromptSteps \in BOOLEAN
  /\ Environment \subseteq EnvironmentEvents

VARIABLES
  pc,          \* where each caller is in invoke, acquire() or warm_to()
  pool,        \* the pool each caller works on
  inst,        \* the instance a caller is starting or holds a permit on
  waited,      \* ticks since acquire() was entered, up to QueueMaxWait
  tracked,     \* the keys and values of every PoolState.instances
  starting,    \* PoolState.starting is Some
  draining,    \* PoolState.draining
  freeGlobal,  \* permits left in the shared global_limit semaphore
  admin,       \* what `fn stop` or RegistryService::delete is doing to the pool
  proc,        \* what the operating system knows of each instance
  owner,       \* the pool an instance was started for
  addr,        \* the address an instance was started on
  unused       \* ticks since InstanceState.last_used, up to IdleTimeout

callerVars == <<pc, pool, inst, waited>>
poolVars   == <<tracked, starting, draining, freeGlobal, admin>>
procVars   == <<proc, owner, addr>>
vars == <<callerVars, poolVars, procVars, unused>>

CallerSteps == {"idle", "checked", "try", "warm", "start", "wait", "queue", "spawn",
                "ready", "held", "report", "stream", "refused", "done"}
Terminating == {"reaped", "stopped", "drained"}
ProcStates  == {"none", "booting", "running"} \cup Terminating

(* "stop": in stop_all() for `fn stop`; "marked": Deleting is stored and   *)
(* the reaper aborted; "removed", "drained", "stopping": the pool is out   *)
(* of RegistryService.pools, then draining, then in stop_all(); "halfway", *)
(* "abandoned": the client of the DELETE went away before, or after, the   *)
(* pool was removed.                                                       *)
AdminSteps == {"none", "stop", "marked", "halfway", "removed", "drained", "stopping",
               "abandoned", "deleted"}

Shapes ==
  /\ pc \in [Callers -> CallerSteps]
  /\ pool \in [Callers -> Pools]
  /\ inst \in [Callers -> Instances \cup {NoInstance}]
  /\ waited \in [Callers -> 0..QueueMaxWait]
  /\ tracked \subseteq Instances
  /\ starting \in [Pools -> BOOLEAN]
  /\ draining \in [Pools -> BOOLEAN]
  /\ admin \in [Pools -> AdminSteps]
  /\ proc \in [Instances -> ProcStates]
  /\ owner \in [Instances -> Pools]
  /\ addr \in [Instances -> Addrs]
  /\ unused \in [Instances -> 0..IdleTimeout]

(* Above all, the shared limit is neither overdrawn nor returned too much. *)
TypeOK == Shapes /\ freeGlobal \in 0..GlobalLimit

Init ==
  /\ pc = [c \in Callers |-> IF c \in Warmers THEN "warm" ELSE "idle"]
  /\ pool \in [Callers -> Pools]
  /\ inst = [c \in Callers |-> NoInstance]
  /\ waited = [c \in Callers |-> 0]
  /\ tracked = {}
  /\ starting = [p \in Pools |-> FALSE]
  /\ draining = [p \in Pools |-> FALSE]
  /\ freeGlobal = GlobalLimit
  /\ admin = [p \in Pools |-> "none"]
  /\ proc = [i \in Instances |-> "none"]
  /\ owner = [i \in Instances |-> CHOOSE p \in Pools : TRUE]
  /\ addr = [i \in Instances |-> CHOOSE a \in Addrs : TRUE]
  /\ unused = [i \in Instances |-> 0]
-----------------------------------------------------------------------------
TrackedOf(p) == {i \in tracked : owner[i] = p}

(* The callers between begin_start() and finish_start(): each carries one  *)
(* permit of the global limit.                                             *)
Starters == {c \in Callers : pc[c] \in {"spawn", "ready"}}
StartersOf(p) == {c \in Starters : pool[c] = p}

(* The requests that hold a permit of the instance's semaphore. One that   *)
(* still streams its response body no longer does: the handler returned    *)
(* and dropped its AcquiredInstance.                                       *)
HoldersOf(i) == {c \in Callers : inst[c] = i /\ pc[c] \in {"held", "report"}}

HasFreePermit(i) == Cardinality(HoldersOf(i)) < Concurrency

Alive(i) == proc[i] # "none"

(* A new identity: no process, no bookkeeping and no caller refers to it.  *)
Fresh(i) ==
  /\ ~Alive(i) /\ i \notin tracked
  /\ \A c \in Callers : inst[c] # i

(* The drivers bind a port no live process has (or get a container IP);    *)
(* without "reuse" it also differs from every address still remembered.    *)
Assignable(a) ==
  \A i \in Instances :
    addr[i] = a => ~Alive(i) /\ ("reuse" \notin Environment => Fresh(i))

UntrackForgetting(R) ==
  /\ tracked' = tracked \ R
  /\ UNCHANGED freeGlobal

(* HashMap::remove / drain of the entries R, whose InstanceState, and with *)
(* it one global permit each, is dropped.                                  *)
Untrack(R) ==
  /\ tracked' = tracked \ R
  /\ freeGlobal' = freeGlobal + Cardinality(R)

TerminateNone(R, how) == UNCHANGED proc

(* Sending stop(grace) to the handles of R; a dead one stays dead.         *)
Terminate(R, how) ==
  proc' = [i \in Instances |-> IF i \in R /\ Alive(i) THEN how ELSE proc[i]]

Goto(c, step) == pc' = [pc EXCEPT ![c] = step]

(* The `continue` of acquire()'s and of warm_to()'s loop.                  *)
LoopHead(c) == IF c \in Warmers THEN "warm" ELSE "try"
-----------------------------------------------------------------------------
(* The guard of RegistryService.pools is a temporary of the `if let` that  *)
(* delete() and stop_instances() do their work in: they hold it until      *)
(* stop_all() has returned, and keep every function's lookup waiting.      *)
PoolsLocked == \E p \in Pools : admin[p] \in {"stop", "removed", "drained", "stopping"}
InMap(p) == admin[p] \in {"none", "stop", "marked", "halfway"}

(* invoke: the stored record must be Ready, then pool_for() takes the pool *)
(* out of the map. Requests are served once restore has finished.          *)
CheckRecord(r) ==
  /\ pc[r] = "idle"
  /\ \A w \in Warmers : pc[w] = "done"
  /\ Goto(r, IF admin[pool[r]] \in {"none", "stop"} THEN "checked" ELSE "refused")
  /\ UNCHANGED <<pool, inst, waited, poolVars, procVars, unused>>

Lookup(r) ==
  /\ pc[r] = "checked"
  /\ ~PoolsLocked
  /\ Goto(r, IF InMap(pool[r]) THEN "try" ELSE "refused")
  /\ UNCHANGED <<pool, inst, waited, poolVars, procVars, unused>>

(* try_acquire_existing() claims a permit of some tracked instance ...     *)
AcquireExisting(r) ==
  /\ pc[r] = "try"
  /\ \E i \in TrackedOf(pool[r]) :
       /\ HasFreePermit(i)
       /\ inst' = [inst EXCEPT ![r] = i]
       /\ unused' = [unused EXCEPT ![i] = 0]
       /\ Goto(r, "held")
  /\ UNCHANGED <<pool, waited, poolVars, procVars>>

(* ... or finds none free, and acquire() goes on to begin_start().         *)
NoneFree(r) ==
  /\ pc[r] = "try"
  /\ \A i \in TrackedOf(pool[r]) : ~HasFreePermit(i)
  /\ Goto(r, "start")
  /\ UNCHANGED <<pool, inst, waited, poolVars, procVars, unused>>

(* warm_to() tests instance_count() in a critical section of its own.      *)
WarmCheck(w) ==
  /\ pc[w] = "warm"
  /\ Goto(w, IF Cardinality(TrackedOf(pool[w])) >= MinInstances THEN "done" ELSE "start")
  /\ UNCHANGED <<pool, inst, waited, poolVars, procVars, unused>>

(* begin_start(), in the order of its tests.                               *)
AtCapacity(p) == Cardinality(TrackedOf(p)) >= MaxInstances[p] \/ freeGlobal = 0
MayBeginTwice(p) == ~draining[p] /\ ~AtCapacity(p)
MayBegin(p) == ~draining[p] /\ ~starting[p] /\ ~AtCapacity(p)

BeginProceed(c) ==
  LET p == pool[c] IN
  /\ pc[c] = "start"
  /\ MayBegin(p)
  /\ \E i \in Instances, a \in Addrs :
       /\ Fresh(i) /\ Assignable(a)
       /\ proc' = [proc EXCEPT ![i] = "booting"]
       /\ owner' = [owner EXCEPT ![i] = p]
       /\ addr' = [addr EXCEPT ![i] = a]
       /\ inst' = [inst EXCEPT ![c] = i]
  /\ Goto(c, "spawn")
  /\ starting' = [starting EXCEPT ![p] = TRUE]
  /\ freeGlobal' = freeGlobal - 1
  /\ UNCHANGED <<pool, waited, tracked, draining, admin, unused>>

BeginDraining(c) ==
  /\ pc[c] = "start"
  /\ draining[pool[c]]
  /\ Goto(c, IF c \in Warmers THEN "done" ELSE "refused")
  /\ UNCHANGED <<pool, inst, waited, poolVars, procVars, unused>>

BeginWaitForOther(c) ==
  /\ pc[c] = "start"
  /\ ~draining[pool[c]] /\ starting[pool[c]]
  /\ Goto(c, "wait")
  /\ UNCHANGED <<pool, inst, waited, poolVars, procVars, unused>>

(* What acquire() makes of AtCapacity; warm_to() just returns.             *)
AfterAtCapacity(c) ==
  IF c \in Warmers THEN "done"
  ELSE IF QueuePolicy = "Reject" \/ waited[c] >= QueueMaxWait THEN "refused"
  ELSE "queue"

BeginAtCapacity(c) ==
  /\ pc[c] = "start"
  /\ ~draining[pool[c]] /\ ~starting[pool[c]] /\ AtCapacity(pool[c])
  /\ Goto(c, AfterAtCapacity(c))
  /\ UNCHANGED <<pool, inst, waited, poolVars, procVars, unused>>

RetryNotified(c) ==
  /\ pc[c] = "queue"
  /\ Goto(c, LoopHead(c))
  /\ UNCHANGED <<pool, inst, waited, poolVars, procVars, unused>>

(* The bounded wait on the starter's Notify, or the sleep of at most 20ms, *)
(* is over.                                                                *)
Retry(c) ==
  /\ pc[c] \in {"wait", "queue"}
  /\ Goto(c, LoopHead(c))
  /\ UNCHANGED <<pool, inst, waited, poolVars, procVars, unused>>
-----------------------------------------------------------------------------
(* driver.spawn() returns Ok: the process is up, but until the caller has  *)
(* the pool's lock again nobody else knows of it.                          *)
SpawnReady(c) ==
  /\ pc[c] = "spawn"
  /\ proc' = [proc EXCEPT ![inst[c]] = "running"]
  /\ Goto(c, "ready")
  /\ UNCHANGED <<pool, inst, waited, poolVars, owner, addr, unused>>

(* finish_start(), Ok arm. insert() replaces an entry of the same address, *)
(* dropping the replaced InstanceState and its global permit.              *)
FinishStart(c) ==
  LET i == inst[c]
      p == pool[c]
      replaced == {j \in TrackedOf(p) : addr[j] = addr[i]}
  IN
  /\ pc[c] = "ready"
  /\ tracked' = (tracked \ replaced) \cup {i}
  /\ freeGlobal' = freeGlobal + Cardinality(replaced)
  /\ starting' = [starting EXCEPT ![p] = FALSE]
  /\ unused' = [unused EXCEPT ![i] = 0]
  /\ inst' = [inst EXCEPT ![c] = NoInstance]
  /\ Goto(c, LoopHead(c))
  /\ UNCHANGED <<pool, waited, draining, admin, procVars>>

FinishStartFailedWedged(c) ==
  /\ pc[c] = "spawn"
  /\ proc' = [proc EXCEPT ![inst[c]] = "none"]
  /\ freeGlobal' = freeGlobal + 1
  /\ inst' = [inst EXCEPT ![c] = NoInstance]
  /\ Goto(c, IF c \in Warmers THEN "done" ELSE "refused")
  /\ UNCHANGED <<pool, waited, tracked, starting, draining, admin, owner, addr, unused>>

FinishStartFailedRetries(c) ==
  LET p == pool[c] IN
  /\ pc[c] = "spawn"
  /\ proc' = [proc EXCEPT ![inst[c]] = "none"]
  /\ starting' = [starting EXCEPT ![p] = FALSE]
  /\ freeGlobal' = freeGlobal + 1
  /\ inst' = [inst EXCEPT ![c] = NoInstance]
  /\ Goto(c, LoopHead(c))
  /\ UNCHANGED <<pool, waited, tracked, draining, admin, owner, addr, unused>>

(* driver.spawn() returns Err, having killed and reaped the child, and     *)
(* finish_start() takes its Err arm.                                       *)
FinishStartFailed(c) ==
  LET p == pool[c] IN
  /\ pc[c] = "spawn"
  /\ proc' = [proc EXCEPT ![inst[c]] = "none"]
  /\ starting' = [starting EXCEPT ![p] = FALSE]
  /\ freeGlobal' = freeGlobal + 1
  /\ inst' = [inst EXCEPT ![c] = NoInstance]
  /\ Goto(c, IF c \in Warmers THEN "done" ELSE "refused")
  /\ UNCHANGED <<pool, waited, tracked, draining, admin, owner, addr, unused>>
-----------------------------------------------------------------------------
(* Forwarder::forward connects to an address, not to an instance: whoever  *)
(* listens there answers.                                                  *)
Listening(a) == {i \in Instances : addr[i] = a /\ Alive(i) /\ proc[i] # "booting"}

(* The instance answered: the handler returns the response and drops the   *)
(* permit, while the body may go on streaming from the instance.           *)
ForwardOk(r) ==
  /\ pc[r] = "held"
  /\ Listening(addr[inst[r]]) # {}
  /\ \/ /\ Goto(r, "done")
        /\ inst' = [inst EXCEPT ![r] = NoInstance]
     \/ /\ "stream" \in Environment
        /\ Goto(r, "stream")
        /\ UNCHANGED inst
  /\ UNCHANGED <<pool, waited, poolVars, procVars, unused>>

(* tokio::time::timeout around the request: 504, and nobody is reported.   *)
ForwardTimeout(r) ==
  /\ pc[r] = "held"
  /\ Goto(r, "done")
  /\ inst' = [inst EXCEPT ![r] = NoInstance]
  /\ UNCHANGED <<pool, waited, poolVars, procVars, unused>>

(* ConnectionRefused or ConnectionReset: nobody usable listens, or a live  *)
(* instance broke this one connection.                                     *)
ForwardBroken(r) ==
  /\ pc[r] = "held"
  /\ \/ \A i \in Listening(addr[inst[r]]) : proc[i] \in Terminating
     \/ "reset" \in Environment
  /\ Goto(r, "report")
  /\ UNCHANGED <<pool, inst, waited, poolVars, procVars, unused>>

(* report_dead(addr) removes whatever the pool tracks under the address    *)
(* and only wait()s for the handle it removed.                             *)
DeadEntries(r) == {i \in TrackedOf(pool[r]) : addr[i] = addr[inst[r]]}

ReportDeadTwice(r) ==
  /\ pc[r] = "report"
  /\ tracked' = tracked \ DeadEntries(r)
  /\ freeGlobal' = freeGlobal + 1
  /\ Goto(r, "done")
  /\ inst' = [inst EXCEPT ![r] = NoInstance]
  /\ UNCHANGED <<pool, waited, starting, draining, admin, procVars, unused>>

ReportDead(r) ==
  /\ pc[r] = "report"
  /\ Untrack(DeadEntries(r))
  /\ Goto(r, "done")
  /\ inst' = [inst EXCEPT ![r] = NoInstance]
  /\ UNCHANGED <<pool, waited, starting, draining, admin, procVars, unused>>

BodyEnds(r) ==
  /\ pc[r] = "stream"
  /\ Goto(r, "done")
  /\ inst' = [inst EXCEPT ![r] = NoInstance]
  /\ UNCHANGED <<pool, waited, poolVars, procVars, unused>>

(* The client disconnects and the handler future is dropped at its current *)
(* await: every value it owns is dropped, no code of it runs any more.     *)
(* A starter's permit goes back, but nobody resets PoolState.starting. A   *)
(* child still starting is killed on drop, a container is not; a handle    *)
(* that was already returned leaves its instance running.                  *)
Disconnect(r) ==
  /\ "disconnect" \in Environment
  /\ pc[r] \notin {"idle", "refused", "done"}
  /\ freeGlobal' = IF r \in Starters THEN freeGlobal + 1 ELSE freeGlobal
  /\ IF pc[r] = "spawn"
       THEN \E leftover \in {"none", "running"} :
              proc' = [proc EXCEPT ![inst[r]] = leftover]
       ELSE UNCHANGED proc
  /\ Goto(r, "done")
  /\ inst' = [inst EXCEPT ![r] = NoInstance]
  /\ UNCHANGED <<pool, waited, tracked, starting, draining, admin, owner, addr,
                 unused>>
-----------------------------------------------------------------------------
(* reap_idle_once(): fully idle instances, unused for idle_timeout, as     *)
(* many as keep min_instances. delete() aborts the reaper first.           *)
ReapableBusy(p) == {i \in TrackedOf(p) : unused[i] >= IdleTimeout}
Reapable(p) ==
  {i \in TrackedOf(p) : HoldersOf(i) = {} /\ unused[i] >= IdleTimeout}
RemovableOneMore(p) == Cardinality(TrackedOf(p)) - MinInstances + 1
Removable(p) == Cardinality(TrackedOf(p)) - MinInstances

ReapIdle(p) ==
  /\ admin[p] \in {"none", "stop"}
  /\ \E R \in SUBSET Reapable(p) \ {{}} :
       /\ Cardinality(R) <= Removable(p)
       /\ R = Reapable(p) \/ Cardinality(R) = Removable(p)
       /\ Untrack(R)
       /\ Terminate(R, "reaped")
  /\ UNCHANGED <<callerVars, starting, draining, admin, owner, addr, unused>>

(* stop_instances(): stop_all() takes every handle, whatever it does, and  *)
(* waits for all of them to have stopped.                                  *)
StopInstances(p) ==
  /\ "stop" \in Environment
  /\ admin[p] = "none" /\ ~PoolsLocked
  /\ \A w \in Warmers : pc[w] = "done"
  /\ TrackedOf(p) # {}
  /\ admin' = [admin EXCEPT ![p] = "stop"]
  /\ Untrack(TrackedOf(p))
  /\ Terminate(TrackedOf(p), "stopped")
  /\ UNCHANGED <<callerVars, starting, draining, owner, addr, unused>>

NothingLeft(p, how) == \A i \in Instances : owner[i] = p => ~Alive(i)
Stopped(p, how) == \A i \in Instances : owner[i] = p => proc[i] # how

AdminMoves(p, from, to) ==
  /\ admin[p] \in from
  /\ admin' = [admin EXCEPT ![p] = to]
  /\ UNCHANGED <<callerVars, tracked, starting, freeGlobal, procVars, unused>>

StopReturns(p) == AdminMoves(p, {"stop"}, "none") /\ Stopped(p, "stopped") /\ UNCHANGED draining

(* delete(): store Deleting and abort the reaper; take the pool out of the *)
(* map; begin_drain(); stop_all(); then the record is deleted.             *)
MarkDeleting(p) ==
  /\ "delete" \in Environment
  /\ \A w \in Warmers : pc[w] = "done"
  /\ AdminMoves(p, {"none", "halfway"}, "marked") /\ UNCHANGED draining

RemovePool(p) == ~PoolsLocked /\ AdminMoves(p, {"marked"}, "removed") /\ UNCHANGED draining

BeginDrainForgotten(p) == AdminMoves(p, {"removed"}, "drained") /\ UNCHANGED draining

BeginDrain(p) ==
  /\ AdminMoves(p, {"removed"}, "drained")
  /\ draining' = [draining EXCEPT ![p] = TRUE]

StopAll(p) ==
  /\ admin[p] = "drained"
  /\ admin' = [admin EXCEPT ![p] = "stopping"]
  /\ Untrack(TrackedOf(p))
  /\ Terminate(TrackedOf(p), "drained")
  /\ UNCHANGED <<callerVars, starting, draining, owner, addr, unused>>

DeleteCompletes(p) ==
  AdminMoves(p, {"stopping"}, "deleted") /\ Stopped(p, "drained") /\ UNCHANGED draining

(* The admin's client disconnects: the operation stops where it is, and    *)
(* the guard of the map is dropped; stops already sent go on.              *)
AbandonAdmin(p) ==
  /\ "disconnect" \in Environment
  /\ \/ AdminMoves(p, {"stop"}, "none")
     \/ AdminMoves(p, {"marked"}, "halfway")
     \/ AdminMoves(p, {"removed", "drained", "stopping"}, "abandoned")
  /\ UNCHANGED draining

(* Deleting again finds the record but no pool, and completes at once.     *)
DeleteAgain(p) ==
  /\ "delete" \in Environment
  /\ ~PoolsLocked
  /\ AdminMoves(p, {"abandoned"}, "deleted") /\ UNCHANGED draining

(* The last Arc of a removed pool goes away: its InstanceStates and their  *)
(* permits are dropped, the instances themselves run on.                   *)
UsersOf(p) ==
  {c \in Callers : pool[c] = p /\
     pc[c] \notin {"idle", "checked", "stream", "refused", "done"}}

DropPool(p) ==
  /\ admin[p] \in {"abandoned", "deleted"}
  /\ UsersOf(p) = {} /\ TrackedOf(p) # {}
  /\ Untrack(TrackedOf(p))
  /\ UNCHANGED <<callerVars, starting, draining, admin, procVars, unused>>
-----------------------------------------------------------------------------
(* SIGTERM, at the latest SIGKILL after the grace period, ends a process.  *)
Exit(i) ==
  /\ proc[i] \in Terminating
  /\ proc' = [proc EXCEPT ![i] = "none"]
  /\ UNCHANGED <<callerVars, poolVars, owner, addr, unused>>

(* Nobody watches an instance: a crash changes nothing but the process.    *)
Crash(i) ==
  /\ "crash" \in Environment
  /\ proc[i] = "running"
  /\ proc' = [proc EXCEPT ![i] = "none"]
  /\ UNCHANGED <<callerVars, poolVars, owner, addr, unused>>

Capped(n, max) == IF n < max THEN n + 1 ELSE max

Waiting == {"try", "start", "wait", "queue", "spawn", "ready"}
Prompt == {"try", "warm", "start", "ready"}

(* Time passes for everyone; the counters stop at what the code compares   *)
(* them with.                                                              *)
Tick ==
  /\ PromptSteps => \A c \in Callers : pc[c] \notin Prompt
  /\ waited' = [c \in Callers |->
       IF pc[c] \in Waiting THEN Capped(waited[c], QueueMaxWait) ELSE 0]
  /\ unused' = [i \in Instances |->
       IF i \in tracked THEN Capped(unused[i], IdleTimeout) ELSE 0]
  /\ <<waited', unused'>> # <<waited, unused>>
  /\ UNCHANGED <<pc, pool, inst, poolVars, procVars>>
-----------------------------------------------------------------------------
AcquireStep(c) ==
  \/ NoneFree(c) \/ AcquireExisting(c)
  \/ BeginProceed(c) \/ BeginDraining(c) \/ BeginWaitForOther(c) \/ BeginAtCapacity(c)
  \/ Retry(c) \/ FinishStart(c)

Spawning(c) == SpawnReady(c) \/ FinishStartFailed(c)

RequestStep(r) ==
  \/ CheckRecord(r) \/ Lookup(r)
  \/ ForwardOk(r) \/ ForwardTimeout(r) \/ ForwardBroken(r) \/ ReportDead(r) \/ BodyEnds(r)
  \/ Disconnect(r)

PoolStep(p) ==
  \/ ReapIdle(p)
  \/ StopInstances(p) \/ StopReturns(p)
  \/ MarkDeleting(p) \/ RemovePool(p) \/ BeginDrain(p) \/ StopAll(p) \/ DeleteCompletes(p)
  \/ AbandonAdmin(p) \/ DeleteAgain(p) \/ DropPool(p)

Next ==
  \/ \E c \in Callers : AcquireStep(c) \/ Spawning(c)
  \/ \E r \in Requests : RequestStep(r)
  \/ \E w \in Warmers : WarmCheck(w)
  \/ \E p \in Pools : PoolStep(p)
  \/ \E i \in Instances : Exit(i) \/ Crash(i)
  \/ Tick

Spec == Init /\ [][Next]_vars

(* What delete() and stop_instances() go on to do once they have begun.    *)
AdminStep(p) ==
  StopReturns(p) \/ RemovePool(p) \/ BeginDrain(p) \/ StopAll(p) \/ DeleteCompletes(p)

(* tokio keeps polling a runnable task and its Mutex serves its waiters in *)
(* order, hence SF for the lookups, which others may keep waiting again    *)
(* and again; spawn() is bounded by start_timeout, stop() by the grace     *)
(* period, and time passes. What the outside does (clients, crashes, the   *)
(* admin's requests) is not fair.                                          *)
Fairness ==
  /\ \A c \in Callers : WF_vars(AcquireStep(c)) /\ WF_vars(Spawning(c))
  /\ \A r \in Requests : SF_vars(Lookup(r)) /\ WF_vars(ForwardTimeout(r)) /\ WF_vars(ReportDead(r))
  /\ \A p \in Pools : SF_vars(AdminStep(p))
  /\ \A w \in Warmers : WF_vars(WarmCheck(w))
  /\ \A i \in Instances : WF_vars(Exit(i))
  /\ SF_vars(Tick)

FairSpec == Spec /\ Fairness
-----------------------------------------------------------------------------
(* Never more than max_instances per pool, counting the one being started: *)
(* the bound is tested before an unlocked spawn() and used after it, so it *)
(* rests on `starting` keeping everyone else out in between.               *)
AtMostMaxInstances ==
  \A p \in Pools :
    Cardinality(TrackedOf(p)) + Cardinality(StartersOf(p)) <= MaxInstances[p]

(* No permit of the shared global limit is lost or made up, whatever       *)
(* fails, is reaped, reported, replaced or dropped halfway.                *)
PermitConservation ==
  freeGlobal + Cardinality(tracked) + Cardinality(Starters) = GlobalLimit

(* A start in progress has the pool's `starting` flag to itself, is the    *)
(* only one of its pool, and works on an instance nobody else knows.       *)
FlightInv ==
  /\ \A c \in Starters :
       starting[pool[c]] /\ inst[c] \in Instances \ tracked /\ owner[inst[c]] = pool[c]
  /\ \A c, d \in Starters : pool[c] = pool[d] \/ inst[c] = inst[d] => c = d

(* Admission: together, the three keep what acquire() tests before it      *)
(* unlocks to spawn() true until it registers the instance.                *)
AdmissionInv == AtMostMaxInstances /\ PermitConservation /\ FlightInv

(* The reaper never stops an instance a request holds a permit of, however *)
(* the request's acquire and the reaper's sweep interleave.                *)
ReaperSparesHolders ==
  \A r \in Requests : pc[r] = "held" => proc[inst[r]] # "reaped"

(* Whoever is reaped leaves min_instances others in its pool: falling     *)
(* below takes a forced stop, or an instance found dead. The floor is      *)
(* computed once for a sweep that may remove several entries.              *)
FloorKept ==
  [][\A i \in Instances :
       proc[i] # "reaped" /\ proc[i]' = "reaped"
         => Cardinality(TrackedOf(owner[i])') >= MinInstances]_vars

(* `starting` is "Some while one caller is in the middle of                *)
(* driver.spawn()" (PoolState): nobody waits for a start nobody makes.     *)
StartingHasStarter == \A p \in Pools : starting[p] => StartersOf(p) # {}

(* What delete() leaves behind is at most the one start that was in        *)
(* progress when it began to drain: draining keeps every later one out.    *)
AtMostOneSurvivor ==
  \A p \in Pools : admin[p] \in {"stopping", "deleted"} =>
    Cardinality({i \in Instances : owner[i] = p /\ proc[i] \in {"booting", "running"}}) <= 1

(* While its pool is in use, every process is known to somebody who will   *)
(* stop it or find it dead: the pool tracks it, a caller is about to hand  *)
(* it over, or it is being terminated.                                     *)
NoOrphan ==
  \A i \in Instances :
    proc[i] \in {"booting", "running"} =>
      \/ i \in tracked
      \/ \E c \in Starters : inst[c] = i
      \/ admin[owner[i]] = "deleted"

(* Together the pools implement the admission desk of InstanceBudget: an   *)
(* instance has a place while it is tracked or being started. Permits,     *)
(* `starting` and the order of lock, await and lock amount to a test of    *)
(* both limits and a registration in one step.                             *)
Starting == {inst[c] : c \in Starters}
Budget == INSTANCE InstanceBudget WITH
  PoolLimit <- MaxInstances, TotalLimit <- GlobalLimit,
  occupied <- tracked \cup Starting, opening <- Starting, home <- owner

ImplementsBudget == Budget!Spec

(* acquire() always comes back, with an instance or with an error.         *)
AcquireReturns ==
  \A r \in Requests : pc[r] = "try" ~> pc[r] \in {"held", "refused", "done"}

(* The map's lock is held while instances stop, but never for good: every  *)
(* lookup gets its turn, whatever is deleted or stopped meanwhile.         *)
LookupReturns == \A r \in Requests : pc[r] = "checked" ~> pc[r] # "checked"

(* Restore's warm_to() always comes back, so that requests are served.     *)
WarmupReturns == \A w \in Warmers : <>(pc[w] = "done")

(* None of the three waits for good: not for a permit, a start, an         *)
(* instance that is stopping, or a lock held meanwhile.                    *)
CallsReturn == AcquireReturns /\ LookupReturns /\ WarmupReturns
-----------------------------------------------------------------------------
(* What the documentation of the code says, and the code does not do.      *)

(* delete: "a completed delete() really has scaled the function to zero".  *)
DeleteScalesToZero ==
  \A p \in Pools : admin[p] = "deleted" =>
    \A i \in Instances : owner[i] = p => proc[i] # "running"

(* reap_idle_once: "a busy instance is never reaped", also not one that    *)
(* is still producing the body of a response.                              *)
BusyNeverReaped ==
  \A r \in Requests : pc[r] \in {"held", "stream"} => proc[inst[r]] # "reaped"
=============================================================================
