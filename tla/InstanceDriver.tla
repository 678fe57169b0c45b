---------------------------- MODULE InstanceDriver ----------------------------
(***************************************************************************)
(* Driver::spawn of the process and of the container driver, the           *)
(* background task that owns each instance, the InstanceHandle its pool    *)
(* keeps, and the life of the host process around them (serve.rs): the     *)
(* startup sweep, the graceful shutdown, and what is left of an instance   *)
(* when a future is dropped or the host dies.                              *)
(*                                                                         *)
(* What the pool decides (whom to start, reap or report) is InstancePool's *)
(* subject; here any of it may happen at any time.                         *)
(***************************************************************************)
EXTENDS Integers, FiniteSets

CONSTANTS
  Instances,    \* calls of spawn()
  Containers,   \* those of the container driver, the others start processes
  MaxLives,     \* bound on the number of times the host is started
  Faults        \* what may go wrong, a subset of FaultEvents

(* "docker": a call of dockerd fails; "drop": a handler is dropped;        *)
(* "crash": an instance exits by itself; "killed": the host dies without   *)
(* its shutdown sequence.                                                  *)
FaultEvents == {"docker", "drop", "crash", "killed"}

ASSUME DriverAssumption ==
  /\ Containers \subseteq Instances
  /\ MaxLives \in Nat \ {0}
  /\ Faults \subseteq FaultEvents

VARIABLES
  spawn,      \* where each spawn() is
  os,         \* what the operating system or dockerd knows of the instance
  signal,     \* the last signal it was sent
  watcher,    \* the background task that owns the child or the container
  handle,     \* who has the InstanceHandle, and what it is doing
  verdict,    \* the InstanceExit sent over exit_tx
  limited,    \* instances that have a cgroup
  limiter,    \* CgroupLimiter.enabled
  unremoved,  \* containers whose removal failed, with a warning
  host,       \* serve.rs
  collected,  \* the instances shutdown_all_instances() found in the pools
  lives

hostVars == <<host, collected, lives>>
groupVars == <<limited, limiter>>
vars == <<spawn, os, signal, watcher, handle, verdict, groupVars, unremoved, hostVars>>

Processes == Instances \ Containers

(* "startfailed": start_container() failed, after create_container();      *)
(* "dropped": the future of spawn() was dropped; "lost": an earlier host's.*)
InProgress == {"created", "started", "probe", "undo"}
Watching == {"watch", "grace", "killing", "removeCrashed", "removeStopped"}
Up == {"serving", "draining", "stopping"}

TypeOK ==
  /\ spawn \in [Instances -> InProgress \cup {"none", "ok", "error", "startfailed",
                                              "dropped", "lost"}]
  /\ os \in [Instances -> {"none", "created", "alive", "exited"}]
  /\ signal \in [Instances -> {"none", "term", "kill"}]
  /\ watcher \in [Instances -> Watching \cup {"none", "gone", "done"}]
  /\ handle \in [Instances -> {"none", "starter", "pool", "stop", "wait", "dropped"}]
  /\ verdict \in [Instances -> {"pending", "stopped", "crashed"}]
  /\ limited \subseteq Processes /\ limiter \in BOOLEAN
  /\ unremoved \subseteq Containers /\ collected \subseteq Instances
  /\ host \in Up \cup {"exited", "dead"}
  /\ lives \in 1..MaxLives

Init ==
  /\ spawn = [i \in Instances |-> "none"]
  /\ os = [i \in Instances |-> "none"]
  /\ signal = [i \in Instances |-> "none"]
  /\ watcher = [i \in Instances |-> "none"]
  /\ handle = [i \in Instances |-> "none"]
  /\ verdict = [i \in Instances |-> "pending"]
  /\ limited = {} /\ limiter \in BOOLEAN
  /\ unremoved = {} /\ collected = {}
  /\ host = "serving" /\ lives = 1
-----------------------------------------------------------------------------
At(i, step) == host \in Up /\ spawn[i] = step
Goto(i, step) == spawn' = [spawn EXCEPT ![i] = step]
Becomes(i, state) == os' = [os EXCEPT ![i] = state]

CleanupNone(i) == UNCHANGED groupVars

(* CgroupLimiter::cleanup: a limiter that was disabled leaves it behind.   *)
Cleanup(i) ==
  /\ limited' = IF limiter THEN limited \ {i} ELSE limited
  /\ UNCHANGED limiter

(* CgroupLimiter::apply never fails a start. Its first failure, before or  *)
(* after the cgroup was made, disables the limiter for good.               *)
Apply(i) ==
  \/ ~limiter /\ UNCHANGED groupVars
  \/ limiter /\ limited' = limited \cup {i} /\ UNCHANGED limiter
  \/ limiter /\ limited' \in {limited, limited \cup {i}} /\ limiter' = FALSE

LaunchProcessForAll(i) ==
  /\ At(i, "none")
  /\ Becomes(i, "alive") /\ Goto(i, "probe") /\ Apply(i)
  /\ UNCHANGED <<signal, watcher, handle, verdict, unremoved, hostVars>>

(* Command::spawn. A request that is still being handled may start an      *)
(* instance at any time, also while the host shuts down.                   *)
LaunchProcess(i) ==
  /\ i \in Processes /\ At(i, "none")
  /\ \/ Becomes(i, "alive") /\ Goto(i, "probe") /\ Apply(i)
     \/ Goto(i, "error") /\ UNCHANGED <<os, groupVars>>
  /\ UNCHANGED <<signal, watcher, handle, verdict, unremoved, hostVars>>

(* ensure_network, ensure_image and create_container.                      *)
LaunchContainer(i) ==
  /\ i \in Containers /\ At(i, "none")
  /\ \/ Becomes(i, "created") /\ Goto(i, "created")
     \/ "docker" \in Faults /\ Goto(i, "error") /\ UNCHANGED os
  /\ UNCHANGED <<signal, watcher, handle, verdict, groupVars, unremoved, hostVars>>

(* start_container: its error path only maps the error.                    *)
StartContainer(i) ==
  /\ At(i, "created")
  /\ \/ Becomes(i, "alive") /\ Goto(i, "started")
     \/ "docker" \in Faults /\ Goto(i, "startfailed") /\ UNCHANGED os
  /\ UNCHANGED <<signal, watcher, handle, verdict, groupVars, unremoved, hostVars>>

InspectAddrLeaves(i) ==
  /\ At(i, "started")
  /\ \/ os[i] = "alive" /\ Goto(i, "probe")
     \/ (os[i] = "exited" \/ "docker" \in Faults) /\ Goto(i, "error")
  /\ UNCHANGED <<os, signal, watcher, handle, verdict, groupVars, unremoved, hostVars>>

(* inspect_addr: no address, for one that already exited.                  *)
InspectAddr(i) ==
  /\ At(i, "started")
  /\ \/ os[i] = "alive" /\ Goto(i, "probe")
     \/ (os[i] = "exited" \/ "docker" \in Faults) /\ Goto(i, "undo")
  /\ UNCHANGED <<os, signal, watcher, handle, verdict, groupVars, unremoved, hostVars>>

(* wait_ready wins the race against the exit: the background task starts   *)
(* and the handle goes to the caller. The instance may be gone by now.     *)
Ready(i) ==
  /\ At(i, "probe")
  /\ Goto(i, "ok")
  /\ watcher' = [watcher EXCEPT ![i] = "watch"]
  /\ handle' = [handle EXCEPT ![i] = "starter"]
  /\ UNCHANGED <<os, signal, verdict, groupVars, unremoved, hostVars>>

(* start_timeout: start_kill and wait, or stop_then_remove.                *)
ReadyTimeout(i) ==
  /\ At(i, "probe")
  /\ Goto(i, "undo")
  /\ signal' = [signal EXCEPT ![i] = "kill"]
  /\ UNCHANGED <<os, watcher, handle, verdict, groupVars, unremoved, hostVars>>

ExitedBeforeReady(i) ==
  /\ At(i, "probe") /\ os[i] = "exited"
  /\ IF i \in Processes
       THEN Becomes(i, "none") /\ Cleanup(i) /\ Goto(i, "error")
       ELSE Goto(i, "undo") /\ UNCHANGED <<os, groupVars>>
  /\ UNCHANGED <<signal, watcher, handle, verdict, unremoved, hostVars>>

(* force_remove swallows its errors.                                       *)
ForceRemove(i) ==
  \/ Becomes(i, "none") /\ UNCHANGED unremoved
  \/ "docker" \in Faults /\ unremoved' = unremoved \cup {i} /\ UNCHANGED os

Undo(i) ==
  /\ At(i, "undo")
  /\ Goto(i, "error")
  /\ \/ /\ i \in Processes /\ os[i] = "exited"
        /\ Becomes(i, "none") /\ Cleanup(i) /\ UNCHANGED unremoved
     \/ i \in Containers /\ ForceRemove(i) /\ UNCHANGED groupVars
  /\ UNCHANGED <<signal, watcher, handle, verdict, hostVars>>

(* The future of spawn() is dropped at an await, with the child in it,     *)
(* which kill_on_drop kills; nobody removes a container, or a cgroup.      *)
DropSpawn(i) ==
  /\ "drop" \in Faults
  /\ host \in Up /\ spawn[i] \in InProgress
  /\ Goto(i, "dropped")
  /\ signal' = [signal EXCEPT ![i] = IF i \in Processes THEN "kill" ELSE @]
  /\ UNCHANGED <<os, watcher, handle, verdict, groupVars, unremoved, hostVars>>
-----------------------------------------------------------------------------
HandleMoves(i, from, to) ==
  /\ host \in Up /\ handle[i] = from
  /\ handle' = [handle EXCEPT ![i] = to]
  /\ UNCHANGED <<spawn, os, signal, watcher, verdict, groupVars, unremoved, hostVars>>

(* finish_start() tracks the instance; the reaper, `fn stop` and delete()  *)
(* call stop(), report_dead() calls wait(). A handler dropped before       *)
(* finish_start(), or an entry replaced or dropped with its pool, drops    *)
(* the handle: its stop_tx is closed, and the task runs on.                *)
Track(i) == HandleMoves(i, "starter", "pool")
Stop(i) == HandleMoves(i, "pool", "stop")
ReportDead(i) == HandleMoves(i, "pool", "wait")
DropHandle(i) ==
  /\ "drop" \in Faults
  /\ HandleMoves(i, "starter", "dropped") \/ HandleMoves(i, "pool", "dropped")

WatcherAt(i, steps) == host \in Up /\ watcher[i] \in steps
WatcherGoes(i, to) == watcher' = [watcher EXCEPT ![i] = to]
Report(i, how) == verdict' = [verdict EXCEPT ![i] = how] /\ WatcherGoes(i, "done")
KeepVerdict(i, to) == WatcherGoes(i, to) /\ UNCHANGED verdict

(* child.wait() reaped the process: the cgroup goes and exit_tx is sent.   *)
Reaped(i, how) ==
  /\ i \in Processes /\ os[i] = "exited"
  /\ Becomes(i, "none") /\ Cleanup(i)
  /\ Report(i, how)
  /\ UNCHANGED <<spawn, signal, handle, unremoved, hostVars>>

(* The wait of the task's select! wins. For a container that is also a     *)
(* broken stream of wait_container().                                      *)
SelectExit(i) ==
  /\ WatcherAt(i, {"watch"})
  /\ \/ Reaped(i, "crashed")
     \/ /\ i \in Containers
        /\ os[i] = "exited" \/ "docker" \in Faults
        /\ KeepVerdict(i, "removeCrashed")
        /\ UNCHANGED <<spawn, os, signal, handle, groupVars, unremoved, hostVars>>

(* stop_rx wins, even if the instance has just exited: SIGTERM, or the     *)
(* daemon's stop_container with the same grace period.                     *)
SelectStop(i) ==
  /\ WatcherAt(i, {"watch"}) /\ handle[i] = "stop"
  /\ signal' = [signal EXCEPT ![i] = "term"]
  /\ KeepVerdict(i, "grace")
  /\ UNCHANGED <<spawn, os, handle, groupVars, unremoved, hostVars>>

GraceOverForgives(i) ==
  /\ WatcherAt(i, {"grace"})
  /\ UNCHANGED signal
  /\ KeepVerdict(i, IF i \in Processes THEN "killing" ELSE "removeStopped")
  /\ UNCHANGED <<spawn, os, handle, groupVars, unremoved, hostVars>>

(* The grace period is over: SIGKILL, or on to force_remove.               *)
GraceOver(i) ==
  /\ WatcherAt(i, {"grace"})
  /\ IF i \in Processes
       THEN signal' = [signal EXCEPT ![i] = "kill"] /\ KeepVerdict(i, "killing")
       ELSE UNCHANGED signal /\ KeepVerdict(i, "removeStopped")
  /\ UNCHANGED <<spawn, os, handle, groupVars, unremoved, hostVars>>

StopReturns(i) ==
  /\ WatcherAt(i, {"grace", "killing"})
  /\ \/ Reaped(i, "stopped")
     \/ /\ i \in Containers /\ os[i] = "exited"
        /\ KeepVerdict(i, "removeStopped")
        /\ UNCHANGED <<spawn, os, signal, handle, groupVars, unremoved, hostVars>>

RemoveContainerLater(i) ==
  /\ WatcherAt(i, {"removeCrashed", "removeStopped"})
  /\ Report(i, IF watcher[i] = "removeStopped" THEN "stopped" ELSE "crashed")
  /\ UNCHANGED <<spawn, os, signal, handle, groupVars, unremoved, hostVars>>

(* A container persists after its exit: it is removed, then reported.      *)
RemoveContainer(i) ==
  /\ WatcherAt(i, {"removeCrashed", "removeStopped"})
  /\ ForceRemove(i)
  /\ Report(i, IF watcher[i] = "removeStopped" THEN "stopped" ELSE "crashed")
  /\ UNCHANGED <<spawn, signal, handle, groupVars, hostVars>>

-----------------------------------------------------------------------------
(* Nobody waits for a child whose owner is gone, but tokio's orphan queue  *)
(* or init.                                                                *)
Orphaned(i) == spawn[i] \in {"dropped", "lost"} \/ watcher[i] = "gone"
Dies(i) ==
  /\ os[i] = "alive"
  /\ Becomes(i, IF i \in Processes /\ Orphaned(i) THEN "none" ELSE "exited")
  /\ UNCHANGED <<spawn, signal, watcher, handle, verdict, groupVars, unremoved, hostVars>>

(* SIGKILL ends an instance, and so does dockerd's stop_container in the   *)
(* end; a process may take SIGTERM as it likes.                            *)
Obeys(i) == (signal[i] = "kill" \/ (signal[i] = "term" /\ i \in Containers)) /\ Dies(i)
Exits(i) == ("crash" \in Faults \/ signal[i] = "term") /\ Dies(i)
-----------------------------------------------------------------------------
(* run() after the signal: accepting stops, and the requests in flight get *)
(* shutdown_grace to end; then whatever the pools track is stopped.        *)
Shutdown ==
  /\ host = "serving"
  /\ host' = "draining"
  /\ UNCHANGED <<spawn, os, signal, watcher, handle, verdict, groupVars, unremoved,
                 collected, lives>>

StopAllInstances ==
  /\ host = "draining"
  /\ host' = "stopping"
  /\ collected' = {i \in Instances : handle[i] = "pool"}
  /\ handle' = [i \in Instances |-> IF handle[i] = "pool" THEN "stop" ELSE handle[i]]
  /\ UNCHANGED <<spawn, os, signal, watcher, verdict, groupVars, unremoved, lives>>

(* run() returns when the stops it began are through, and the runtime is   *)
(* dropped with every task in it.                                          *)
StopsReturnedEarly == TRUE
StopsReturned == \A i \in collected : verdict[i] # "pending"

KillOnDrop(i) == i \in Processes

Exit ==
  /\ host = "stopping" /\ StopsReturned
  /\ host' = "exited"
  /\ signal' = [i \in Instances |->
       IF KillOnDrop(i) /\ (spawn[i] \in InProgress \/ watcher[i] \in Watching)
         THEN "kill" ELSE signal[i]]
  /\ spawn' = [i \in Instances |-> IF spawn[i] \in InProgress THEN "dropped" ELSE spawn[i]]
  /\ watcher' = [i \in Instances |-> IF watcher[i] \in Watching THEN "gone" ELSE watcher[i]]
  /\ handle' = [i \in Instances |-> IF handle[i] = "none" THEN "none" ELSE "dropped"]
  /\ UNCHANGED <<os, verdict, groupVars, unremoved, collected, lives>>

(* Nothing of the host's runs any more; children get no signal.            *)
HostDies ==
  /\ "killed" \in Faults
  /\ host \in Up
  /\ host' = "dead"
  /\ spawn' = [i \in Instances |-> IF spawn[i] = "none" THEN "none" ELSE "lost"]
  /\ watcher' = [i \in Instances |-> IF watcher[i] \in Watching THEN "gone" ELSE watcher[i]]
  /\ handle' = [i \in Instances |-> IF handle[i] = "none" THEN "none" ELSE "dropped"]
  /\ UNCHANGED <<os, signal, verdict, groupVars, unremoved, collected, lives>>

(* sweep_stale_containers(): every container that has the label, in        *)
(* whatever state; failures are logged and startup goes on. The limiter is *)
(* probed again.                                                           *)
Swept == {i \in Containers : os[i] # "none"}

Restart ==
  /\ host \in {"exited", "dead"} /\ lives < MaxLives
  /\ lives' = lives + 1
  /\ \E failed \in SUBSET Swept :
       /\ "docker" \in Faults \/ failed = {}
       /\ os' = [i \in Instances |-> IF i \in Swept \ failed THEN "none" ELSE os[i]]
       /\ unremoved' = failed
  /\ spawn' = [i \in Instances |-> IF spawn[i] = "none" THEN "none" ELSE "lost"]
  /\ limiter' \in BOOLEAN
  /\ host' = "serving" /\ collected' = {}
  /\ UNCHANGED <<signal, watcher, handle, verdict, limited>>
-----------------------------------------------------------------------------
SpawnStep(i) ==
  \/ StartContainer(i) \/ InspectAddr(i) \/ Ready(i) \/ ReadyTimeout(i)
  \/ ExitedBeforeReady(i) \/ Undo(i)

WatcherStep(i) ==
  \/ SelectExit(i) \/ SelectStop(i) \/ GraceOver(i) \/ StopReturns(i) \/ RemoveContainer(i)

HandleStep(i) == Track(i) \/ Stop(i) \/ ReportDead(i) \/ DropHandle(i)

Next ==
  \/ \E i \in Instances :
       \/ LaunchProcess(i) \/ LaunchContainer(i) \/ SpawnStep(i) \/ DropSpawn(i)
       \/ HandleStep(i) \/ WatcherStep(i)
       \/ Obeys(i) \/ Exits(i)
  \/ Shutdown \/ StopAllInstances \/ Exit \/ HostDies \/ Restart

Spec == Init /\ [][Next]_vars

(* Tasks are polled; start_timeout and the grace period end, and dockerd   *)
(* answers; the kernel delivers SIGKILL. Starts, stops, signals to the     *)
(* host and crashes are not fair.                                          *)
Fairness ==
  /\ \A i \in Instances :
       WF_vars(SpawnStep(i)) /\ WF_vars(WatcherStep(i)) /\ WF_vars(Obeys(i))
  /\ WF_vars(StopAllInstances) /\ WF_vars(Exit)

FairSpec == Spec /\ Fairness
-----------------------------------------------------------------------------
(* stop() and wait() "return once fully stopped": an exit is reported when *)
(* the process has been reaped, or the container is gone, unless dockerd   *)
(* refused to remove it.                                                   *)
ReportedIsGone ==
  \A i \in Instances : verdict[i] # "pending" => os[i] = "none" \/ i \in unremoved

(* While the host runs, every container has somebody who will remove it;   *)
(* forgotten are only one whose start_container() failed and one whose     *)
(* start was dropped halfway. Those wait for the next startup's sweep.     *)
ContainersInHand ==
  host \in Up =>
    \A i \in Containers : os[i] # "none" =>
      \/ spawn[i] \in InProgress \cup {"startfailed", "dropped"}
      \/ watcher[i] \in Watching
      \/ i \in unremoved

(* After a shutdown nothing of this host runs that was in a pool when its  *)
(* instances were stopped, and no process at all: one that was not stopped *)
(* has been killed with its task. A container in neither place runs on.    *)
ShutdownLeaves ==
  host = "exited" =>
    \A i \in Instances : os[i] = "alive" /\ spawn[i] # "lost" =>
      \/ i \in Processes /\ signal[i] = "kill"
      \/ i \in Containers /\ i \notin collected \ unremoved

(* FR-014a's limiter does not pile up cgroups: an instance that ended in   *)
(* the care of its driver took its cgroup along, unless the limiter was    *)
(* disabled after it was made.                                             *)
CgroupsRemoved ==
  limiter /\ host \in Up =>
    \A i \in limited : spawn[i] \in InProgress \cup {"dropped", "lost"} \/ watcher[i] \in Watching

(* spawn() and stop() come back while the host is up, whatever a process   *)
(* makes of its signals and dockerd of its calls.                          *)
SpawnAndStopReturn ==
  \A i \in Instances :
    /\ spawn[i] \in InProgress ~> spawn[i] \notin InProgress \/ host \notin Up
    /\ handle[i] = "stop" ~> verdict[i] # "pending" \/ host \notin Up
=============================================================================
