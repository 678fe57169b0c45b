------------------------ MODULE InstanceDriver_proofs ------------------------
(***************************************************************************)
(* InstanceDriver's invariants, for any number of instances of both kinds, *)
(* any number of lives of the host and any choice of faults.               *)
(*                                                                         *)
(* Each follows from where a single instance stands: its spawn(), its task *)
(* and its verdict can only be in a few states together (Standing). The    *)
(* drivers share nothing but the limiter, so a step of instance i is shown *)
(* to keep what Each says of an arbitrary instance j; the steps of the     *)
(* host, which touch all of them, are treated in the same way.             *)
(***************************************************************************)
EXTENDS InstanceDriver, TLAPS

Standing(i) ==
  /\ spawn[i] = "none" => os[i] = "none" /\ i \notin limited
  /\ spawn[i] \in InProgress \cup {"none"} => watcher[i] = "none"
  /\ spawn[i] \in {"created", "started", "startfailed"} => i \in Containers
  /\ watcher[i] \in {"removeCrashed", "removeStopped"} => i \in Containers
  /\ verdict[i] # "pending" => watcher[i] = "done"

(* ReportedIsGone, ContainersInHand, CgroupsRemoved and ShutdownLeaves of  *)
(* one instance.                                                           *)
Gone(i) == verdict[i] # "pending" => os[i] = "none" \/ i \in unremoved

InHand(i) ==
  host \in Up /\ i \in Containers /\ os[i] # "none" =>
    \/ spawn[i] \in InProgress \cup {"startfailed", "dropped"}
    \/ watcher[i] \in Watching
    \/ i \in unremoved

Grouped(i) ==
  limiter /\ host \in Up /\ i \in limited =>
    spawn[i] \in InProgress \cup {"dropped", "lost"} \/ watcher[i] \in Watching

Left(i) ==
  host = "exited" /\ os[i] = "alive" /\ spawn[i] # "lost" =>
    \/ i \in Processes /\ signal[i] = "kill"
    \/ i \in Containers /\ i \notin collected \ unremoved

(* A process has an owner, was killed, or is an earlier host's: what makes *)
(* Exit, which kills what has an owner, leave no process behind.           *)
Owned(i) ==
  i \in Processes /\ os[i] # "none" =>
    \/ spawn[i] \in InProgress \cup {"lost"}
    \/ watcher[i] \in Watching
    \/ signal[i] = "kill"

Each(i) == Standing(i) /\ Gone(i) /\ InHand(i) /\ Grouped(i) /\ Left(i) /\ Owned(i)

DriverInv == TypeOK /\ \A i \in Instances : Each(i)

InstanceStep(i) ==
  \/ LaunchProcess(i) \/ LaunchContainer(i) \/ SpawnStep(i) \/ DropSpawn(i)
  \/ HandleStep(i) \/ WatcherStep(i) \/ Obeys(i) \/ Exits(i)

HostStep == Shutdown \/ StopAllInstances \/ Exit \/ HostDies \/ Restart

USE DEF InProgress, Watching, Up, Processes, hostVars, groupVars

LEMMA InitDriver == Init => DriverInv
BY DriverAssumption DEF Init, DriverInv, TypeOK, Each, Standing, Gone, InHand, Grouped, Left, Owned

(* A step of one instance keeps the types. Only containers are removed, so *)
(* only they end up in `unremoved`: that takes Standing.                   *)
LEMMA InstanceTypes ==
  ASSUME DriverInv, NEW i \in Instances, InstanceStep(i)
  PROVE  TypeOK'
<1>1. CASE LaunchProcess(i)
  BY <1>1, DriverAssumption DEF DriverInv, TypeOK, LaunchProcess, Apply,
    At, Goto, Becomes
<1>2. CASE LaunchContainer(i)
  BY <1>2, DriverAssumption DEF DriverInv, TypeOK, LaunchContainer, At,
    Goto, Becomes
<1>3. CASE StartContainer(i)
  BY <1>3, DriverAssumption DEF DriverInv, TypeOK, StartContainer, At,
    Goto, Becomes
<1>4. CASE InspectAddr(i)
  BY <1>4, DriverAssumption DEF DriverInv, TypeOK, InspectAddr, At, Goto,
    Becomes
<1>5. CASE Ready(i)
  BY <1>5, DriverAssumption DEF DriverInv, TypeOK, Ready, At, Goto,
    Becomes
<1>6. CASE ReadyTimeout(i)
  BY <1>6, DriverAssumption DEF DriverInv, TypeOK, ReadyTimeout, At, Goto,
    Becomes
<1>7. CASE ExitedBeforeReady(i)
  BY <1>7, DriverAssumption DEF DriverInv, TypeOK, ExitedBeforeReady,
    Cleanup, At, Goto, Becomes
<1>8. CASE Undo(i)
  BY <1>8, DriverAssumption DEF DriverInv, TypeOK, Undo, ForceRemove,
    Cleanup, At, Goto, Becomes
<1>9. CASE DropSpawn(i)
  BY <1>9, DriverAssumption DEF DriverInv, TypeOK, DropSpawn, At, Goto,
    Becomes
<1>10. CASE HandleStep(i)
  BY <1>10, DriverAssumption DEF DriverInv, TypeOK, HandleStep, Track,
    Stop, ReportDead, DropHandle, HandleMoves, At, Goto, Becomes
<1>11. CASE SelectExit(i)
  BY <1>11, DriverAssumption DEF DriverInv, TypeOK, SelectExit, WatcherAt,
    WatcherGoes, Reaped, Report, KeepVerdict, Cleanup, At, Goto, Becomes
<1>12. CASE SelectStop(i)
  BY <1>12, DriverAssumption DEF DriverInv, TypeOK, SelectStop, WatcherAt,
    WatcherGoes, KeepVerdict, At, Goto, Becomes
<1>13. CASE GraceOver(i)
  BY <1>13, DriverAssumption DEF DriverInv, TypeOK, GraceOver, WatcherAt,
    WatcherGoes, KeepVerdict, At, Goto, Becomes
<1>14. CASE StopReturns(i)
  BY <1>14, DriverAssumption DEF DriverInv, TypeOK, StopReturns,
    WatcherAt, WatcherGoes, Reaped, Report, KeepVerdict, Cleanup, At,
    Goto, Becomes
<1>15. CASE RemoveContainer(i)
  BY <1>15, DriverAssumption DEF DriverInv, TypeOK, Each, Standing, RemoveContainer,
    WatcherAt, WatcherGoes, Report, ForceRemove, At, Goto, Becomes
<1>16. CASE Obeys(i) \/ Exits(i)
  BY <1>16, DriverAssumption DEF DriverInv, TypeOK, Obeys, Exits, Dies,
    Orphaned, At, Goto, Becomes
<1>17. QED
  BY <1>1, <1>2, <1>3, <1>4, <1>5, <1>6, <1>7, <1>8, <1>9, <1>10, <1>11,
    <1>12, <1>13, <1>14, <1>15, <1>16 DEF InstanceStep, SpawnStep,
    WatcherStep

(* A step of instance i keeps what is said of any instance j.              *)
LEMMA InstanceKeeps ==
  ASSUME DriverInv, NEW i \in Instances, NEW j \in Instances, InstanceStep(i)
  PROVE  Each(j)'
<1>1. CASE LaunchProcess(i)
  BY <1>1 DEF DriverInv, TypeOK, Each, Standing, Gone, InHand, Grouped, Left, Owned,
    LaunchProcess, Apply, At, Goto, Becomes
<1>2. CASE LaunchContainer(i)
  BY <1>2 DEF DriverInv, TypeOK, Each, Standing, Gone, InHand, Grouped, Left, Owned,
    LaunchContainer, At, Goto, Becomes
<1>3. CASE StartContainer(i)
  BY <1>3 DEF DriverInv, TypeOK, Each, Standing, Gone, InHand, Grouped, Left, Owned,
    StartContainer, At, Goto, Becomes
<1>4. CASE InspectAddr(i)
  BY <1>4 DEF DriverInv, TypeOK, Each, Standing, Gone, InHand, Grouped, Left, Owned,
    InspectAddr, At, Goto, Becomes
<1>5. CASE Ready(i)
  BY <1>5 DEF DriverInv, TypeOK, Each, Standing, Gone, InHand, Grouped, Left, Owned,
    Ready, At, Goto, Becomes
<1>6. CASE ReadyTimeout(i)
  BY <1>6 DEF DriverInv, TypeOK, Each, Standing, Gone, InHand, Grouped, Left, Owned,
    ReadyTimeout, At, Goto, Becomes
<1>7. CASE ExitedBeforeReady(i)
  BY <1>7 DEF DriverInv, TypeOK, Each, Standing, Gone, InHand, Grouped, Left, Owned,
    ExitedBeforeReady, Cleanup, At, Goto, Becomes
<1>8. CASE Undo(i)
  BY <1>8 DEF DriverInv, TypeOK, Each, Standing, Gone, InHand, Grouped, Left, Owned, Undo,
    ForceRemove, Cleanup, At, Goto, Becomes
<1>9. CASE DropSpawn(i)
  BY <1>9 DEF DriverInv, TypeOK, Each, Standing, Gone, InHand, Grouped, Left, Owned,
    DropSpawn, At, Goto, Becomes
<1>10. CASE HandleStep(i)
  BY <1>10 DEF DriverInv, TypeOK, Each, Standing, Gone, InHand, Grouped, Left, Owned,
    HandleStep, Track, Stop, ReportDead, DropHandle, HandleMoves, At,
    Goto, Becomes
<1>11. CASE SelectExit(i)
  BY <1>11 DEF DriverInv, TypeOK, Each, Standing, Gone, InHand, Grouped, Left, Owned,
    SelectExit, WatcherAt, WatcherGoes, Reaped, Report, KeepVerdict,
    Cleanup, At, Goto, Becomes
<1>12. CASE SelectStop(i)
  BY <1>12 DEF DriverInv, TypeOK, Each, Standing, Gone, InHand, Grouped, Left, Owned,
    SelectStop, WatcherAt, WatcherGoes, KeepVerdict, At, Goto, Becomes
<1>13. CASE GraceOver(i)
  BY <1>13 DEF DriverInv, TypeOK, Each, Standing, Gone, InHand, Grouped, Left, Owned,
    GraceOver, WatcherAt, WatcherGoes, KeepVerdict, At, Goto, Becomes
<1>14. CASE StopReturns(i)
  BY <1>14 DEF DriverInv, TypeOK, Each, Standing, Gone, InHand, Grouped, Left, Owned,
    StopReturns, WatcherAt, WatcherGoes, Reaped, Report, KeepVerdict,
    Cleanup, At, Goto, Becomes
<1>15. CASE RemoveContainer(i)
  BY <1>15 DEF DriverInv, TypeOK, Each, Standing, Gone, InHand, Grouped, Left, Owned,
    RemoveContainer, WatcherAt, WatcherGoes, Report, ForceRemove, At,
    Goto, Becomes
<1>16. CASE Obeys(i) \/ Exits(i)
  BY <1>16 DEF DriverInv, TypeOK, Each, Standing, Gone, InHand, Grouped, Left, Owned,
    Obeys, Exits, Dies, Orphaned, At, Goto, Becomes
<1>17. QED
  BY <1>1, <1>2, <1>3, <1>4, <1>5, <1>6, <1>7, <1>8, <1>9, <1>10, <1>11,
    <1>12, <1>13, <1>14, <1>15, <1>16 DEF InstanceStep, SpawnStep,
    WatcherStep

(* The host's steps: shutdown, exit, death and restart.                    *)
LEMMA HostTypes ==
  ASSUME DriverInv, HostStep
  PROVE  TypeOK'
<1>1. CASE Shutdown
  BY <1>1, DriverAssumption DEF DriverInv, TypeOK, Shutdown
<1>2. CASE StopAllInstances
  BY <1>2, DriverAssumption DEF DriverInv, TypeOK, StopAllInstances
<1>3. CASE Exit
  BY <1>3, DriverAssumption DEF DriverInv, TypeOK, Exit, KillOnDrop,
    StopsReturned
<1>4. CASE HostDies
  BY <1>4, DriverAssumption DEF DriverInv, TypeOK, HostDies
<1>5. CASE Restart
  BY <1>5, DriverAssumption DEF DriverInv, TypeOK, Restart, Swept
<1>6. QED
  BY <1>1, <1>2, <1>3, <1>4, <1>5 DEF HostStep

LEMMA HostKeeps ==
  ASSUME DriverInv, NEW j \in Instances, HostStep
  PROVE  Each(j)'
<1>1. CASE Shutdown
  BY <1>1 DEF DriverInv, TypeOK, Each, Standing, Gone, InHand, Grouped, Left, Owned,
    Shutdown
<1>2. CASE StopAllInstances
  BY <1>2 DEF DriverInv, TypeOK, Each, Standing, Gone, InHand, Grouped, Left, Owned,
    StopAllInstances
<1>3. CASE Exit
  BY <1>3 DEF DriverInv, TypeOK, Each, Standing, Gone, InHand, Grouped, Left, Owned, Exit,
    KillOnDrop, StopsReturned
<1>4. CASE HostDies
  BY <1>4 DEF DriverInv, TypeOK, Each, Standing, Gone, InHand, Grouped, Left, Owned,
    HostDies
<1>5. CASE Restart
  BY <1>5 DEF DriverInv, TypeOK, Each, Standing, Gone, InHand, Grouped, Left, Owned,
    Restart, Swept
<1>6. QED
  BY <1>1, <1>2, <1>3, <1>4, <1>5 DEF HostStep

LEMMA NextDriver == DriverInv /\ [Next]_vars => DriverInv'
<1> SUFFICES ASSUME DriverInv, [Next]_vars PROVE DriverInv'
  OBVIOUS
<1>1. CASE \E i \in Instances : InstanceStep(i)
  BY <1>1, InstanceTypes, InstanceKeeps DEF DriverInv
<1>2. CASE HostStep
  BY <1>2, HostTypes, HostKeeps DEF DriverInv
<1>3. CASE UNCHANGED vars
  BY <1>3 DEF DriverInv, TypeOK, vars, Each, Standing, Gone, InHand, Grouped, Left, Owned
<1>4. QED
  BY <1>1, <1>2, <1>3 DEF Next, InstanceStep, HostStep

THEOREM DriverInvariant == Spec => []DriverInv
BY InitDriver, NextDriver, PTL DEF Spec
-----------------------------------------------------------------------------
(* The drivers' state has its types: no process ends up among the          *)
(* containers left behind, and no container in a cgroup of the limiter.    *)
THEOREM TypeCorrect == Spec => []TypeOK
<1>1. DriverInv => TypeOK
  BY DEF DriverInv
<1>2. QED
  BY <1>1, DriverInvariant, PTL

(* An exit is reported over exit_tx only when the instance is gone, except *)
(* for a container that dockerd would not remove.                          *)
THEOREM ReportsAreTrue == Spec => []ReportedIsGone
<1>1. DriverInv => ReportedIsGone
  BY DEF DriverInv, Each, ReportedIsGone, Gone
<1>2. QED
  BY <1>1, DriverInvariant, PTL

(* While the host is up, a container is somebody's to remove, unless its   *)
(* start failed in start_container() or was dropped.                       *)
THEOREM ContainersKept == Spec => []ContainersInHand
<1>1. DriverInv => ContainersInHand
  BY DriverAssumption DEF DriverInv, Each, ContainersInHand, InHand
<1>2. QED
  BY <1>1, DriverInvariant, PTL

(* After a graceful shutdown no process of this host is left unkilled, and *)
(* no container that a pool tracked is left running.                       *)
THEOREM ShutdownComplete == Spec => []ShutdownLeaves
<1>1. DriverInv => ShutdownLeaves
  BY DEF DriverInv, Each, ShutdownLeaves, Left
<1>2. QED
  BY <1>1, DriverInvariant, PTL

(* A limiter that still works leaves no cgroup of an instance that ended   *)
(* under its driver's eyes.                                                *)
THEOREM CgroupsCollected == Spec => []CgroupsRemoved
<1>1. DriverInv => CgroupsRemoved
  BY DEF DriverInv, Each, CgroupsRemoved, Grouped, TypeOK
<1>2. QED
  BY <1>1, DriverInvariant, PTL
=============================================================================
