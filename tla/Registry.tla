------------------------------ MODULE Registry ------------------------------
(***************************************************************************)
(* Deploy, delete and restore of one function: RegistryService             *)
(* (registry/service.rs) over its Store, the artifact directories and the  *)
(* map of pools, and the startup sequence of registry/restore.rs.          *)
(* Functions meet only in maps keyed by their names.                       *)
(*                                                                         *)
(* A call of the Store is one transaction and one action; handlers run in  *)
(* parallel, so anything may happen between two calls. Records and files   *)
(* survive a crash; pools, the `building` set and the handlers do not.     *)
(***************************************************************************)
EXTENDS Integers, FiniteSets

CONSTANTS
  Deploys,       \* calls of register(), each made once
  ImageDeploys,  \* those with Source::Image, the others have Source::Dir
  Deletes,       \* calls of delete(), each made once
  Nobody,        \* no deploy
  NoFunction,    \* get_function() returned None
  MaxCrashes,    \* bound on the number of crashes
  Disconnects    \* TRUE: clients of the admin API may go away

States == {"Building", "Ready", "Failed", "Deleting"}

ASSUME RegistryAssumption ==
  /\ IsFiniteSet(Deploys) /\ IsFiniteSet(Deletes)
  /\ ImageDeploys \subseteq Deploys
  /\ Deploys \cap Deletes = {}
  /\ Nobody \notin Deploys
  /\ NoFunction \notin [state : States, current : Nat]
  /\ MaxCrashes \in Nat
  /\ Disconnects \in BOOLEAN

VARIABLES
  rec,       \* FUNCTIONS_TABLE: the record of the function
  revs,      \* REVISIONS_TABLE: the deploy whose snapshot each number has
  pruned,    \* the numbers with artifact_pruned
  builds,    \* BUILDS_TABLE: the status of each deploy's build
  files,     \* artifacts/<name>/<number>: missing, empty, or who built it
  template,  \* the deploy new instances of the pool start from; no pool: Nobody
  maker,     \* the deploy that created the pool: its driver, its limits
  building,  \* the name is in RegistryService.building
  pc,        \* where each register() and delete() is
  got,       \* the record each of them has read last
  num,       \* revision_number of each deploy
  cut,       \* the number a deploy's prune_old_artifacts() is at
  copy,      \* the revision it has read there
  phase,     \* serving, or where restore() is
  listed,    \* the running builds restore() has found and not yet marked
  torn,      \* a crash came between two records that belong together
  crashes

stored == <<rec, revs, pruned, builds, files>>
memory == <<template, maker, building>>
locals == <<pc, got, num, cut, copy>>
system == <<phase, listed, torn, crashes>>
vars == <<stored, memory, locals, system>>

Ops == Deploys \cup Deletes
Numbers == 1..Cardinality(Deploys)
Records == [state : States, current : {0} \cup Numbers]   \* 0: no revision yet
DeploySteps == {"idle", "accepted", "read", "recorded", "registered", "build", "built",
                "broken", "store", "activate", "reread", "switch", "prune", "mark", "fail",
                "leave"}
DeleteSteps == {"idle", "found", "marked", "stopping", "stopped", "erased"}
EndSteps == {"done", "rejected", "cancelled", "lost"}

TypeOK ==
  /\ rec \in Records \cup {NoFunction}
  /\ revs \in [Numbers -> Deploys \cup {Nobody}]
  /\ pruned \subseteq Numbers
  /\ builds \in [Deploys -> {"none", "running", "succeeded", "failed"}]
  /\ files \in [Numbers -> Deploys \cup {"missing", "empty"}]
  /\ template \in Deploys \cup {Nobody}
  /\ maker \in Deploys \cup {Nobody}
  /\ building \in BOOLEAN
  /\ pc \in [Ops -> DeploySteps \cup DeleteSteps \cup EndSteps]
  /\ got \in [Ops -> Records \cup {NoFunction}]
  /\ num \in [Deploys -> Numbers]
  /\ cut \in [Deploys -> Numbers]
  /\ copy \in [Deploys -> Deploys \cup {Nobody}]
  /\ phase \in {"serving", "builds", "function", "pools"}
  /\ listed \subseteq Deploys /\ torn \in BOOLEAN
  /\ crashes \in 0..MaxCrashes

Init ==
  /\ rec = NoFunction
  /\ revs = [n \in Numbers |-> Nobody]
  /\ pruned = {}
  /\ builds = [d \in Deploys |-> "none"]
  /\ files = [n \in Numbers |-> "missing"]
  /\ template = Nobody
  /\ maker = Nobody
  /\ building = FALSE
  /\ pc = [o \in Ops |-> "idle"]
  /\ got = [o \in Ops |-> NoFunction]
  /\ num = [d \in Deploys |-> 1]
  /\ cut = [d \in Deploys |-> 1]
  /\ copy = [d \in Deploys |-> Nobody]
  /\ phase = "serving"
  /\ listed = {} /\ torn = FALSE
  /\ crashes = 0
-----------------------------------------------------------------------------
At(o, step) == phase = "serving" /\ pc[o] = step
Goto(o, step) == pc' = [pc EXCEPT ![o] = step]

CurrentOf(r) == IF r = NoFunction THEN 0 ELSE r.current
WasReady(r) == r # NoFunction /\ r.state = "Ready"
NextNumberSkips(r) == CurrentOf(r) + 2
NextNumberAgain(r) == IF CurrentOf(r) = 0 THEN 1 ELSE CurrentOf(r)
NextNumber(r) == CurrentOf(r) + 1

(* The guard of RegistryService.pools lives through delete()'s stop_all(). *)
PoolsLocked == \E x \in Deletes : pc[x] = "stopping"

(* register(): the test of `building` and the insert are one critical      *)
(* section; it is left by "leave" only.                                    *)
Accept(d) ==
  /\ At(d, "idle")
  /\ IF building
       THEN Goto(d, "rejected") /\ UNCHANGED building
       ELSE Goto(d, "accepted") /\ building' = TRUE
  /\ UNCHANGED <<stored, template, maker, got, num, cut, copy, system>>

(* The source, its runtime or the tool it needs is missing.                *)
Refuse(d) ==
  /\ At(d, "accepted")
  /\ Goto(d, "leave")
  /\ UNCHANGED <<stored, memory, got, num, cut, copy, system>>

ReadExisting(d) ==
  /\ At(d, "accepted")
  /\ got' = [got EXCEPT ![d] = rec]
  /\ num' = [num EXCEPT ![d] = NextNumber(rec)]
  /\ Goto(d, "read")
  /\ UNCHANGED <<stored, memory, cut, copy, system>>

(* build_function_record() keeps the current revision; for an image there  *)
(* is no build, and the record says Ready at once.                         *)
PutBuilding(d) ==
  /\ At(d, "read") /\ d \notin ImageDeploys
  /\ rec' = [state |-> "Building", current |-> CurrentOf(got[d])]
  /\ Goto(d, "recorded")
  /\ UNCHANGED <<revs, pruned, builds, files, memory, got, num, cut, copy, system>>

PutImageReady(d) ==
  /\ At(d, "read") /\ d \in ImageDeploys
  /\ rec' = [state |-> "Ready", current |-> num[d]]
  /\ Goto(d, "store")
  /\ UNCHANGED <<revs, pruned, builds, files, memory, got, num, cut, copy, system>>

Invalid(d) ==
  /\ At(d, "read")
  /\ Goto(d, "leave")
  /\ UNCHANGED <<stored, memory, got, num, cut, copy, system>>

PutBuildRunning(d) ==
  /\ At(d, "recorded")
  /\ builds' = [builds EXCEPT ![d] = "running"]
  /\ Goto(d, "registered")
  /\ UNCHANGED <<rec, revs, pruned, files, memory, got, num, cut, copy, system>>

(* Builder::build creates the artifact's directory first and copies the    *)
(* result there last.                                                      *)
BuildStarts(d) ==
  /\ At(d, "registered")
  /\ files' = [files EXCEPT ![num[d]] = IF @ = "missing" THEN "empty" ELSE @]
  /\ Goto(d, "build")
  /\ UNCHANGED <<rec, revs, pruned, builds, memory, got, num, cut, copy, system>>

BuildSucceeds(d) ==
  /\ At(d, "build")
  /\ files[num[d]] # "missing"
  /\ files' = [files EXCEPT ![num[d]] = d]
  /\ Goto(d, "built")
  /\ UNCHANGED <<rec, revs, pruned, builds, memory, got, num, cut, copy, system>>

BuildFails(d) ==
  /\ At(d, "build")
  /\ Goto(d, "broken")
  /\ UNCHANGED <<stored, memory, got, num, cut, copy, system>>

PutBuildResult(d) ==
  /\ At(d, "built") \/ At(d, "broken")
  /\ builds' = [builds EXCEPT ![d] = IF pc[d] = "built" THEN "succeeded" ELSE "failed"]
  /\ Goto(d, IF pc[d] = "built" THEN "store" ELSE "fail")
  /\ UNCHANGED <<rec, revs, pruned, files, memory, got, num, cut, copy, system>>

PutFailedAnyway(d) ==
  /\ At(d, "fail")
  /\ rec' = [state |-> "Failed", current |-> CurrentOf(got[d])]
  /\ Goto(d, "leave")
  /\ UNCHANGED <<revs, pruned, builds, files, memory, got, num, cut, copy, system>>

PutFailedReturns(d) ==
  /\ At(d, "fail")
  /\ rec' = [state |-> IF WasReady(got[d]) THEN "Ready" ELSE "Failed",
             current |-> CurrentOf(got[d])]
  /\ Goto(d, "done")
  /\ UNCHANGED <<revs, pruned, builds, files, memory, got, num, cut, copy, system>>

(* A failed build writes back the record of the beginning, which is Ready  *)
(* again if it was Ready then.                                             *)
PutFailed(d) ==
  /\ At(d, "fail")
  /\ rec' = [state |-> IF WasReady(got[d]) THEN "Ready" ELSE "Failed",
             current |-> CurrentOf(got[d])]
  /\ Goto(d, "leave")
  /\ UNCHANGED <<revs, pruned, builds, files, memory, got, num, cut, copy, system>>

PutRevision(d) ==
  /\ At(d, "store")
  /\ revs' = [revs EXCEPT ![num[d]] = d]
  /\ pruned' = pruned \ {num[d]}
  /\ Goto(d, "activate")
  /\ UNCHANGED <<rec, builds, files, memory, got, num, cut, copy, system>>
-----------------------------------------------------------------------------
(* activate_revision(): swap the pool's template, or create the pool; then *)
(* a get_function() and, if the record is there, a put_function().         *)
SwapTemplate(d) ==
  /\ At(d, "activate")
  /\ ~PoolsLocked
  /\ template' = d
  /\ maker' = IF template = Nobody THEN d ELSE maker
  /\ Goto(d, "reread")
  /\ UNCHANGED <<stored, building, got, num, cut, copy, system>>

ReadCurrent(d) ==
  /\ At(d, "reread")
  /\ got' = [got EXCEPT ![d] = rec]
  /\ cut' = [cut EXCEPT ![d] = 1]
  /\ Goto(d, IF rec = NoFunction THEN "prune" ELSE "switch")
  /\ UNCHANGED <<stored, memory, num, copy, system>>

PutReady(d) ==
  /\ At(d, "switch")
  /\ rec' = [state |-> "Ready", current |-> num[d]]
  /\ Goto(d, "prune")
  /\ UNCHANGED <<revs, pruned, builds, files, memory, got, num, cut, copy, system>>

(* prune_old_artifacts() walks the numbers below current - 1. An image has *)
(* no files; a directory that cannot be removed is left for another time.  *)
(* The revision read before the removal is written back after it.          *)
KeptFromNext(n) == n + 1
KeptFrom(n) == n - 1
Prunable(k) == revs[k] # Nobody /\ revs[k] \notin ImageDeploys /\ k \notin pruned

PruneSkips(d) ==
  /\ At(d, "prune")
  /\ cut[d] < KeptFrom(num[d])
  /\ cut' = [cut EXCEPT ![d] = @ + 1]
  /\ UNCHANGED <<stored, memory, pc, got, num, copy, system>>

PruneRemoves(d) ==
  /\ At(d, "prune")
  /\ cut[d] < KeptFrom(num[d]) /\ Prunable(cut[d])
  /\ files' = [files EXCEPT ![cut[d]] = "missing"]
  /\ copy' = [copy EXCEPT ![d] = revs[cut[d]]]
  /\ Goto(d, "mark")
  /\ UNCHANGED <<rec, revs, pruned, builds, memory, got, num, cut, system>>

PruneMarks(d) ==
  /\ At(d, "mark")
  /\ revs' = [revs EXCEPT ![cut[d]] = copy[d]]
  /\ pruned' = pruned \cup {cut[d]}
  /\ cut' = [cut EXCEPT ![d] = @ + 1]
  /\ Goto(d, "prune")
  /\ UNCHANGED <<rec, builds, files, memory, got, num, copy, system>>

PruneEnds(d) ==
  /\ At(d, "prune")
  /\ cut[d] >= KeptFrom(num[d])
  /\ Goto(d, "leave")
  /\ UNCHANGED <<stored, memory, got, num, cut, copy, system>>

Leave(d) ==
  /\ At(d, "leave")
  /\ building' = FALSE
  /\ Goto(d, "done")
  /\ UNCHANGED <<stored, template, maker, got, num, cut, copy, system>>
-----------------------------------------------------------------------------
(* delete(): get_function() and put_function() are two transactions.       *)
FindFunction(x) ==
  /\ At(x, "idle")
  /\ got' = [got EXCEPT ![x] = rec]
  /\ Goto(x, IF rec = NoFunction THEN "rejected" ELSE "found")
  /\ UNCHANGED <<stored, memory, num, cut, copy, system>>

PutDeleting(x) ==
  /\ At(x, "found")
  /\ rec' = [state |-> "Deleting", current |-> got[x].current]
  /\ Goto(x, "marked")
  /\ UNCHANGED <<revs, pruned, builds, files, memory, got, num, cut, copy, system>>

TakePool(x) ==
  /\ At(x, "marked")
  /\ ~PoolsLocked
  /\ template' = Nobody /\ maker' = Nobody
  /\ Goto(x, IF template = Nobody THEN "stopped" ELSE "stopping")
  /\ UNCHANGED <<stored, building, got, num, cut, copy, system>>

StopReturns(x) ==
  /\ At(x, "stopping")
  /\ Goto(x, "stopped")
  /\ UNCHANGED <<stored, memory, got, num, cut, copy, system>>

DeleteRecord(x) ==
  /\ At(x, "stopped")
  /\ rec' = NoFunction
  /\ Goto(x, "erased")
  /\ UNCHANGED <<revs, pruned, builds, files, memory, got, num, cut, copy, system>>

RemoveFiles(x) ==
  /\ At(x, "erased")
  /\ files' = [n \in Numbers |-> "missing"]
  /\ Goto(x, "done")
  /\ UNCHANGED <<rec, revs, pruned, builds, memory, got, num, cut, copy, system>>

(* The admin's client goes away and the handler is dropped at an await:    *)
(* of a lock, the builder, the Pub/Sub binding, a stop or a removal.       *)
Awaiting == {"accepted", "recorded", "build", "activate", "prune", "mark", "leave",
             "marked", "stopping", "stopped", "erased"}

Cancel(o) ==
  /\ Disconnects
  /\ phase = "serving"
  /\ pc[o] \in Awaiting \/ (o \in ImageDeploys /\ pc[o] = "store")
  /\ Goto(o, "cancelled")
  /\ UNCHANGED <<stored, memory, got, num, cut, copy, system>>
-----------------------------------------------------------------------------
(* Between two records of which the first alone is not the truth: Building *)
(* without a running build, a build that has ended and not its function,   *)
(* a revision's number without the revision.                               *)
Halfway ==
  \/ phase = "function"
  \/ \E d \in Deploys :
       \/ pc[d] \in {"recorded", "fail", "store"}
       \/ d \notin ImageDeploys /\ pc[d] \in {"activate", "reread", "switch"}

(* A crash, or SIGKILL, at any time; the next process starts with          *)
(* restore(), which comes before the first request. It lists the builds    *)
(* once, before anything changes them.                                     *)
Crash ==
  /\ crashes < MaxCrashes
  /\ crashes' = crashes + 1
  /\ torn' = (torn \/ Halfway)
  /\ pc' = [o \in Ops |-> IF pc[o] \in {"idle"} \cup EndSteps THEN pc[o] ELSE "lost"]
  /\ template' = Nobody /\ maker' = Nobody
  /\ building' = FALSE
  /\ phase' = "builds"
  /\ listed' = {d \in Deploys : builds[d] = "running"}
  /\ UNCHANGED <<stored, got, num, cut, copy>>

(* reconcile_interrupted_builds(): for each running build one put_build(), *)
(* then one put_function().                                                *)
FailBuild(d) ==
  /\ phase = "builds"
  /\ d \in listed
  /\ builds' = [builds EXCEPT ![d] = "failed"]
  /\ listed' = listed \ {d}
  /\ phase' = "function"
  /\ UNCHANGED <<rec, revs, pruned, files, memory, locals, torn, crashes>>

FixFunctionReady ==
  /\ phase = "function"
  /\ rec' = IF rec = NoFunction THEN rec ELSE [rec EXCEPT !.state = "Ready"]
  /\ phase' = "builds"
  /\ UNCHANGED <<revs, pruned, builds, files, memory, locals, listed, torn, crashes>>

FixFunctionAfresh ==
  /\ phase = "function"
  /\ rec' = IF rec = NoFunction THEN rec ELSE [state |-> "Failed", current |-> 0]
  /\ phase' = "builds"
  /\ UNCHANGED <<revs, pruned, builds, files, memory, locals, listed, torn, crashes>>

FixFunction ==
  /\ phase = "function"
  /\ rec' = IF rec = NoFunction THEN rec
            ELSE [rec EXCEPT !.state = IF rec.current # 0 THEN "Ready" ELSE "Failed"]
  /\ phase' = "builds"
  /\ UNCHANGED <<revs, pruned, builds, files, memory, locals, listed, torn, crashes>>

BuildsReconciled ==
  /\ phase = "builds"
  /\ listed = {}
  /\ phase' = "pools"
  /\ UNCHANGED <<stored, memory, locals, listed, torn, crashes>>

(* restore_ready_function_pools(): activate_revision() of the stored       *)
(* revision, which prunes what an interrupted prune left.                  *)
Restorable == WasReady(rec) /\ rec.current # 0 /\ revs[rec.current] # Nobody

RestorePool ==
  /\ phase = "pools"
  /\ Restorable
  /\ template' = revs[rec.current] /\ maker' = revs[rec.current]
  /\ \E K \in SUBSET {k \in 1..(KeptFrom(rec.current) - 1) : Prunable(k)} :
       /\ files' = [n \in Numbers |-> IF n \in K THEN "missing" ELSE files[n]]
       /\ pruned' = pruned \cup K
  /\ phase' = "serving"
  /\ UNCHANGED <<rec, revs, builds, building, locals, listed, torn, crashes>>

NothingToRestore ==
  /\ phase = "pools"
  /\ ~Restorable
  /\ phase' = "serving"
  /\ UNCHANGED <<stored, memory, locals, listed, torn, crashes>>
-----------------------------------------------------------------------------
RegisterStep(d) ==
  \/ Refuse(d) \/ ReadExisting(d) \/ PutBuilding(d) \/ PutImageReady(d) \/ Invalid(d)
  \/ PutBuildRunning(d) \/ BuildStarts(d) \/ BuildSucceeds(d) \/ BuildFails(d)
  \/ PutBuildResult(d) \/ PutFailed(d) \/ PutRevision(d)
  \/ SwapTemplate(d) \/ ReadCurrent(d) \/ PutReady(d)
  \/ PruneSkips(d) \/ PruneRemoves(d) \/ PruneMarks(d) \/ PruneEnds(d) \/ Leave(d)

DeleteStep(x) ==
  \/ PutDeleting(x) \/ TakePool(x) \/ StopReturns(x) \/ DeleteRecord(x) \/ RemoveFiles(x)

RestoreStep ==
  \/ \E d \in Deploys : FailBuild(d)
  \/ FixFunction \/ BuildsReconciled \/ RestorePool \/ NothingToRestore

Next ==
  \/ \E d \in Deploys : Accept(d) \/ RegisterStep(d)
  \/ \E x \in Deletes : FindFunction(x) \/ DeleteStep(x)
  \/ \E o \in Ops : Cancel(o)
  \/ Crash
  \/ RestoreStep

Spec == Init /\ [][Next]_vars

(* Handlers are tasks tokio keeps polling; a build has a timeout, a stop a *)
(* grace period, and the map's lock is served in order: hence SF, others   *)
(* may take it again and again. Requests, clients and crashes are not fair.*)
Fairness ==
  /\ \A d \in Deploys : WF_vars(RegisterStep(d)) /\ SF_vars(SwapTemplate(d))
  /\ \A x \in Deletes : WF_vars(DeleteStep(x)) /\ SF_vars(TakePool(x))
  /\ WF_vars(RestoreStep)

FairSpec == Spec /\ Fairness
-----------------------------------------------------------------------------
Idle == phase = "serving" /\ \A o \in Ops : pc[o] \in {"idle"} \cup EndSteps

(* The revision has its record and, if it was built here, its artifact.    *)
Backed(n, d) ==
  /\ revs[n] = d /\ n \notin pruned
  /\ d \in ImageDeploys \/ files[n] = d

(* A function that is Ready on a revision can be restored from the disk at *)
(* any time: its record, not marked pruned, and the very files its build   *)
(* made, through redeploys, failed builds, prunes, crashes and abandoned   *)
(* requests.                                                               *)
ReadyIsBacked ==
  rec # NoFunction /\ rec.state = "Ready" /\ rec.current # 0
    => revs[rec.current] # Nobody /\ Backed(rec.current, revs[rec.current])

(* New instances start from the artifact of the pool's template: no prune  *)
(* and no later build touches it while the pool may still spawn from it.   *)
TemplateIsBacked == template # Nobody => Backed(num[template], template)

(* While requests are served a Ready function has a pool, and the pool's   *)
(* template is its current revision, except that a redeploy has swapped    *)
(* the template and not yet stored the new number.                         *)
ReadyHasPool ==
  phase = "serving" /\ WasReady(rec) =>
    /\ rec.current # 0 /\ template # Nobody
    /\ \/ template = revs[rec.current]
       \/ pc[template] \in {"reread", "switch"}

(* The revisions a function has had are history: none up to the current    *)
(* one is ever overwritten by another deploy, and the number never falls.  *)
HistoryKept ==
  [][rec # NoFunction /\ rec' # NoFunction =>
       /\ rec'.current >= rec.current
       /\ \A n \in 1..rec.current : revs'[n] = revs[n]]_vars

(* FR-007, across restarts too: whatever deploys fail or are refused and   *)
(* wherever a crash hits, but between two records that belong together,    *)
(* the revision activated last is Ready and in the pool when all is quiet, *)
(* and without one the function is Failed, unless a delete interferes.     *)
FailedRedeployHarmless ==
  Idle /\ ~torn /\ (\A x \in Deletes : pc[x] \in {"idle", "rejected"}) /\ rec # NoFunction
    => IF rec.current = 0 THEN rec.state = "Failed"
       ELSE rec.state = "Ready" /\ template # Nobody /\ template = revs[rec.current]

(* No path of register() leaves the name in `building`, which would refuse *)
(* every later deploy; a crash empties the set.                            *)
BuildingReleased == building ~> ~building
-----------------------------------------------------------------------------
(* What the documentation of the code says, and the code does not do.      *)

(* `building`: "function names with a build currently running".            *)
BuildingIsRunning ==
  building => \E d \in Deploys : pc[d] \in DeploySteps \ {"idle"}

(* restore(): after a crash a function "falls back to `failed` (or stays   *)
(* `ready` [...]) - never left stuck `building` forever".                  *)
NeverStuckBuilding == phase = "pools" /\ rec # NoFunction => rec.state # "Building"

(* activate_revision: "builds (or replaces) the `InstancePool`"; the pool  *)
(* of an image needs the driver for images, that of a build the other one. *)
PoolFitsTemplate ==
  template # Nobody => (template \in ImageDeploys <=> maker \in ImageDeploys)
=============================================================================
