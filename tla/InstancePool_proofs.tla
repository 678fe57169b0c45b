------------------------ MODULE InstancePool_proofs ------------------------
(***************************************************************************)
(* Proofs about InstancePool, for every number of pools, callers and       *)
(* instances and every configuration: the types, the exclusiveness of a    *)
(* start in progress, the bound max_instances and the conservation of the  *)
(* global permits; what the reaper spares; that every process is known to  *)
(* somebody, and what a delete leaves behind; and that the pools implement *)
(* the admission desk of InstanceBudget. Only NobodyOrphaned,              *)
(* OneSurvivorAtMost and StartsAreReal assume anything of the environment. *)
(***************************************************************************)
EXTENDS InstancePool, FiniteSetTheorems, TLAPS

(* TypeOK without the bound on the permits, which follows from counting    *)
(* them.                                                                   *)
Typed == Shapes /\ freeGlobal \in Nat

(* The inductive invariant. PermitConservation and AtMostMaxInstances are  *)
(* not inductive alone: finish_start() adds exactly one entry only if the  *)
(* new instance is not tracked yet, and stays within the bound tested by   *)
(* begin_start() only if nobody else started an instance in between.       *)
PoolInv == Typed /\ FlightInv /\ PermitConservation /\ AtMostMaxInstances

-----------------------------------------------------------------------------
(* Taking a part out of a finite set takes its cardinality off.            *)
LEMMA CardinalityWithout ==
  ASSUME NEW S, IsFiniteSet(S), NEW R \in SUBSET S
  PROVE  /\ IsFiniteSet(S \ R) /\ IsFiniteSet(R)
         /\ Cardinality(S) \in Nat /\ Cardinality(R) \in Nat /\ Cardinality(S \ R) \in Nat
         /\ Cardinality(S \ R) + Cardinality(R) = Cardinality(S)
<1>1. IsFiniteSet(R) /\ IsFiniteSet(S \ R)
  BY FS_Subset
<1>2. Cardinality(S) \in Nat /\ Cardinality(R) \in Nat /\ Cardinality(S \ R) \in Nat
  BY <1>1, FS_CardinalityType
<1>3. (S \ R) \cup R = S /\ (S \ R) \cap R = {}
  OBVIOUS
<1>4. Cardinality(S) = Cardinality(S \ R) + Cardinality(R) - Cardinality({})
  BY <1>1, <1>3, FS_Union
<1>5. QED
  BY <1>1, <1>2, <1>4, FS_EmptySet

(* Everything the permits are counted with is finite.                      *)
LEMMA FiniteParts ==
  ASSUME Typed
  PROVE  /\ IsFiniteSet(Callers) /\ IsFiniteSet(Starters) /\ IsFiniteSet(tracked)
         /\ Cardinality(Starters) \in Nat /\ Cardinality(tracked) \in Nat
         /\ \A p \in Pools :
              /\ IsFiniteSet(TrackedOf(p)) /\ IsFiniteSet(StartersOf(p))
              /\ Cardinality(TrackedOf(p)) \in Nat /\ Cardinality(StartersOf(p)) \in Nat
<1>1. IsFiniteSet(Callers)
  BY PoolAssumption, FS_Union DEF Callers
<1>2. IsFiniteSet(Starters)
  BY <1>1, FS_Subset DEF Starters
<1>3. IsFiniteSet(tracked)
  BY PoolAssumption, FS_Subset DEF Typed, Shapes
<1>4. ASSUME NEW p \in Pools
      PROVE  IsFiniteSet(TrackedOf(p)) /\ IsFiniteSet(StartersOf(p))
  BY <1>2, <1>3, FS_Subset DEF TrackedOf, StartersOf
<1>5. QED
  BY <1>1, <1>2, <1>3, <1>4, FS_CardinalityType

(* The initial states satisfy the invariant.                               *)
LEMMA InitInv == Init => PoolInv
<1> SUFFICES ASSUME Init PROVE PoolInv
  OBVIOUS
<1>1. Typed
  BY PoolAssumption DEF Init, Typed, Shapes, CallerSteps, AdminSteps, ProcStates
<1>2. Starters = {} /\ tracked = {}
  BY DEF Init, Starters
<1>3. FlightInv
  BY <1>2 DEF FlightInv
<1>4. PermitConservation
  BY <1>2, FS_EmptySet, PoolAssumption DEF PermitConservation, Init
<1>5. AtMostMaxInstances
  BY <1>2, FS_EmptySet, PoolAssumption DEF AtMostMaxInstances, TrackedOf, StartersOf
<1>6. QED
  BY <1>1, <1>3, <1>4, <1>5 DEF PoolInv
-----------------------------------------------------------------------------
(* Steps that neither begin nor end a start, and at most untrack entries,  *)
(* returning a permit for each.                                            *)
LEMMA UntrackStep ==
  ASSUME PoolInv, Typed', NEW R \in SUBSET tracked,
         tracked' = tracked \ R, freeGlobal' = freeGlobal + Cardinality(R),
         Starters' = Starters, pool' = pool, owner' = owner, starting' = starting,
         \A c \in Starters : inst'[c] = inst[c]
  PROVE  PoolInv'
<1>1. FlightInv'
  BY DEF PoolInv, FlightInv
<1>2. PermitConservation'
  <2>1. Cardinality(tracked \ R) + Cardinality(R) = Cardinality(tracked)
        /\ Cardinality(tracked \ R) \in Nat /\ Cardinality(R) \in Nat
        /\ Cardinality(tracked) \in Nat
    BY FiniteParts, CardinalityWithout DEF PoolInv
  <2>2. Cardinality(Starters) \in Nat /\ freeGlobal \in Nat /\ GlobalLimit \in Nat
    BY FiniteParts, PoolAssumption DEF PoolInv, Typed, Shapes
  <2>3. freeGlobal + Cardinality(tracked) + Cardinality(Starters) = GlobalLimit
    BY DEF PoolInv, PermitConservation
  <2>4. freeGlobal' + Cardinality(tracked') + Cardinality(Starters') = GlobalLimit
    BY <2>1, <2>2, <2>3
  <2>5. QED
    BY <2>4 DEF PermitConservation
<1>3. AtMostMaxInstances'
  <2> SUFFICES ASSUME NEW p \in Pools
               PROVE  Cardinality(TrackedOf(p)') + Cardinality(StartersOf(p)') <= MaxInstances[p]
    BY DEF AtMostMaxInstances
  <2>1. TrackedOf(p)' \subseteq TrackedOf(p) /\ StartersOf(p)' = StartersOf(p)
    BY DEF TrackedOf, StartersOf
  <2>2. Cardinality(TrackedOf(p)') <= Cardinality(TrackedOf(p))
        /\ Cardinality(TrackedOf(p)') \in Nat
    BY <2>1, FiniteParts, FS_Subset, FS_CardinalityType DEF PoolInv
  <2>3. Cardinality(TrackedOf(p)) \in Nat /\ Cardinality(StartersOf(p)) \in Nat
        /\ Cardinality(TrackedOf(p)) + Cardinality(StartersOf(p)) <= MaxInstances[p]
    BY FiniteParts DEF PoolInv, AtMostMaxInstances
  <2>4. QED
    BY <2>1, <2>2, <2>3, PoolAssumption
<1>4. QED
  BY <1>1, <1>2, <1>3 DEF PoolInv

(* Steps that leave the pools' bookkeeping alone.                          *)
LEMMA QuietStep ==
  ASSUME PoolInv, Typed', tracked' = tracked, freeGlobal' = freeGlobal,
         Starters' = Starters, pool' = pool, owner' = owner, starting' = starting,
         \A c \in Starters : inst'[c] = inst[c]
  PROVE  PoolInv'
<1>1. tracked' = tracked \ {} /\ freeGlobal' = freeGlobal + Cardinality({})
  BY FS_EmptySet DEF PoolInv, Typed, Shapes
<1>2. QED
  BY <1>1, UntrackStep

(* Moving one caller between two steps outside a start, or inside one,     *)
(* keeps the set of starters.                                              *)
LEMMA StartersKept ==
  ASSUME Typed, NEW c \in Callers, NEW s, Goto(c, s),
         pc[c] \in {"spawn", "ready"} <=> s \in {"spawn", "ready"}
  PROVE  Starters' = Starters
BY DEF Starters, Goto, Typed, Shapes

(* A caller that enters or leaves a start joins or leaves the starters.    *)
LEMMA StartersJoined ==
  ASSUME Typed, NEW c \in Callers, Goto(c, "spawn"), c \notin Starters
  PROVE  /\ Starters' = Starters \cup {c}
         /\ Cardinality(Starters') = Cardinality(Starters) + 1
<1>1. Starters' = Starters \cup {c}
  BY DEF Starters, Goto, Typed, Shapes
<1>2. QED
  BY <1>1, FiniteParts, FS_AddElement

LEMMA StartersLeft ==
  ASSUME Typed, NEW c \in Starters, NEW s, s \notin {"spawn", "ready"}, Goto(c, s)
  PROVE  /\ Starters' = Starters \ {c}
         /\ Cardinality(Starters') = Cardinality(Starters) - 1
<1>1. Starters' = Starters \ {c}
  BY DEF Starters, Goto, Typed, Shapes
<1>2. QED
  BY <1>1, FiniteParts, FS_RemoveElement
-----------------------------------------------------------------------------
(* The steps of the admin operations that leave the bookkeeping alone.     *)
AdminOnly(p) ==
  \/ StopReturns(p) \/ MarkDeleting(p) \/ RemovePool(p) \/ BeginDrain(p) \/ DeleteCompletes(p)
  \/ AbandonAdmin(p) \/ DeleteAgain(p)

(* Every step keeps the types; a start needs FlightInv to know that the    *)
(* instance it works on exists.                                            *)
LEMMA TypeStep == PoolInv /\ [Next]_vars => Typed'
<1> SUFFICES ASSUME PoolInv, [Next]_vars PROVE Typed'
  OBVIOUS
<1> USE DEF callerVars, poolVars, procVars, Goto
<1>0. Typed /\ FlightInv
  BY DEF PoolInv
<1>k. \A R \in SUBSET tracked : Cardinality(R) \in Nat
  BY <1>0, FiniteParts, FS_Subset, FS_CardinalityType
<1>t. \A p \in Pools : TrackedOf(p) \subseteq tracked
  BY DEF TrackedOf
<1>1. ASSUME NEW c \in Callers, AcquireStep(c) PROVE Typed'
  <2>1. CASE NoneFree(c)
    BY <1>0, <2>1 DEF NoneFree, Typed, Shapes, CallerSteps
  <2>2. CASE AcquireExisting(c)
    BY <1>0, <1>t, <2>2, PoolAssumption DEF AcquireExisting, Typed, Shapes, CallerSteps
  <2>3. CASE BeginProceed(c)
    BY <1>0, <2>3 DEF BeginProceed, MayBegin, AtCapacity, Typed, Shapes, CallerSteps, ProcStates
  <2>4. CASE BeginDraining(c)
    BY <1>0, <2>4 DEF BeginDraining, Typed, Shapes, CallerSteps
  <2>5. CASE BeginWaitForOther(c)
    BY <1>0, <2>5 DEF BeginWaitForOther, Typed, Shapes, CallerSteps
  <2>6. CASE BeginAtCapacity(c)
    BY <1>0, <2>6 DEF BeginAtCapacity, AfterAtCapacity, Typed, Shapes, CallerSteps
  <2>7. CASE Retry(c)
    BY <1>0, <2>7 DEF Retry, LoopHead, Typed, Shapes, CallerSteps
  <2>8. CASE FinishStart(c)
    <3> DEFINE replaced == {j \in TrackedOf(pool[c]) : addr[j] = addr[inst[c]]}
    <3>1. replaced \in SUBSET tracked
      BY DEF TrackedOf
    <3>2. Cardinality(replaced) \in Nat
      BY <1>k, <3>1
    <3>3. inst[c] \in Instances /\ pool[c] \in Pools
      BY <1>0, <2>8 DEF FinishStart, FlightInv, Starters, Typed, Shapes
    <3>4. tracked' \subseteq Instances /\ freeGlobal' \in Nat
      BY <1>0, <2>8, <3>2, <3>3 DEF FinishStart, Typed, Shapes
    <3>5. QED
      BY <1>0, <2>8, <3>3, <3>4, PoolAssumption DEF FinishStart, LoopHead, Typed, Shapes, CallerSteps
  <2>9. QED
    BY <1>1, <2>1, <2>2, <2>3, <2>4, <2>5, <2>6, <2>7, <2>8 DEF AcquireStep
<1>2. ASSUME NEW c \in Callers, Spawning(c) PROVE Typed'
  <2>1. CASE SpawnReady(c)
    BY <1>0, <2>1 DEF SpawnReady, Typed, Shapes, CallerSteps, ProcStates
  <2>2. CASE FinishStartFailed(c)
    <3>1. freeGlobal' \in Nat
      BY <1>0, <2>2 DEF FinishStartFailed, Typed, Shapes
    <3>2. pc' \in [Callers -> CallerSteps]
      BY <1>0, <2>2 DEF FinishStartFailed, Typed, Shapes, CallerSteps
    <3>3. QED
      BY <1>0, <2>2, <3>1, <3>2 DEF FinishStartFailed, Typed, Shapes, ProcStates
  <2>3. QED
    BY <1>2, <2>1, <2>2 DEF Spawning
<1>3. ASSUME NEW r \in Requests, RequestStep(r) PROVE Typed'
  <2>0. r \in Callers
    BY DEF Callers
  <2>1. CASE CheckRecord(r) \/ Lookup(r)
    BY <1>0, <2>0, <2>1 DEF CheckRecord, Lookup, Typed, Shapes, CallerSteps
  <2>2. CASE ForwardOk(r) \/ ForwardTimeout(r) \/ ForwardBroken(r) \/ BodyEnds(r)
    BY <1>0, <2>0, <2>2
       DEF ForwardOk, ForwardTimeout, ForwardBroken, BodyEnds, Typed, Shapes, CallerSteps
  <2>3. CASE ReportDead(r)
    <3>1. Cardinality(DeadEntries(r)) \in Nat
      BY <1>k DEF DeadEntries, TrackedOf
    <3>2. QED
      BY <1>0, <2>0, <2>3, <3>1 DEF ReportDead, Untrack, Typed, Shapes, CallerSteps
  <2>4. CASE Disconnect(r)
    BY <1>0, <2>0, <2>4 DEF Disconnect, Typed, Shapes, CallerSteps, ProcStates
  <2>5. QED
    BY <1>3, <2>1, <2>2, <2>3, <2>4 DEF RequestStep
<1>4. ASSUME NEW w \in Warmers, WarmCheck(w) PROVE Typed'
  BY <1>0, <1>4 DEF WarmCheck, Typed, Shapes, CallerSteps, Callers
<1>5. ASSUME NEW p \in Pools, PoolStep(p) PROVE Typed'
  <2>0. \A R \in SUBSET tracked, how \in Terminating :
          Untrack(R) /\ Terminate(R, how) =>
            tracked' \subseteq Instances /\ freeGlobal' \in Nat
            /\ proc' \in [Instances -> ProcStates]
    BY <1>0, <1>k DEF Untrack, Terminate, Typed, Shapes, ProcStates
  <2>1. CASE ReapIdle(p)
    <3>1. Reapable(p) \subseteq tracked
      BY DEF Reapable, TrackedOf
    <3>2. tracked' \subseteq Instances /\ freeGlobal' \in Nat
          /\ proc' \in [Instances -> ProcStates]
      BY <2>0, <2>1, <3>1 DEF ReapIdle, Terminating
    <3>3. QED
      BY <1>0, <2>1, <3>2 DEF ReapIdle, Typed, Shapes
  <2>2. CASE StopInstances(p)
    <3>1. tracked' \subseteq Instances /\ freeGlobal' \in Nat
          /\ proc' \in [Instances -> ProcStates]
      BY <1>t, <2>0, <2>2 DEF StopInstances, Terminating
    <3>2. QED
      BY <1>0, <2>2, <3>1 DEF StopInstances, Typed, Shapes, AdminSteps
  <2>3. CASE AdminOnly(p)
    BY <1>0, <2>3 DEF AdminOnly, StopReturns, MarkDeleting, RemovePool, BeginDrain,
                      DeleteCompletes, AbandonAdmin, DeleteAgain, AdminMoves, Typed, Shapes, AdminSteps
  <2>4. CASE StopAll(p)
    <3>1. tracked' \subseteq Instances /\ freeGlobal' \in Nat
          /\ proc' \in [Instances -> ProcStates]
      BY <1>t, <2>0, <2>4 DEF StopAll, Terminating
    <3>2. QED
      BY <1>0, <2>4, <3>1 DEF StopAll, Typed, Shapes, AdminSteps
  <2>5. CASE DropPool(p)
    <3>1. Cardinality(TrackedOf(p)) \in Nat
      BY <1>k, <1>t
    <3>2. QED
      BY <1>0, <2>5, <3>1 DEF DropPool, Untrack, Typed, Shapes
  <2>6. QED
    BY <1>5, <2>1, <2>2, <2>3, <2>4, <2>5 DEF PoolStep, AdminOnly
<1>6. ASSUME NEW i \in Instances, Exit(i) \/ Crash(i) PROVE Typed'
  BY <1>0, <1>6 DEF Exit, Crash, Typed, Shapes, ProcStates
<1>7. CASE Tick
  <2>1. \A max \in Nat : \A n \in 0..max : Capped(n, max) \in 0..max
    BY DEF Capped
  <2>2. waited' \in [Callers -> 0..QueueMaxWait]
    BY <1>0, <1>7, <2>1, PoolAssumption DEF Tick, Typed, Shapes
  <2>3. unused' \in [Instances -> 0..IdleTimeout]
    BY <1>0, <1>7, <2>1, PoolAssumption DEF Tick, Typed, Shapes
  <2>4. QED
    BY <1>0, <1>7, <2>2, <2>3 DEF Tick, Typed, Shapes
<1>8. CASE UNCHANGED vars
  BY <1>0, <1>8 DEF vars, Typed, Shapes
<1>9. QED
  BY <1>1, <1>2, <1>3, <1>4, <1>5, <1>6, <1>7, <1>8 DEF Next
-----------------------------------------------------------------------------
(* begin_start() hands the start of pool c to a caller: nobody else had it *)
(* (FlightInv: every start has `starting` set), the permit it takes was    *)
(* free, the pool is below the bound, and the instance is new.             *)
LEMMA BeginStep ==
  ASSUME PoolInv, Typed', NEW c \in Callers, BeginProceed(c)
  PROVE  PoolInv'
<1> DEFINE p == pool[c]
<1>0. Typed /\ FlightInv /\ PermitConservation /\ AtMostMaxInstances /\ p \in Pools
  BY DEF PoolInv, Typed, Shapes
<1>1. c \notin Starters /\ ~starting[p] /\ ~AtCapacity(p)
  BY DEF BeginProceed, MayBegin, Starters
<1>2. /\ Starters' = Starters \cup {c}
      /\ Cardinality(Starters') = Cardinality(Starters) + 1
  BY <1>0, <1>1, StartersJoined DEF BeginProceed
<1>3. PICK i \in Instances : /\ Fresh(i)
                             /\ owner' = [owner EXCEPT ![i] = p]
                             /\ inst' = [inst EXCEPT ![c] = i]
  BY DEF BeginProceed
<1>4. /\ pool' = pool /\ tracked' = tracked /\ freeGlobal' = freeGlobal - 1
      /\ starting' = [starting EXCEPT ![p] = TRUE]
  BY DEF BeginProceed
<1>5. i \notin tracked /\ \A d \in Callers : inst[d] # i
  BY <1>3 DEF Fresh
<1>6. \A d \in Starters : d \in Callers /\ d # c /\ pool[d] # p /\ pool[d] \in Pools
  BY <1>0, <1>1 DEF FlightInv, Starters, Typed, Shapes
<1>7. FlightInv'
  <2>1. inst'[c] = i /\ owner'[i] = p /\ starting'[p] /\ pool'[c] = p
    BY <1>0, <1>3, <1>4 DEF Typed, Shapes
  <2>2. ASSUME NEW d \in Starters
        PROVE  /\ inst'[d] = inst[d] /\ inst[d] # i /\ pool'[d] = pool[d]
               /\ starting'[pool[d]] = starting[pool[d]]
               /\ owner'[inst[d]] = owner[inst[d]]
    <3>1. d \in Callers /\ d # c /\ pool[d] # p /\ inst[d] \in Instances /\ inst[d] # i
      BY <1>0, <1>5, <1>6 DEF FlightInv
    <3>2. inst'[d] = inst[d]
      BY <1>0, <1>3, <3>1 DEF Typed, Shapes
    <3>3. owner'[inst[d]] = owner[inst[d]]
      BY <1>0, <1>3, <3>1 DEF Typed, Shapes
    <3>4. starting'[pool[d]] = starting[pool[d]]
      BY <1>0, <1>4, <1>6, <3>1 DEF Typed, Shapes
    <3>5. QED
      BY <1>4, <3>1, <3>2, <3>3, <3>4
  <2>3. \A d \in Starters' :
          starting'[pool'[d]] /\ inst'[d] \in Instances \ tracked'
          /\ owner'[inst'[d]] = pool'[d]
    <3> SUFFICES ASSUME NEW d \in Starters'
                 PROVE  starting'[pool'[d]] /\ inst'[d] \in Instances \ tracked'
                        /\ owner'[inst'[d]] = pool'[d]
      OBVIOUS
    <3>1. CASE d = c
      BY <1>4, <1>5, <2>1, <3>1
    <3>2. CASE d \in Starters
      BY <1>0, <1>4, <2>2, <3>2 DEF FlightInv
    <3>3. QED
      BY <1>2, <3>1, <3>2
  <2>4. \A d, e \in Starters' : pool'[d] = pool'[e] \/ inst'[d] = inst'[e] => d = e
    <3> SUFFICES ASSUME NEW d \in Starters', NEW e \in Starters',
                        pool'[d] = pool'[e] \/ inst'[d] = inst'[e]
                 PROVE  d = e
      OBVIOUS
    <3>1. CASE d \in Starters /\ e \in Starters
      BY <1>0, <2>2, <3>1 DEF FlightInv
    <3>2. CASE d = c \/ e = c
      BY <1>2, <1>6, <2>1, <2>2, <3>2
    <3>3. QED
      BY <1>2, <3>1, <3>2
  <2>5. QED
    BY <2>3, <2>4 DEF FlightInv
<1>8. PermitConservation'
  <2>1. /\ Cardinality(Starters) \in Nat /\ Cardinality(tracked) \in Nat
        /\ freeGlobal \in Nat /\ GlobalLimit \in Nat
    BY <1>0, FiniteParts, PoolAssumption DEF Typed, Shapes
  <2>2. freeGlobal + Cardinality(tracked) + Cardinality(Starters) = GlobalLimit
    BY <1>0 DEF PermitConservation
  <2>3. freeGlobal' + Cardinality(tracked') + Cardinality(Starters') = GlobalLimit
    BY <1>2, <1>4, <2>1, <2>2
  <2>4. QED
    BY <2>3 DEF PermitConservation
<1>9. AtMostMaxInstances'
  <2> SUFFICES ASSUME NEW q \in Pools
               PROVE  Cardinality(TrackedOf(q)') + Cardinality(StartersOf(q)') <= MaxInstances[q]
    BY DEF AtMostMaxInstances
  <2>1. TrackedOf(q)' = TrackedOf(q)
    BY <1>0, <1>3, <1>4, <1>5 DEF TrackedOf, Typed, Shapes
  <2>2. CASE q = p
    <3>1. StartersOf(q)' = {c}
      BY <1>2, <1>4, <1>6, <2>2 DEF StartersOf
    <3>2. Cardinality(StartersOf(q)') = 1
      BY <3>1, FS_Singleton
    <3>3. Cardinality(TrackedOf(q)) \in Nat /\ ~(Cardinality(TrackedOf(q)) >= MaxInstances[q])
      BY <1>0, <1>1, <2>2, FiniteParts DEF AtCapacity
    <3>4. QED
      BY <2>1, <3>2, <3>3, PoolAssumption
  <2>3. CASE q # p
    <3>1. StartersOf(q)' = StartersOf(q)
      BY <1>2, <1>4, <2>3 DEF StartersOf
    <3>2. QED
      BY <1>0, <2>1, <3>1 DEF AtMostMaxInstances
  <2>4. QED
    BY <2>2, <2>3
<1>10. QED
  BY <1>7, <1>8, <1>9 DEF PoolInv

(* The end of a start that gives its permit back: driver.spawn() failed,   *)
(* or the starter's future was dropped.                                    *)
LEMMA StartGivenUp ==
  ASSUME PoolInv, Typed', NEW c \in Starters, NEW s, s \notin {"spawn", "ready"}, Goto(c, s),
         inst' = [inst EXCEPT ![c] = NoInstance],
         pool' = pool, tracked' = tracked, owner' = owner, freeGlobal' = freeGlobal + 1,
         \A q \in Pools : q # pool[c] => starting'[q] = starting[q]
  PROVE  PoolInv'
<1>0. Typed /\ FlightInv /\ PermitConservation /\ AtMostMaxInstances /\ c \in Callers
  BY DEF PoolInv, Starters
<1>1. /\ Starters' = Starters \ {c}
      /\ Cardinality(Starters') = Cardinality(Starters) - 1
  BY <1>0, StartersLeft
<1>2. FlightInv'
  <2>1. \A d \in Starters' : /\ d \in Starters /\ inst'[d] = inst[d]
                             /\ pool[d] \in Pools /\ pool[d] # pool[c]
    BY <1>0, <1>1 DEF FlightInv, Typed, Shapes, Starters
  <2>2. QED
    BY <1>0, <2>1 DEF FlightInv
<1>3. PermitConservation'
  <2>1. /\ Cardinality(Starters) \in Nat /\ Cardinality(tracked) \in Nat
        /\ freeGlobal \in Nat /\ GlobalLimit \in Nat
    BY <1>0, FiniteParts, PoolAssumption DEF Typed, Shapes
  <2>2. freeGlobal + Cardinality(tracked) + Cardinality(Starters) = GlobalLimit
    BY <1>0 DEF PermitConservation
  <2>3. freeGlobal' + Cardinality(tracked') + Cardinality(Starters') = GlobalLimit
    BY <1>1, <2>1, <2>2
  <2>4. QED
    BY <2>3 DEF PermitConservation
<1>4. AtMostMaxInstances'
  <2> SUFFICES ASSUME NEW q \in Pools
               PROVE  Cardinality(TrackedOf(q)') + Cardinality(StartersOf(q)') <= MaxInstances[q]
    BY DEF AtMostMaxInstances
  <2>1. TrackedOf(q)' = TrackedOf(q) /\ StartersOf(q)' \subseteq StartersOf(q)
    BY <1>1 DEF TrackedOf, StartersOf
  <2>2. Cardinality(StartersOf(q)') <= Cardinality(StartersOf(q))
        /\ Cardinality(StartersOf(q)') \in Nat
    BY <1>0, <2>1, FiniteParts, FS_Subset, FS_CardinalityType
  <2>3. Cardinality(TrackedOf(q)) \in Nat /\ Cardinality(StartersOf(q)) \in Nat
        /\ Cardinality(TrackedOf(q)) + Cardinality(StartersOf(q)) <= MaxInstances[q]
    BY <1>0, FiniteParts DEF AtMostMaxInstances
  <2>4. QED
    BY <2>1, <2>2, <2>3, PoolAssumption
<1>5. QED
  BY <1>2, <1>3, <1>4 DEF PoolInv

(* finish_start() turns the start into an entry. Its permit moves along,   *)
(* since the new instance is not tracked yet (FlightInv); the entry it     *)
(* replaces, if any, gives its permit back.                                *)
LEMMA FinishStep ==
  ASSUME PoolInv, Typed', NEW c \in Callers, FinishStart(c)
  PROVE  PoolInv'
<1> DEFINE i == inst[c]
           p == pool[c]
           R == {j \in TrackedOf(p) : addr[j] = addr[i]}
<1>0. Typed /\ FlightInv /\ PermitConservation /\ AtMostMaxInstances
  BY DEF PoolInv
<1>1. c \in Starters /\ p \in Pools /\ i \in Instances \ tracked /\ owner[i] = p
  BY <1>0 DEF FinishStart, FlightInv, Starters, Typed, Shapes
<1>2. /\ tracked' = (tracked \ R) \cup {i} /\ freeGlobal' = freeGlobal + Cardinality(R)
      /\ starting' = [starting EXCEPT ![p] = FALSE]
      /\ inst' = [inst EXCEPT ![c] = NoInstance]
      /\ pool' = pool /\ owner' = owner
  BY DEF FinishStart, procVars
<1>3. /\ Starters' = Starters \ {c}
      /\ Cardinality(Starters') = Cardinality(Starters) - 1
  <2>1. LoopHead(c) \notin {"spawn", "ready"} /\ Goto(c, LoopHead(c))
    BY DEF FinishStart, LoopHead
  <2>2. QED
    BY <1>0, <1>1, <2>1, StartersLeft
<1>4. \A d \in Starters' : /\ d \in Starters /\ d \in Callers /\ inst'[d] = inst[d]
                           /\ pool[d] \in Pools /\ pool[d] # p /\ inst[d] # i
  BY <1>0, <1>1, <1>2, <1>3 DEF FlightInv, Typed, Shapes, Starters
<1>5. R \in SUBSET tracked
  BY DEF TrackedOf
<1>6. FlightInv'
  <2>1. \A d \in Starters' : starting'[pool[d]] = starting[pool[d]]
    BY <1>0, <1>2, <1>4 DEF Typed, Shapes
  <2>2. \A d \in Starters' :
          starting'[pool'[d]] /\ inst'[d] \in Instances \ tracked'
          /\ owner'[inst'[d]] = pool'[d]
    BY <1>0, <1>2, <1>4, <2>1 DEF FlightInv
  <2>3. \A d, e \in Starters' : pool'[d] = pool'[e] \/ inst'[d] = inst'[e] => d = e
    BY <1>0, <1>2, <1>4 DEF FlightInv
  <2>4. QED
    BY <2>2, <2>3 DEF FlightInv
<1>7. /\ IsFiniteSet(tracked \ R)
      /\ Cardinality(tracked \ R) + Cardinality(R) = Cardinality(tracked)
      /\ Cardinality(tracked \ R) \in Nat /\ Cardinality(R) \in Nat
      /\ Cardinality(tracked) \in Nat /\ Cardinality(Starters) \in Nat
  BY <1>0, <1>5, FiniteParts, CardinalityWithout
<1>8. Cardinality(tracked') = Cardinality(tracked \ R) + 1
  BY <1>1, <1>2, <1>7, FS_AddElement
<1>9. PermitConservation'
  <2>1. freeGlobal \in Nat /\ GlobalLimit \in Nat
    BY <1>0, PoolAssumption DEF Typed, Shapes
  <2>2. freeGlobal + Cardinality(tracked) + Cardinality(Starters) = GlobalLimit
    BY <1>0 DEF PermitConservation
  <2>3. freeGlobal' + Cardinality(tracked') + Cardinality(Starters') = GlobalLimit
    BY <1>2, <1>3, <1>7, <1>8, <2>1, <2>2
  <2>4. QED
    BY <2>3 DEF PermitConservation
<1>10. AtMostMaxInstances'
  <2> SUFFICES ASSUME NEW q \in Pools
               PROVE  Cardinality(TrackedOf(q)') + Cardinality(StartersOf(q)') <= MaxInstances[q]
    BY DEF AtMostMaxInstances
  <2>1. /\ IsFiniteSet(TrackedOf(q)) /\ IsFiniteSet(StartersOf(q))
        /\ Cardinality(TrackedOf(q)) \in Nat /\ Cardinality(StartersOf(q)) \in Nat
        /\ Cardinality(TrackedOf(q)) + Cardinality(StartersOf(q)) <= MaxInstances[q]
    BY <1>0, FiniteParts DEF AtMostMaxInstances
  <2>2. CASE q = p
    <3>1. StartersOf(q) = {c} /\ StartersOf(q)' = {}
      BY <1>0, <1>1, <1>2, <1>3, <1>4, <2>2 DEF StartersOf, FlightInv
    <3>2. Cardinality(StartersOf(q)) = 1 /\ Cardinality(StartersOf(q)') = 0
      BY <3>1, FS_Singleton, FS_EmptySet
    <3>3. TrackedOf(q)' = (TrackedOf(q) \ R) \cup {i}
      BY <1>1, <1>2, <2>2 DEF TrackedOf
    <3>4. /\ IsFiniteSet(TrackedOf(q) \ R)
          /\ Cardinality(TrackedOf(q) \ R) \in Nat
          /\ Cardinality(TrackedOf(q) \ R) <= Cardinality(TrackedOf(q))
      BY <2>1, FS_Subset, FS_CardinalityType
    <3>5. i \notin TrackedOf(q) \ R
      BY <1>1 DEF TrackedOf
    <3>6. Cardinality(TrackedOf(q)') = Cardinality(TrackedOf(q) \ R) + 1
      BY <3>3, <3>4, <3>5, FS_AddElement
    <3>7. QED
      BY <2>1, <3>2, <3>4, <3>6, PoolAssumption
  <2>3. CASE q # p
    <3>1. TrackedOf(q)' = TrackedOf(q)
      BY <1>1, <1>2, <2>3 DEF TrackedOf
    <3>2. StartersOf(q)' = StartersOf(q)
      BY <1>2, <1>3, <2>3 DEF StartersOf
    <3>3. QED
      BY <2>1, <3>1, <3>2
  <2>4. QED
    BY <2>2, <2>3
<1>11. QED
  BY <1>6, <1>9, <1>10 DEF PoolInv
-----------------------------------------------------------------------------
(* Every step keeps the invariant.                                         *)
LEMMA NextInv == PoolInv /\ [Next]_vars => PoolInv'
<1> SUFFICES ASSUME PoolInv, [Next]_vars PROVE PoolInv'
  OBVIOUS
<1> USE DEF callerVars, poolVars, procVars
<1>0. Typed /\ Typed'
  BY TypeStep DEF PoolInv
<1>1. ASSUME NEW c \in Callers, AcquireStep(c) PROVE PoolInv'
  <2>1. CASE NoneFree(c) \/ BeginDraining(c) \/ BeginWaitForOther(c) \/ BeginAtCapacity(c)
             \/ Retry(c)
    <3>1. Starters' = Starters /\ inst' = inst
      BY <1>0, <2>1, StartersKept
         DEF NoneFree, BeginDraining, BeginWaitForOther, BeginAtCapacity, AfterAtCapacity,
             Retry, LoopHead
    <3>2. QED
      BY <1>0, <2>1, <3>1, QuietStep
         DEF NoneFree, BeginDraining, BeginWaitForOther, BeginAtCapacity, Retry
  <2>2. CASE AcquireExisting(c)
    <3>1. Starters' = Starters /\ c \notin Starters
      BY <1>0, <2>2, StartersKept DEF AcquireExisting, Starters
    <3>2. \A d \in Starters : inst'[d] = inst[d]
      BY <1>0, <2>2, <3>1 DEF AcquireExisting, Typed, Shapes, Starters
    <3>3. QED
      BY <1>0, <2>2, <3>1, <3>2, QuietStep DEF AcquireExisting
  <2>3. CASE BeginProceed(c)
    BY <1>0, <2>3, BeginStep
  <2>4. CASE FinishStart(c)
    BY <1>0, <2>4, FinishStep
  <2>5. QED
    BY <1>1, <2>1, <2>2, <2>3, <2>4 DEF AcquireStep
<1>2. ASSUME NEW c \in Callers, Spawning(c) PROVE PoolInv'
  <2>1. CASE SpawnReady(c)
    <3>1. Starters' = Starters
      BY <1>0, <2>1, StartersKept DEF SpawnReady
    <3>2. QED
      BY <1>0, <2>1, <3>1, QuietStep DEF SpawnReady
  <2>2. CASE FinishStartFailed(c)
    <3> DEFINE s == IF c \in Warmers THEN "done" ELSE "refused"
    <3>1. c \in Starters /\ Goto(c, s) /\ s \notin {"spawn", "ready"}
      BY <2>2 DEF FinishStartFailed, Starters
    <3>2. \A q \in Pools : q # pool[c] => starting'[q] = starting[q]
      BY <1>0, <2>2 DEF FinishStartFailed, Typed, Shapes
    <3> HIDE DEF s
    <3>3. QED
      BY <1>0, <2>2, <3>1, <3>2, StartGivenUp DEF FinishStartFailed
  <2>3. QED
    BY <1>2, <2>1, <2>2 DEF Spawning
<1>3. ASSUME NEW r \in Requests, RequestStep(r) PROVE PoolInv'
  <2>0. r \in Callers
    BY DEF Callers
  <2>1. CASE CheckRecord(r) \/ Lookup(r)
    <3>1. Starters' = Starters
      BY <1>0, <2>0, <2>1, StartersKept DEF CheckRecord, Lookup
    <3>2. QED
      BY <1>0, <2>1, <3>1, QuietStep DEF CheckRecord, Lookup
  <2>2. CASE ForwardOk(r) \/ ForwardTimeout(r) \/ ForwardBroken(r) \/ BodyEnds(r)
    <3>1. Starters' = Starters /\ r \notin Starters
      BY <1>0, <2>0, <2>2, StartersKept
         DEF ForwardOk, ForwardTimeout, ForwardBroken, BodyEnds, Starters
    <3>2. \A d \in Starters : inst'[d] = inst[d]
      BY <1>0, <2>2, <3>1
         DEF ForwardOk, ForwardTimeout, ForwardBroken, BodyEnds, Typed, Shapes, Starters
    <3>3. QED
      BY <1>0, <2>2, <3>1, <3>2, QuietStep
         DEF ForwardOk, ForwardTimeout, ForwardBroken, BodyEnds
  <2>3. CASE ReportDead(r)
    <3>1. Starters' = Starters /\ r \notin Starters
      BY <1>0, <2>0, <2>3, StartersKept DEF ReportDead, Starters
    <3>2. \A d \in Starters : inst'[d] = inst[d]
      BY <1>0, <2>3, <3>1 DEF ReportDead, Typed, Shapes, Starters
    <3>3. DeadEntries(r) \in SUBSET tracked
      BY DEF DeadEntries, TrackedOf
    <3>4. QED
      BY <1>0, <2>3, <3>1, <3>2, <3>3, UntrackStep DEF ReportDead, Untrack
  <2>4. CASE Disconnect(r)
    <3>1. CASE r \in Starters
      BY <1>0, <2>4, <3>1, StartGivenUp DEF Disconnect
    <3>2. CASE r \notin Starters
      <4>1. Starters' = Starters
        BY <1>0, <2>0, <2>4, <3>2, StartersKept DEF Disconnect, Starters
      <4>2. \A d \in Starters : inst'[d] = inst[d]
        BY <1>0, <2>4, <3>2 DEF Disconnect, Typed, Shapes, Starters
      <4>3. QED
        BY <1>0, <2>4, <3>2, <4>1, <4>2, QuietStep DEF Disconnect
    <3>3. QED
      BY <3>1, <3>2
  <2>5. QED
    BY <1>3, <2>1, <2>2, <2>3, <2>4 DEF RequestStep
<1>4. ASSUME NEW w \in Warmers, WarmCheck(w) PROVE PoolInv'
  <2>1. Starters' = Starters
    BY <1>0, <1>4, StartersKept DEF WarmCheck, Callers
  <2>2. QED
    BY <1>0, <1>4, <2>1, QuietStep DEF WarmCheck
<1>5. ASSUME NEW p \in Pools, PoolStep(p) PROVE PoolInv'
  <2>1. callerVars' = callerVars /\ Starters' = Starters
        /\ starting' = starting /\ owner' = owner
    BY <1>5 DEF PoolStep, ReapIdle, StopInstances, StopReturns, MarkDeleting, RemovePool,
                BeginDrain, StopAll, DeleteCompletes, AbandonAdmin, DeleteAgain, DropPool,
                AdminMoves, Starters
  <2>2. CASE ReapIdle(p)
    <3>1. PICK R \in SUBSET Reapable(p) : Untrack(R)
      BY <2>2 DEF ReapIdle
    <3>2. R \in SUBSET tracked
      BY <3>1 DEF Reapable, TrackedOf
    <3>3. QED
      BY <1>0, <2>1, <3>1, <3>2, UntrackStep DEF Untrack
  <2>3. CASE StopInstances(p) \/ StopAll(p) \/ DropPool(p)
    <3>1. TrackedOf(p) \in SUBSET tracked /\ Untrack(TrackedOf(p))
      BY <2>3 DEF StopInstances, StopAll, DropPool, TrackedOf
    <3>2. QED
      BY <1>0, <2>1, <3>1, UntrackStep DEF Untrack
  <2>4. CASE AdminOnly(p)
    <3>1. tracked' = tracked /\ freeGlobal' = freeGlobal
      BY <2>4 DEF AdminOnly, StopReturns, MarkDeleting, RemovePool, BeginDrain,
                  DeleteCompletes, AbandonAdmin, DeleteAgain, AdminMoves
    <3>2. QED
      BY <1>0, <2>1, <3>1, QuietStep
  <2>5. QED
    BY <1>5, <2>2, <2>3, <2>4 DEF PoolStep, AdminOnly
<1>6. ASSUME NEW i \in Instances, Exit(i) \/ Crash(i) PROVE PoolInv'
  <2>1. Starters' = Starters
    BY <1>6 DEF Exit, Crash, Starters
  <2>2. QED
    BY <1>0, <1>6, <2>1, QuietStep DEF Exit, Crash
<1>7. CASE Tick
  <2>1. Starters' = Starters
    BY <1>7 DEF Tick, Starters
  <2>2. QED
    BY <1>0, <1>7, <2>1, QuietStep DEF Tick
<1>8. CASE UNCHANGED vars
  <2>1. Starters' = Starters
    BY <1>8 DEF vars, Starters
  <2>2. QED
    BY <1>0, <1>8, <2>1, QuietStep DEF vars
<1>9. QED
  BY <1>1, <1>2, <1>3, <1>4, <1>5, <1>6, <1>7, <1>8 DEF Next
-----------------------------------------------------------------------------
(* In every reachable state a start is exclusive, permits are conserved    *)
(* and no pool exceeds its bound.                                          *)
THEOREM PoolInvariant == Spec => []PoolInv
<1>1. Init => PoolInv
  BY InitInv
<1>2. PoolInv /\ [Next]_vars => PoolInv'
  BY NextInv
<1>3. QED
  BY <1>1, <1>2, PTL DEF Spec

(* Every variable of the pools, their callers and the processes keeps its  *)
(* type; in particular the global limit is never overdrawn.                *)
THEOREM TypeCorrect == Spec => []TypeOK
<1>1. PoolInv => TypeOK
  <2> SUFFICES ASSUME PoolInv PROVE TypeOK
    OBVIOUS
  <2>1. /\ Cardinality(tracked) \in Nat /\ Cardinality(Starters) \in Nat
        /\ freeGlobal \in Nat /\ GlobalLimit \in Nat
    BY FiniteParts, PoolAssumption DEF PoolInv, Typed
  <2>2. freeGlobal + Cardinality(tracked) + Cardinality(Starters) = GlobalLimit
    BY DEF PoolInv, PermitConservation
  <2>3. freeGlobal \in 0..GlobalLimit
    BY <2>1, <2>2
  <2>4. QED
    BY <2>3 DEF TypeOK, PoolInv, Typed
<1>2. QED
  BY <1>1, PoolInvariant, PTL

(* max_instances is never exceeded, whatever number of requests, reapers,  *)
(* forced stops and deletes act between begin_start() and finish_start().  *)
THEOREM MaxInstancesSafe == Spec => []AtMostMaxInstances
<1>1. PoolInv => AtMostMaxInstances
  BY DEF PoolInv
<1>2. QED
  BY <1>1, PoolInvariant, PTL

(* The global limit's permits are conserved: each is free, with a tracked  *)
(* instance, or with a start in progress; none leaks on any error path.    *)
THEOREM PermitsConserved == Spec => []PermitConservation
<1>1. PoolInv => PermitConservation
  BY DEF PoolInv
<1>2. QED
  BY <1>1, PoolInvariant, PTL

(* A start in progress is the only one of its pool and works on an         *)
(* instance no other start and no entry of any pool refers to.             *)
THEOREM StartsExclusive == Spec => []FlightInv
<1>1. PoolInv => FlightInv
  BY DEF PoolInv
<1>2. QED
  BY <1>1, PoolInvariant, PTL

(* Admission as a whole: what is tested under the lock before the unlocked *)
(* spawn() still holds when the instance is registered after it.           *)
THEOREM AdmissionSafe == Spec => []AdmissionInv
<1>1. PoolInv => AdmissionInv
  BY DEF PoolInv, AdmissionInv
<1>2. QED
  BY <1>1, PoolInvariant, PTL
-----------------------------------------------------------------------------
(* What the reaper's safety rests on: an instance being terminated is in   *)
(* no pool any more and is nobody's start, so that no request can acquire  *)
(* it, and one acquired before has a holder, which the reaper respects.    *)
HeldInv ==
  /\ \A i \in tracked : proc[i] \notin Terminating
  /\ \A c \in Starters : proc[inst[c]] \notin Terminating
  /\ \A r \in Requests : pc[r] = "held" => inst[r] \in Instances /\ proc[inst[r]] # "reaped"

LEMMA HeldInit == Init => HeldInv
BY DEF Init, HeldInv, Starters, Terminating, Callers

(* Nothing but the pools' own operations terminates an instance.           *)
LEMMA HeldByCallers ==
  ASSUME PoolInv, HeldInv, NEW c \in Callers, AcquireStep(c) \/ Spawning(c)
  PROVE  HeldInv'
<1> USE DEF callerVars, poolVars, procVars, Goto
<1>0. Typed /\ FlightInv
  BY DEF PoolInv
<1>1. CASE NoneFree(c) \/ BeginDraining(c) \/ BeginWaitForOther(c) \/ BeginAtCapacity(c)
           \/ Retry(c)
  <2>1. Starters' = Starters /\ inst' = inst /\ tracked' = tracked /\ proc' = proc
    BY <1>0, <1>1, StartersKept
       DEF NoneFree, BeginDraining, BeginWaitForOther, BeginAtCapacity, AfterAtCapacity,
           Retry, LoopHead
  <2>2. \A r \in Requests : pc'[r] = "held" => pc[r] = "held"
    BY <1>0, <1>1
       DEF NoneFree, BeginDraining, BeginWaitForOther, BeginAtCapacity, AfterAtCapacity,
           Retry, LoopHead, Typed, Shapes, Callers
  <2>3. QED
    BY <2>1, <2>2 DEF HeldInv
<1>2. CASE AcquireExisting(c)
  <2>1. PICK i \in tracked : inst' = [inst EXCEPT ![c] = i]
    BY <1>2 DEF AcquireExisting, TrackedOf
  <2>2. Starters' = Starters /\ c \notin Starters /\ tracked' = tracked /\ proc' = proc
    BY <1>0, <1>2, StartersKept DEF AcquireExisting, Starters
  <2>3. proc[i] # "reaped" /\ i \in Instances
    BY <1>0 DEF HeldInv, Terminating, Typed, Shapes
  <2>4. \A d \in Starters : inst'[d] = inst[d]
    BY <1>0, <2>1, <2>2 DEF Typed, Shapes, Starters
  <2>5. \A r \in Requests :
          pc'[r] = "held" => inst'[r] \in Instances /\ proc'[inst'[r]] # "reaped"
    BY <1>0, <1>2, <2>1, <2>2, <2>3 DEF AcquireExisting, HeldInv, Typed, Shapes, Callers
  <2>6. QED
    BY <2>2, <2>4, <2>5 DEF HeldInv
<1>3. CASE BeginProceed(c)
  <2>1. PICK i \in Instances : /\ Fresh(i)
                               /\ proc' = [proc EXCEPT ![i] = "booting"]
                               /\ inst' = [inst EXCEPT ![c] = i]
    BY <1>3 DEF BeginProceed
  <2>2. /\ Starters' = Starters \cup {c} /\ tracked' = tracked /\ proc'[i] = "booting"
        /\ inst'[c] = i /\ c \notin Starters
    BY <1>0, <1>3, <2>1, StartersJoined DEF BeginProceed, Typed, Shapes, Starters
  <2>3. i \notin tracked /\ \A d \in Callers : inst[d] # i
    BY <2>1 DEF Fresh
  <2>4. \A d \in Starters : inst'[d] = inst[d] /\ proc'[inst[d]] = proc[inst[d]]
    BY <1>0, <2>1, <2>2, <2>3 DEF Typed, Shapes, Starters, FlightInv
  <2>5. \A r \in Requests : pc'[r] = "held" =>
          pc[r] = "held" /\ inst'[r] = inst[r] /\ proc'[inst[r]] = proc[inst[r]]
    BY <1>0, <1>3, <2>1, <2>3 DEF BeginProceed, Typed, Shapes, Callers, HeldInv
  <2>6. \A j \in tracked' : proc'[j] \notin Terminating
    BY <1>0, <2>1, <2>2, <2>3 DEF HeldInv, Typed, Shapes
  <2>7. \A d \in Starters' : proc'[inst'[d]] \notin Terminating
    BY <2>2, <2>4 DEF HeldInv, Terminating
  <2>8. QED
    BY <2>5, <2>6, <2>7 DEF HeldInv
<1>4. CASE FinishStart(c)
  <2>1. c \in Starters /\ tracked' \subseteq tracked \cup {inst[c]} /\ proc' = proc
    BY <1>4 DEF FinishStart, Starters
  <2>2. LoopHead(c) \notin {"spawn", "ready", "held"} /\ Goto(c, LoopHead(c))
    BY <1>4 DEF FinishStart, LoopHead
  <2>3. Starters' = Starters \ {c}
    BY <1>0, <2>1, <2>2, StartersLeft
  <2>4. \A d \in Callers : d # c => inst'[d] = inst[d] /\ pc'[d] = pc[d]
    BY <1>0, <1>4 DEF FinishStart, Typed, Shapes
  <2>5. pc'[c] # "held"
    BY <1>0, <2>2 DEF Typed, Shapes
  <2>6. QED
    BY <2>1, <2>3, <2>4, <2>5 DEF HeldInv, Starters, Callers
<1>5. CASE SpawnReady(c) \/ FinishStartFailed(c)
  <2>1. c \in Starters /\ inst[c] \in Instances \ tracked /\ tracked' = tracked
    BY <1>0, <1>5 DEF SpawnReady, FinishStartFailed, Starters, FlightInv
  <2>2. \A i \in Instances : proc'[i] = proc[i] \/ proc'[i] \in {"running", "none"}
    BY <1>0, <1>5 DEF SpawnReady, FinishStartFailed, Typed, Shapes
  <2>3. /\ pc'[c] \in {"refused", "done"} \/ (pc'[c] = "ready" /\ inst'[c] = inst[c])
        /\ \A d \in Callers : d # c => inst'[d] = inst[d] /\ pc'[d] = pc[d]
    <3>1. CASE SpawnReady(c)
      BY <1>0, <3>1 DEF SpawnReady, Typed, Shapes
    <3>2. CASE FinishStartFailed(c)
      BY <1>0, <3>2 DEF FinishStartFailed, Typed, Shapes
    <3>3. QED
      BY <1>5, <3>1, <3>2
  <2>4. \A d \in Starters' : d \in Starters /\ inst'[d] = inst[d]
    BY <2>1, <2>3 DEF Starters
  <2>5. \A d \in Starters : inst[d] \in Instances
    BY <1>0 DEF FlightInv
  <2>6. \A r \in Requests : pc'[r] = "held" => pc[r] = "held" /\ inst'[r] = inst[r]
    BY <2>3 DEF Callers
  <2>7. QED
    BY <1>0, <2>1, <2>2, <2>4, <2>5, <2>6 DEF HeldInv, Terminating, Typed, Shapes
<1>6. QED
  BY <1>1, <1>2, <1>3, <1>4, <1>5 DEF AcquireStep, Spawning

LEMMA HeldByRequests ==
  ASSUME PoolInv, HeldInv, NEW c \in Callers,
         (c \in Requests /\ RequestStep(c)) \/ (c \in Warmers /\ WarmCheck(c))
  PROVE  HeldInv'
<1> USE DEF callerVars, poolVars, procVars, Goto
<1>0. Typed /\ FlightInv
  BY DEF PoolInv
<1> DEFINE Act == \/ CheckRecord(c) \/ Lookup(c) \/ WarmCheck(c)
                  \/ ForwardOk(c) \/ ForwardTimeout(c) \/ ForwardBroken(c) \/ BodyEnds(c)
                  \/ ReportDead(c)
<1>1. CASE Act
  <2>1. tracked' \subseteq tracked /\ proc' = proc
    BY <1>1 DEF CheckRecord, Lookup, WarmCheck, ForwardOk, ForwardTimeout, ForwardBroken,
                BodyEnds, ReportDead, Untrack
  <2>2. pc'[c] \notin {"spawn", "ready", "held"}
    BY <1>0, <1>1 DEF CheckRecord, Lookup, WarmCheck, ForwardOk, ForwardTimeout,
                      ForwardBroken, BodyEnds, ReportDead, Typed, Shapes
  <2>3. \A d \in Callers : d # c => inst'[d] = inst[d] /\ pc'[d] = pc[d]
    BY <1>0, <1>1 DEF CheckRecord, Lookup, WarmCheck, ForwardOk, ForwardTimeout,
                      ForwardBroken, BodyEnds, ReportDead, Typed, Shapes
  <2>4. QED
    BY <2>1, <2>2, <2>3 DEF HeldInv, Starters, Callers
<1>2. CASE Disconnect(c)
  <2>1. tracked' = tracked /\ pc'[c] = "done"
        /\ \A d \in Callers : d # c => inst'[d] = inst[d] /\ pc'[d] = pc[d]
    BY <1>0, <1>2 DEF Disconnect, Typed, Shapes
  <2>2. \A i \in Instances : proc'[i] = proc[i] \/ proc'[i] \in {"running", "none"}
    BY <1>0, <1>2 DEF Disconnect, Typed, Shapes
  <2>3. \A d \in Starters' : d \in Starters /\ inst'[d] = inst[d] /\ inst[d] \in Instances
    BY <1>0, <2>1 DEF Starters, FlightInv
  <2>4. \A r \in Requests : pc'[r] = "held" => pc[r] = "held" /\ inst'[r] = inst[r]
    BY <2>1 DEF Callers
  <2>5. QED
    BY <1>0, <2>1, <2>2, <2>3, <2>4 DEF HeldInv, Terminating, Typed, Shapes
<1>3. QED
  BY <1>1, <1>2 DEF RequestStep

LEMMA HeldByPools ==
  ASSUME PoolInv, HeldInv, NEW p \in Pools, PoolStep(p)
  PROVE  HeldInv'
<1> USE DEF callerVars, poolVars, procVars
<1>0. Typed /\ FlightInv
  BY DEF PoolInv
<1>1. pc' = pc /\ inst' = inst /\ Starters' = Starters
  BY DEF PoolStep, ReapIdle, StopInstances, StopReturns, MarkDeleting, RemovePool, BeginDrain,
         StopAll, DeleteCompletes, AbandonAdmin, DeleteAgain, DropPool, AdminMoves, Starters
<1>2. CASE AdminOnly(p) \/ DropPool(p)
  <2>1. tracked' \subseteq tracked /\ proc' = proc
    BY <1>2 DEF AdminOnly, StopReturns, MarkDeleting, RemovePool, BeginDrain, DeleteCompletes,
                AbandonAdmin, DeleteAgain, DropPool, AdminMoves, Untrack
  <2>2. QED
    BY <1>1, <2>1 DEF HeldInv
<1>3. ASSUME NEW R \in SUBSET tracked, NEW how \in Terminating,
             Untrack(R), Terminate(R, how),
             how = "reaped" => \A i \in R : HoldersOf(i) = {}
      PROVE  HeldInv'
  <2>1. \A i \in Instances : i \notin R => proc'[i] = proc[i]
    BY <1>3 DEF Terminate
  <2>2. \A i \in tracked' : proc'[i] \notin Terminating
    BY <1>0, <1>3, <2>1 DEF Untrack, HeldInv, Typed, Shapes
  <2>3. \A c \in Starters' : proc'[inst'[c]] \notin Terminating
    BY <1>1, <1>0, <2>1 DEF HeldInv, FlightInv
  <2>4. ASSUME NEW r \in Requests, pc[r] = "held"
        PROVE  inst[r] \in Instances /\ proc'[inst[r]] # "reaped"
    <3>1. inst[r] \in Instances /\ proc[inst[r]] # "reaped"
      BY <2>4 DEF HeldInv
    <3>2. r \in HoldersOf(inst[r])
      BY <2>4 DEF HoldersOf, Callers
    <3>3. CASE inst[r] \notin R
      BY <2>1, <3>1, <3>3
    <3>4. CASE inst[r] \in R
      BY <1>3, <3>1, <3>2, <3>4 DEF Terminate
    <3>5. QED
      BY <3>3, <3>4
  <2>5. QED
    BY <1>1, <2>2, <2>3, <2>4 DEF HeldInv
<1>4. CASE ReapIdle(p)
  <2>1. PICK R \in SUBSET Reapable(p) : Untrack(R) /\ Terminate(R, "reaped")
    BY <1>4 DEF ReapIdle
  <2>2. R \in SUBSET tracked /\ \A i \in R : HoldersOf(i) = {}
    BY DEF Reapable, TrackedOf
  <2>3. QED
    BY <1>3, <2>1, <2>2 DEF Terminating
<1>5. CASE StopInstances(p) \/ StopAll(p)
  <2>1. TrackedOf(p) \in SUBSET tracked
    BY DEF TrackedOf
  <2>2. QED
    BY <1>3, <1>5, <2>1 DEF StopInstances, StopAll, Terminating
<1>6. QED
  BY <1>2, <1>4, <1>5 DEF PoolStep, AdminOnly

(* No instance is reaped under a request that holds a permit of it,        *)
(* however its acquire, its handler and the reaper interleave.             *)
THEOREM ReaperSafe == Spec => []ReaperSparesHolders
<1>1. PoolInv /\ HeldInv /\ [Next]_vars => HeldInv'
  <2> SUFFICES ASSUME PoolInv, HeldInv, [Next]_vars PROVE HeldInv'
    OBVIOUS
  <2>1. ASSUME NEW i \in Instances, Exit(i) \/ Crash(i) PROVE HeldInv'
    <3>1. /\ pc' = pc /\ inst' = inst /\ tracked' = tracked /\ Starters' = Starters
          /\ \A j \in Instances : proc'[j] = proc[j] \/ proc'[j] = "none"
      BY <2>1 DEF PoolInv, Typed, Shapes, Exit, Crash, callerVars, poolVars, Starters
    <3>2. tracked \subseteq Instances /\ \A c \in Starters : inst[c] \in Instances
      BY DEF PoolInv, Typed, Shapes, FlightInv
    <3>3. QED
      BY <3>1, <3>2 DEF HeldInv, Terminating
  <2>2. CASE Tick \/ UNCHANGED vars
    BY <2>2 DEF Tick, vars, callerVars, poolVars, procVars, HeldInv, Starters
  <2>3. QED
    BY <2>1, <2>2, HeldByCallers, HeldByRequests, HeldByPools DEF Next, Callers
<1>2. HeldInv => ReaperSparesHolders
  BY DEF HeldInv, ReaperSparesHolders
<1>3. QED
  BY <1>1, <1>2, HeldInit, PoolInvariant, PTL DEF Spec

(* Only the reaper's sweep reaps, and it leaves min_instances behind.      *)
THEOREM ReaperKeepsFloor == Spec => FloorKept
<1> DEFINE Reaped(i) == proc[i] # "reaped" /\ proc'[i] = "reaped"
<1>1. ASSUME PoolInv, [Next]_vars, NEW i \in Instances, Reaped(i)
      PROVE  \E p \in Pools : ReapIdle(p)
  <2> USE DEF callerVars, poolVars, procVars
  <2>0. Typed /\ FlightInv
    BY <1>1 DEF PoolInv
  <2>1. ASSUME NEW c \in Callers, AcquireStep(c) \/ Spawning(c) PROVE FALSE
    <3>1. \A j \in Instances : proc'[j] = proc[j] \/ proc'[j] \in {"booting", "running", "none"}
      BY <2>0, <2>1
         DEF AcquireStep, Spawning, NoneFree, AcquireExisting, BeginProceed, BeginDraining,
             BeginWaitForOther, BeginAtCapacity, Retry, FinishStart, SpawnReady,
             FinishStartFailed, Typed, Shapes
    <3>2. QED
      BY <1>1, <3>1
  <2>2. ASSUME NEW r \in Requests, RequestStep(r) PROVE FALSE
    <3>1. \A j \in Instances : proc'[j] = proc[j] \/ proc'[j] \in {"running", "none"}
      BY <2>0, <2>2
         DEF RequestStep, CheckRecord, Lookup, ForwardOk, ForwardTimeout, ForwardBroken,
             ReportDead, BodyEnds, Disconnect, Typed, Shapes
    <3>2. QED
      BY <1>1, <3>1
  <2>3. ASSUME NEW p \in Pools, PoolStep(p), ~ReapIdle(p) PROVE FALSE
    <3>1. \A j \in Instances : proc'[j] = proc[j] \/ proc'[j] \in {"stopped", "drained"}
      BY <2>0, <2>3
         DEF PoolStep, StopInstances, StopReturns, MarkDeleting, RemovePool, BeginDrain, StopAll,
             DeleteCompletes, AbandonAdmin, DeleteAgain, DropPool, AdminMoves, Terminate
    <3>2. QED
      BY <1>1, <3>1
  <2>4. ASSUME NEW j \in Instances, Exit(j) \/ Crash(j) PROVE FALSE
    BY <1>1, <2>0, <2>4 DEF Exit, Crash, Typed, Shapes
  <2>5. CASE Tick \/ UNCHANGED vars \/ \E w \in Warmers : WarmCheck(w)
    BY <1>1, <2>5 DEF Tick, vars, WarmCheck
  <2>6. QED
    BY <1>1, <2>1, <2>2, <2>3, <2>4, <2>5 DEF Next
<1>2. ASSUME PoolInv, NEW p \in Pools, ReapIdle(p), NEW i \in Instances, Reaped(i)
      PROVE  Cardinality(TrackedOf(owner[i])') >= MinInstances
  <2>1. PICK R \in SUBSET Reapable(p) :
          Untrack(R) /\ Terminate(R, "reaped") /\ Cardinality(R) <= Removable(p)
    BY <1>2 DEF ReapIdle
  <2>2. R \in SUBSET TrackedOf(p) /\ IsFiniteSet(TrackedOf(p))
    BY <1>2, FiniteParts DEF Reapable, PoolInv
  <2>3. owner[i] = p
    BY <1>2, <2>1, <2>2 DEF Terminate, TrackedOf
  <2>4. /\ Cardinality(TrackedOf(p)) \in Nat /\ Cardinality(R) \in Nat
        /\ Cardinality(TrackedOf(p) \ R) \in Nat
        /\ Cardinality(TrackedOf(p) \ R) + Cardinality(R) = Cardinality(TrackedOf(p))
    BY <2>2, CardinalityWithout
  <2>5. TrackedOf(owner[i])' = TrackedOf(p) \ R
    BY <1>2, <2>1, <2>3 DEF ReapIdle, Untrack, TrackedOf
  <2>6. QED
    BY <2>1, <2>4, <2>5, PoolAssumption DEF Removable
<1>3. PoolInv /\ [Next]_vars =>
        [\A i \in Instances : proc[i] # "reaped" /\ proc[i]' = "reaped"
           => Cardinality(TrackedOf(owner[i])') >= MinInstances]_vars
  BY <1>1, <1>2
<1>4. QED
  BY <1>3, PoolInvariant, PTL DEF Spec, FloorKept
-----------------------------------------------------------------------------
(* Where no handler is dropped, no live instance breaks a connection and   *)
(* no port comes back while an address of it is remembered, every process  *)
(* has somebody who knows of it. The argument is that two instances that   *)
(* anybody remembers differ in their address (AddrsDiffer), so that        *)
(* report_dead() and insert() take away only what they mean to.            *)
Calm == Environment \cap {"disconnect", "reset", "reuse"} = {}
Living == {"booting", "running"}

AddrsDiffer ==
  \A i, j \in Instances : ~Fresh(i) /\ ~Fresh(j) /\ addr[i] = addr[j] => i = j

AdminInv ==
  \A p \in Pools :
    /\ admin[p] \notin {"halfway", "abandoned"}
    /\ admin[p] \in {"drained", "stopping", "deleted"} => draining[p]

StageInv ==
  /\ \A c \in Starters : pc[c] = "spawn" <=> proc[inst[c]] = "booting"
  /\ \A i \in tracked : proc[i] # "booting"
  /\ \A r \in Callers :
       /\ pc[r] = "held" => inst[r] \in Instances /\ proc[inst[r]] # "booting"
       /\ pc[r] = "report" => inst[r] \in Instances /\ proc[inst[r]] \notin Living

OneSurvivor ==
  \A p \in Pools : admin[p] \in {"stopping", "deleted"} =>
    \A i, j \in Instances :
      owner[i] = p /\ owner[j] = p /\ proc[i] \in Living /\ proc[j] \in Living => i = j

KnownInv == AddrsDiffer /\ AdminInv /\ StageInv /\ NoOrphan /\ OneSurvivor

LEMMA KnownInit == Init => KnownInv
<1> SUFFICES ASSUME Init PROVE KnownInv
  OBVIOUS
<1>1. Starters = {} /\ tracked = {} /\ \A i \in Instances : proc[i] = "none"
  BY DEF Init, Starters
<1>2. \A i \in Instances : Fresh(i)
  BY <1>1, PoolAssumption DEF Init, Fresh, Alive
<1>3. AddrsDiffer
  BY <1>2 DEF AddrsDiffer
<1>4. AdminInv /\ OneSurvivor
  BY DEF Init, AdminInv, OneSurvivor
<1>5. StageInv
  BY <1>1 DEF Init, StageInv
<1>6. NoOrphan
  BY <1>1 DEF NoOrphan
<1> QED BY <1>3, <1>4, <1>5, <1>6 DEF KnownInv

(* Steps that start nothing, and leave alone whoever starts something:     *)
(* what they forget is not alive, or was deleted.                          *)
LEMMA SettledStep ==
  ASSUME PoolInv, KnownInv,
         owner' = owner, addr' = addr, tracked' \subseteq tracked,
         Starters' = Starters,
         \A c \in Starters : pc'[c] = pc[c] /\ inst'[c] = inst[c] /\ proc'[inst[c]] = proc[inst[c]],
         \A i \in Instances :
           proc'[i] = proc[i] \/ proc'[i] = "none" \/ (Alive(i) /\ proc'[i] \in Terminating),
         \A i \in tracked \ tracked' : proc'[i] \notin Living \/ admin[owner[i]] = "deleted",
         \A c \in Callers :
           /\ inst'[c] \in {inst[c], NoInstance} \cup tracked
           /\ pc'[c] = "held" => inst'[c] \in tracked \/ (pc[c] = "held" /\ inst'[c] = inst[c])
           /\ pc'[c] = "report" =>
                /\ inst'[c] = inst[c]
                /\ pc[c] = "report" \/ (inst[c] \in Instances /\ proc[inst[c]] \notin Living),
         \A p \in Pools : admin[p] = "deleted" => admin'[p] = "deleted",
         AdminInv', OneSurvivor'
  PROVE  KnownInv'
<1>0. /\ tracked \subseteq Instances /\ proc \in [Instances -> ProcStates] /\ owner \in [Instances -> Pools]
      /\ inst \in [Callers -> Instances \cup {NoInstance}] /\ NoInstance \notin Instances
      /\ \A c \in Starters : inst[c] \in Instances
  BY PoolAssumption DEF PoolInv, Typed, Shapes, FlightInv
<1>1. \A i \in Instances : /\ proc'[i] \in Living => proc[i] = proc'[i]
                           /\ proc'[i] # "none" => proc[i] # "none"
  BY DEF Living, Terminating, Alive
<1>2. AddrsDiffer'
  <2>1. ASSUME NEW i \in Instances, ~Fresh(i)' PROVE ~Fresh(i)
    <3>1. CASE Alive(i)'
      BY <1>1, <3>1 DEF Alive, Fresh
    <3>2. CASE i \in tracked'
      BY <3>2 DEF Fresh
    <3>3. CASE \E c \in Callers : inst'[c] = i
      <4>1. PICK c \in Callers : inst'[c] = i
        BY <3>3
      <4>2. inst[c] = i \/ i \in tracked
        BY <1>0, <4>1
      <4> QED BY <4>2 DEF Fresh
    <3> QED BY <2>1, <3>1, <3>2, <3>3 DEF Fresh
  <2> QED BY <2>1 DEF KnownInv, AddrsDiffer
<1>3. StageInv'
  <2>1. \A c \in Starters : pc'[c] = "spawn" <=> proc'[inst'[c]] = "booting"
    BY DEF KnownInv, StageInv
  <2>2. \A i \in tracked' : proc'[i] # "booting"
    BY <1>0, <1>1 DEF KnownInv, StageInv, Living
  <2>3. ASSUME NEW r \in Callers, pc'[r] = "held"
        PROVE  inst'[r] \in Instances /\ proc'[inst'[r]] # "booting"
    <3>1. inst'[r] \in Instances /\ proc[inst'[r]] # "booting"
      BY <1>0, <2>3 DEF KnownInv, StageInv
    <3> QED BY <1>1, <3>1 DEF Living
  <2>4. ASSUME NEW r \in Callers, pc'[r] = "report"
        PROVE  inst'[r] \in Instances /\ proc'[inst'[r]] \notin Living
    <3>1. inst'[r] \in Instances /\ proc[inst'[r]] \notin Living
      BY <2>4 DEF KnownInv, StageInv
    <3> QED BY <1>1, <3>1
  <2> QED BY <2>1, <2>2, <2>3, <2>4 DEF StageInv
<1>4. NoOrphan'
  <2> SUFFICES ASSUME NEW i \in Instances, proc'[i] \in Living
               PROVE  \/ i \in tracked' \/ \E c \in Starters : inst'[c] = i
                      \/ admin'[owner[i]] = "deleted"
    BY DEF NoOrphan, Living
  <2>1. \/ i \in tracked \/ \E c \in Starters : inst[c] = i
        \/ admin[owner[i]] = "deleted"
    BY <1>1 DEF KnownInv, NoOrphan, Living
  <2>2. owner[i] \in Pools
    BY <1>0
  <2> QED BY <2>1, <2>2
<1> QED BY <1>2, <1>3, <1>4 DEF KnownInv

(* What the admin does not do: nobody else makes a survivor.               *)
LEMMA AdminRests ==
  ASSUME PoolInv, KnownInv, admin' = admin, draining' = draining, owner' = owner,
         \A i \in Instances : proc'[i] \in Living => proc[i] \in Living
  PROVE  AdminInv' /\ OneSurvivor'
<1>1. AdminInv'
  BY DEF KnownInv, AdminInv
<1>2. OneSurvivor'
  BY DEF KnownInv, OneSurvivor
<1> QED BY <1>1, <1>2

(* begin_start(): the instance is one nobody remembers.                    *)
LEMMA KnownBegin ==
  ASSUME Calm, PoolInv, KnownInv, NEW c \in Callers, BeginProceed(c)
  PROVE  KnownInv'
<1>0. /\ tracked \subseteq Instances /\ proc \in [Instances -> ProcStates] /\ owner \in [Instances -> Pools]
      /\ inst \in [Callers -> Instances \cup {NoInstance}] /\ addr \in [Instances -> Addrs]
      /\ pc \in [Callers -> CallerSteps] /\ pool \in [Callers -> Pools]
      /\ \A d \in Starters : inst[d] \in Instances
  BY DEF PoolInv, Typed, Shapes, FlightInv
<1>1. /\ pc[c] = "start" /\ ~draining[pool[c]] /\ Goto(c, "spawn")
      /\ UNCHANGED <<pool, tracked, draining, admin>>
  BY DEF BeginProceed, MayBegin
<1>2. PICK i \in Instances, a \in Addrs :
        /\ Fresh(i) /\ Assignable(a)
        /\ proc' = [proc EXCEPT ![i] = "booting"] /\ owner' = [owner EXCEPT ![i] = pool[c]]
        /\ addr' = [addr EXCEPT ![i] = a] /\ inst' = [inst EXCEPT ![c] = i]
  BY DEF BeginProceed
<1>3. /\ proc'[i] = "booting" /\ owner'[i] = pool[c] /\ addr'[i] = a /\ inst'[c] = i /\ pc'[c] = "spawn"
      /\ \A j \in Instances \ {i} : proc'[j] = proc[j] /\ owner'[j] = owner[j] /\ addr'[j] = addr[j]
      /\ \A d \in Callers \ {c} : inst'[d] = inst[d] /\ pc'[d] = pc[d]
  BY <1>0, <1>1, <1>2 DEF Goto
<1>4. i \notin tracked /\ proc[i] = "none" /\ \A d \in Callers : inst[d] # i
  BY <1>2 DEF Fresh, Alive
<1>5. \A j \in Instances : addr[j] = a => Fresh(j)
  BY <1>2 DEF Assignable, Calm
<1>6. c \notin Starters /\ Starters' = Starters \cup {c}
  BY <1>0, <1>1, <1>3 DEF Starters
<1>7. AddrsDiffer'
  <2>1. ASSUME NEW j \in Instances, j # i, ~Fresh(j)' PROVE ~Fresh(j)
    <3>1. proc'[j] # "none" \/ j \in tracked \/ \E d \in Callers : inst'[d] = j
      BY <1>1, <2>1 DEF Fresh, Alive
    <3>2. \A d \in Callers : inst'[d] = j => inst[d] = j
      BY <1>3, <2>1
    <3> QED BY <1>3, <2>1, <3>1, <3>2 DEF Fresh, Alive
  <2>2. ASSUME NEW j \in Instances, j # i, ~Fresh(j)' PROVE addr'[j] # a /\ addr'[j] = addr[j]
    BY <1>3, <1>5, <2>1, <2>2
  <2>3. ASSUME NEW j \in Instances, NEW k \in Instances, ~Fresh(j)', ~Fresh(k)', addr'[j] = addr'[k]
        PROVE  j = k
    BY <1>3, <2>1, <2>2, <2>3 DEF KnownInv, AddrsDiffer
  <2> QED BY <2>3 DEF AddrsDiffer
<1>8. AdminInv'
  BY <1>1 DEF KnownInv, AdminInv
<1>9. StageInv'
  <2>1. \A d \in Starters' : pc'[d] = "spawn" <=> proc'[inst'[d]] = "booting"
    BY <1>0, <1>3, <1>4, <1>6 DEF KnownInv, StageInv, Starters
  <2>2. \A j \in tracked' : proc'[j] # "booting"
    BY <1>0, <1>1, <1>3, <1>4 DEF KnownInv, StageInv
  <2>3. ASSUME NEW r \in Callers
        PROVE  /\ pc'[r] = "held" => inst'[r] \in Instances /\ proc'[inst'[r]] # "booting"
               /\ pc'[r] = "report" => inst'[r] \in Instances /\ proc'[inst'[r]] \notin Living
    BY <1>3, <1>4 DEF KnownInv, StageInv
  <2> QED BY <2>1, <2>2, <2>3 DEF StageInv
<1>10. NoOrphan'
  <2> SUFFICES ASSUME NEW j \in Instances, proc'[j] \in Living
               PROVE  \/ j \in tracked \/ \E d \in Starters' : inst'[d] = j
                      \/ admin[owner'[j]] = "deleted"
    BY <1>1 DEF NoOrphan, Living
  <2>1. CASE j = i
    BY <1>3, <1>6, <2>1
  <2>2. CASE j # i
    <3>1. j \in tracked \/ (\E d \in Starters : inst[d] = j) \/ admin[owner[j]] = "deleted"
      BY <1>3, <2>2 DEF KnownInv, NoOrphan, Living
    <3>2. \A d \in Starters : d \in Starters' /\ inst'[d] = inst[d]
      BY <1>3, <1>6 DEF Starters
    <3> QED BY <1>3, <2>2, <3>1, <3>2
  <2> QED BY <2>1, <2>2
<1>11. OneSurvivor'
  <2>1. ASSUME NEW p \in Pools, admin[p] \in {"stopping", "deleted"} PROVE p # pool[c]
    BY <1>1, <2>1 DEF KnownInv, AdminInv
  <2>2. \A p \in Pools : admin[p] \in {"stopping", "deleted"} =>
          \A j \in Instances : owner'[j] = p => j # i /\ owner[j] = p /\ proc'[j] = proc[j]
    BY <1>3, <2>1
  <2> QED BY <1>1, <2>2 DEF KnownInv, OneSurvivor
<1> QED BY <1>7, <1>8, <1>9, <1>10, <1>11 DEF KnownInv

(* spawn() returns.                                                        *)
LEMMA KnownSpawn ==
  ASSUME PoolInv, KnownInv, NEW c \in Callers, Spawning(c)
  PROVE  KnownInv'
<1>0. /\ tracked \subseteq Instances /\ proc \in [Instances -> ProcStates] /\ owner \in [Instances -> Pools]
      /\ inst \in [Callers -> Instances \cup {NoInstance}] /\ NoInstance \notin Instances
      /\ pc \in [Callers -> CallerSteps]
      /\ \A d \in Starters : inst[d] \in Instances \ tracked
      /\ \A d, e \in Starters : inst[d] = inst[e] => d = e
  BY PoolAssumption DEF PoolInv, Typed, Shapes, FlightInv
<1>1. /\ pc[c] = "spawn" /\ c \in Starters /\ UNCHANGED <<pool, tracked, draining, admin, owner, addr>>
  BY DEF Spawning, SpawnReady, FinishStartFailed, Starters, poolVars
<1>2. PICK i \in Instances : i = inst[c] /\ i \notin tracked
  BY <1>0, <1>1
<1>3. /\ proc[i] = "booting" /\ proc'[i] \in {"running", "none"}
      /\ \A j \in Instances \ {i} : proc'[j] = proc[j]
      /\ \A d \in Callers \ {c} : inst'[d] = inst[d] /\ pc'[d] = pc[d]
  BY <1>0, <1>1, <1>2 DEF Spawning, SpawnReady, FinishStartFailed, Goto, KnownInv, StageInv
<1>4. \/ pc'[c] = "ready" /\ inst'[c] = i /\ proc'[i] = "running"
      \/ pc'[c] \in {"refused", "done"} /\ inst'[c] = NoInstance /\ proc'[i] = "none"
  BY <1>0, <1>1, <1>2 DEF Spawning, SpawnReady, FinishStartFailed, Goto
<1>5. \A d \in Starters' : d \in Starters /\ (d = c => pc'[c] = "ready") /\ (d # c => pc'[d] = pc[d] /\ inst'[d] = inst[d] /\ inst[d] # i)
  BY <1>0, <1>1, <1>2, <1>3, <1>4 DEF Starters
<1>6. AddrsDiffer'
  <2>1. ASSUME NEW j \in Instances, ~Fresh(j)' PROVE ~Fresh(j)
    <3>1. proc'[j] # "none" \/ j \in tracked \/ \E d \in Callers : inst'[d] = j
      BY <1>1, <2>1 DEF Fresh, Alive
    <3>2. proc'[j] # "none" => proc[j] # "none"
      BY <1>3
    <3>3. \A d \in Callers : inst'[d] = j => inst[d] = j
      BY <1>0, <1>2, <1>3, <1>4
    <3> QED BY <3>1, <3>2, <3>3 DEF Fresh, Alive
  <2> QED BY <1>1, <2>1 DEF KnownInv, AddrsDiffer
<1>7. AdminInv' /\ OneSurvivor'
  BY <1>1, <1>3, AdminRests DEF Living
<1>8. StageInv'
  <2>1. \A d \in Starters' : pc'[d] = "spawn" <=> proc'[inst'[d]] = "booting"
    BY <1>0, <1>3, <1>4, <1>5 DEF KnownInv, StageInv
  <2>2. \A j \in tracked' : proc'[j] # "booting"
    BY <1>0, <1>1, <1>2, <1>3 DEF KnownInv, StageInv
  <2>3. ASSUME NEW r \in Callers
        PROVE  /\ pc'[r] = "held" => inst'[r] \in Instances /\ proc'[inst'[r]] # "booting"
               /\ pc'[r] = "report" => inst'[r] \in Instances /\ proc'[inst'[r]] \notin Living
    <3>1. CASE r = c
      BY <1>4, <3>1
    <3>2. CASE r # c
      <4>1. /\ pc[r] = "held" => inst[r] \in Instances \ {i} /\ proc[inst[r]] # "booting"
            /\ pc[r] = "report" => inst[r] \in Instances \ {i} /\ proc[inst[r]] \notin Living
        BY <1>3 DEF KnownInv, StageInv, Living
      <4> QED BY <1>3, <3>2, <4>1
    <3> QED BY <3>1, <3>2
  <2> QED BY <2>1, <2>2, <2>3 DEF StageInv
<1>9. NoOrphan'
  <2> SUFFICES ASSUME NEW j \in Instances, proc'[j] \in Living
               PROVE  \/ j \in tracked \/ \E d \in Starters' : inst'[d] = j
                      \/ admin[owner[j]] = "deleted"
    BY <1>1 DEF NoOrphan, Living
  <2>1. CASE j = i
    <3>1. pc'[c] = "ready" /\ inst'[c] = i
      BY <1>4, <2>1 DEF Living
    <3> QED BY <2>1, <3>1 DEF Starters
  <2>2. CASE j # i
    <3>1. j \in tracked \/ (\E d \in Starters : inst[d] = j) \/ admin[owner[j]] = "deleted"
      BY <1>3, <2>2 DEF KnownInv, NoOrphan, Living
    <3>2. \A d \in Starters : inst[d] = j => d # c /\ d \in Starters' /\ inst'[d] = j
      BY <1>2, <1>3, <2>2 DEF Starters
    <3> QED BY <3>1, <3>2
  <2> QED BY <2>1, <2>2
<1> QED BY <1>6, <1>7, <1>8, <1>9 DEF KnownInv

(* finish_start() inserts the instance, and replaces no other.             *)
LEMMA KnownFinish ==
  ASSUME PoolInv, KnownInv, NEW c \in Callers, FinishStart(c)
  PROVE  KnownInv'
<1>0. /\ tracked \subseteq Instances /\ proc \in [Instances -> ProcStates] /\ owner \in [Instances -> Pools]
      /\ inst \in [Callers -> Instances \cup {NoInstance}] /\ NoInstance \notin Instances
      /\ pc \in [Callers -> CallerSteps]
      /\ \A d \in Starters : inst[d] \in Instances \ tracked
  BY PoolAssumption DEF PoolInv, Typed, Shapes, FlightInv
<1>1. /\ pc[c] = "ready" /\ c \in Starters
      /\ UNCHANGED <<pool, proc, draining, admin, owner, addr>>
  BY DEF FinishStart, Starters, procVars
<1>2. PICK i \in Instances : i = inst[c] /\ i \notin tracked
  BY <1>0, <1>1
<1>3. tracked' = tracked \cup {i}
  <2>1. {j \in TrackedOf(pool[c]) : addr[j] = addr[i]} = {}
    <3>1. \A j \in tracked : ~Fresh(j) /\ j # i
      BY <1>2 DEF Fresh
    <3>2. ~Fresh(i)
      BY <1>2 DEF Fresh
    <3> QED BY <1>0, <3>1, <3>2 DEF TrackedOf, KnownInv, AddrsDiffer
  <2> QED BY <1>2, <2>1 DEF FinishStart
<1>4. /\ inst'[c] = NoInstance /\ pc'[c] \in {"warm", "try"}
      /\ \A d \in Callers \ {c} : inst'[d] = inst[d] /\ pc'[d] = pc[d]
  BY <1>0 DEF FinishStart, Goto, LoopHead
<1>5. \A d \in Starters' : d \in Starters \ {c} /\ pc'[d] = pc[d] /\ inst'[d] = inst[d]
  BY <1>4 DEF Starters
<1>6. AddrsDiffer'
  <2>1. ASSUME NEW j \in Instances, ~Fresh(j)' PROVE ~Fresh(j)
    <3>1. proc[j] # "none" \/ j \in tracked' \/ \E d \in Callers : inst'[d] = j
      BY <1>1, <2>1 DEF Fresh, Alive
    <3>2. j \in tracked' => j \in tracked \/ inst[c] = j
      BY <1>2, <1>3
    <3>3. \A d \in Callers : inst'[d] = j => inst[d] = j
      BY <1>0, <1>4
    <3> QED BY <3>1, <3>2, <3>3 DEF Fresh, Alive
  <2> QED BY <1>1, <2>1 DEF KnownInv, AddrsDiffer
<1>7. AdminInv' /\ OneSurvivor'
  BY <1>1, AdminRests
<1>8. StageInv'
  BY <1>1, <1>2, <1>3, <1>4, <1>5 DEF KnownInv, StageInv, Callers
<1>9. NoOrphan'
  <2> SUFFICES ASSUME NEW j \in Instances, proc[j] \in Living
               PROVE  \/ j \in tracked' \/ \E d \in Starters' : inst'[d] = j
                      \/ admin[owner[j]] = "deleted"
    BY <1>1 DEF NoOrphan, Living
  <2>1. j \in tracked \/ (\E d \in Starters : inst[d] = j) \/ admin[owner[j]] = "deleted"
    BY DEF KnownInv, NoOrphan, Living
  <2>2. \A d \in Starters : d = c \/ (d \in Starters' /\ inst'[d] = inst[d])
    BY <1>4 DEF Starters
  <2> QED BY <1>2, <1>3, <2>1, <2>2
<1> QED BY <1>6, <1>7, <1>8, <1>9 DEF KnownInv
-----------------------------------------------------------------------------
(* Steps of a caller that starts nothing and touches no pool.              *)
LEMMA KnownQuiet ==
  ASSUME PoolInv, KnownInv, NEW c \in Callers, c \notin Starters, pc'[c] \notin {"spawn", "ready"},
         \A d \in Callers \ {c} : pc'[d] = pc[d] /\ inst'[d] = inst[d],
         UNCHANGED <<proc, owner, addr, tracked, draining, admin>>,
         inst'[c] \in {inst[c], NoInstance} \cup tracked,
         pc'[c] = "held" => inst'[c] \in tracked,
         pc'[c] = "report" => /\ inst'[c] = inst[c]
                              /\ inst[c] \in Instances /\ proc[inst[c]] \notin Living
  PROVE  KnownInv'
<1>1. Starters' = Starters /\ \A d \in Starters : d \in Callers \ {c}
  BY DEF Starters
<1>2. AdminInv' /\ OneSurvivor'
  BY AdminRests
<1> QED BY <1>1, <1>2, SettledStep

LEMMA KnownByCallers ==
  ASSUME Calm, PoolInv, KnownInv, NEW c \in Callers, AcquireStep(c) \/ Spawning(c)
  PROVE  KnownInv'
<1>0. /\ pc \in [Callers -> CallerSteps] /\ inst \in [Callers -> Instances \cup {NoInstance}]
  BY DEF PoolInv, Typed, Shapes
<1>1. CASE NoneFree(c) \/ BeginDraining(c) \/ BeginWaitForOther(c) \/ BeginAtCapacity(c)
           \/ Retry(c)
  <2>1. PICK s \in {"start", "done", "refused", "wait", "queue", "warm", "try"} : Goto(c, s)
    BY <1>1 DEF NoneFree, BeginDraining, BeginWaitForOther, BeginAtCapacity, AfterAtCapacity,
                Retry, LoopHead
  <2>2. /\ UNCHANGED <<inst, proc, owner, addr, tracked, draining, admin>>
        /\ pc[c] \in {"try", "start", "wait", "queue"}
    BY <1>1 DEF NoneFree, BeginDraining, BeginWaitForOther, BeginAtCapacity, Retry, poolVars, procVars
  <2>3. pc'[c] = s /\ \A d \in Callers \ {c} : pc'[d] = pc[d]
    BY <1>0, <2>1 DEF Goto
  <2> QED BY <2>2, <2>3, KnownQuiet DEF Starters
<1>2. CASE AcquireExisting(c)
  <2>1. PICK i \in tracked : inst' = [inst EXCEPT ![c] = i]
    BY <1>2 DEF AcquireExisting, TrackedOf
  <2>2. /\ pc[c] = "try" /\ Goto(c, "held")
        /\ UNCHANGED <<proc, owner, addr, tracked, draining, admin>>
    BY <1>2 DEF AcquireExisting, poolVars, procVars
  <2>3. /\ inst'[c] = i /\ pc'[c] = "held"
        /\ \A d \in Callers \ {c} : pc'[d] = pc[d] /\ inst'[d] = inst[d]
    BY <1>0, <2>1, <2>2 DEF Goto
  <2> QED BY <2>2, <2>3, KnownQuiet DEF Starters
<1> QED BY <1>1, <1>2, KnownBegin, KnownFinish, KnownSpawn DEF AcquireStep

(* The handlers: what report_dead() takes away is the one instance the     *)
(* handler found dead, whatever was started on a port meanwhile.           *)
LEMMA KnownByRequests ==
  ASSUME Calm, PoolInv, KnownInv, NEW c \in Callers,
         (c \in Requests /\ RequestStep(c)) \/ (c \in Warmers /\ WarmCheck(c))
  PROVE  KnownInv'
<1>0. /\ pc \in [Callers -> CallerSteps] /\ inst \in [Callers -> Instances \cup {NoInstance}]
      /\ tracked \subseteq Instances
  BY DEF PoolInv, Typed, Shapes
<1>1. CASE CheckRecord(c) \/ Lookup(c) \/ WarmCheck(c) \/ ForwardOk(c) \/ ForwardTimeout(c) \/ BodyEnds(c)
  <2>1. PICK s \in {"checked", "refused", "try", "done", "start", "stream"} : Goto(c, s)
    BY <1>1 DEF CheckRecord, Lookup, WarmCheck, ForwardOk, ForwardTimeout, BodyEnds
  <2>2. inst' = inst \/ inst' = [inst EXCEPT ![c] = NoInstance]
    BY <1>1 DEF CheckRecord, Lookup, WarmCheck, ForwardOk, ForwardTimeout, BodyEnds
  <2>3. /\ UNCHANGED <<proc, owner, addr, tracked, draining, admin>>
        /\ pc[c] \in {"idle", "checked", "warm", "held", "stream"}
    BY <1>1 DEF CheckRecord, Lookup, WarmCheck, ForwardOk, ForwardTimeout, BodyEnds, poolVars, procVars
  <2>4. /\ pc'[c] = s /\ inst'[c] \in {inst[c], NoInstance}
        /\ \A d \in Callers \ {c} : pc'[d] = pc[d] /\ inst'[d] = inst[d]
    BY <1>0, <2>1, <2>2 DEF Goto
  <2> QED BY <2>3, <2>4, KnownQuiet DEF Starters
<1>2. CASE ForwardBroken(c)
  <2>1. /\ pc[c] = "held" /\ Goto(c, "report") /\ "reset" \notin Environment
        /\ UNCHANGED <<inst, proc, owner, addr, tracked, draining, admin>>
    BY <1>2 DEF ForwardBroken, Calm, poolVars, procVars
  <2>2. \A i \in Listening(addr[inst[c]]) : proc[i] \in Terminating
    BY <1>2, <2>1 DEF ForwardBroken
  <2>3. inst[c] \in Instances /\ proc[inst[c]] # "booting"
    BY <2>1 DEF KnownInv, StageInv
  <2>4. proc[inst[c]] \notin Living
    BY <2>2, <2>3 DEF Listening, Living, Alive, Terminating
  <2>5. pc'[c] = "report" /\ \A d \in Callers \ {c} : pc'[d] = pc[d]
    BY <1>0, <2>1 DEF Goto
  <2> QED BY <2>1, <2>3, <2>4, <2>5, KnownQuiet DEF Starters
<1>3. CASE ReportDead(c)
  <2>1. /\ pc[c] = "report" /\ Goto(c, "done") /\ inst' = [inst EXCEPT ![c] = NoInstance]
        /\ tracked' = tracked \ DeadEntries(c)
        /\ UNCHANGED <<proc, owner, addr, draining, admin>>
    BY <1>3 DEF ReportDead, Untrack, procVars
  <2>2. /\ pc'[c] = "done" /\ inst'[c] = NoInstance
        /\ \A d \in Callers \ {c} : pc'[d] = pc[d] /\ inst'[d] = inst[d]
    BY <1>0, <2>1 DEF Goto
  <2>3. inst[c] \in Instances /\ proc[inst[c]] \notin Living
    BY <2>1 DEF KnownInv, StageInv
  <2>4. ASSUME NEW i \in DeadEntries(c) PROVE i = inst[c]
    <3>1. i \in tracked /\ addr[i] = addr[inst[c]]
      BY DEF DeadEntries, TrackedOf
    <3>2. ~Fresh(i) /\ ~Fresh(inst[c])
      BY <3>1 DEF Fresh
    <3> QED BY <1>0, <2>3, <3>1, <3>2 DEF KnownInv, AddrsDiffer
  <2>5. Starters' = Starters /\ \A d \in Starters : d \in Callers \ {c}
    BY <2>1, <2>2 DEF Starters
  <2>6. AdminInv' /\ OneSurvivor'
    BY <2>1, AdminRests
  <2>7. \A i \in tracked \ tracked' : proc[i] \notin Living
    BY <2>1, <2>3, <2>4
  <2>8. \A d \in Callers : /\ pc'[d] = "held" => d # c
                           /\ pc'[d] = "report" => d # c
    BY <2>2
  <2> QED BY <2>1, <2>2, <2>5, <2>6, <2>7, <2>8, SettledStep
<1>4. ~Disconnect(c)
  BY DEF Disconnect, Calm
<1> QED BY <1>1, <1>2, <1>3, <1>4 DEF RequestStep

(* The pools: stop_all() leaves no instance of its pool but the one start  *)
(* in progress, and the drain has kept every later one out.                *)
LEMMA KnownByPools ==
  ASSUME Calm, PoolInv, KnownInv, NEW p \in Pools, PoolStep(p)
  PROVE  KnownInv'
<1>0. /\ tracked \subseteq Instances /\ proc \in [Instances -> ProcStates] /\ owner \in [Instances -> Pools]
      /\ admin \in [Pools -> AdminSteps] /\ draining \in [Pools -> BOOLEAN]
      /\ \A c \in Starters : inst[c] \in Instances \ tracked
  BY DEF PoolInv, Typed, Shapes, FlightInv
<1>1. /\ UNCHANGED <<pc, inst, owner, addr>> /\ Starters' = Starters
  BY DEF PoolStep, ReapIdle, StopInstances, StopReturns, MarkDeleting, RemovePool, BeginDrain,
         StopAll, DeleteCompletes, AbandonAdmin, DeleteAgain, DropPool, AdminMoves, Starters,
         callerVars, procVars
<1>2. /\ \A q \in Pools : admin[q] \notin {"halfway", "abandoned"}
      /\ \A q \in Pools : admin[q] \in {"drained", "stopping", "deleted"} => draining[q]
  BY DEF KnownInv, AdminInv
<1>3. CASE AdminOnly(p)
  <2>1. UNCHANGED <<tracked, proc>> /\ ~AbandonAdmin(p) /\ ~DeleteAgain(p)
    BY <1>2, <1>3 DEF AdminOnly, StopReturns, MarkDeleting, RemovePool, BeginDrain, DeleteCompletes,
                      AbandonAdmin, DeleteAgain, AdminMoves, Calm, procVars
  <2>2. PICK to \in {"none", "marked", "removed", "drained", "deleted"} :
          /\ admin' = [admin EXCEPT ![p] = to] /\ admin[p] # "deleted"
          /\ to = "drained" => draining' = [draining EXCEPT ![p] = TRUE]
          /\ to # "drained" => draining' = draining
          /\ to = "deleted" => admin[p] = "stopping"
    BY <1>3, <2>1 DEF AdminOnly, StopReturns, MarkDeleting, RemovePool, BeginDrain,
                      DeleteCompletes, AdminMoves
  <2>3. /\ admin'[p] = to /\ \A q \in Pools \ {p} : admin'[q] = admin[q]
        /\ to = "drained" => draining'[p]
        /\ \A q \in Pools : draining[q] => draining'[q]
    BY <1>0, <2>2
  <2>4. AdminInv'
    <3>1. ASSUME NEW q \in Pools
          PROVE  /\ admin'[q] \notin {"halfway", "abandoned"}
                 /\ admin'[q] \in {"drained", "stopping", "deleted"} => draining'[q]
      BY <1>2, <2>2, <2>3
    <3> QED BY <3>1 DEF AdminInv
  <2>5. OneSurvivor'
    <3>1. \A q \in Pools : admin'[q] \in {"stopping", "deleted"} => admin[q] \in {"stopping", "deleted"}
      BY <2>2, <2>3
    <3> QED BY <1>1, <2>1, <3>1 DEF KnownInv, OneSurvivor
  <2>6. \A q \in Pools : admin[q] = "deleted" => admin'[q] = "deleted"
    BY <2>2, <2>3
  <2>7. \A c \in Callers : pc[c] = "report" => inst[c] \in Instances /\ proc[inst[c]] \notin Living
    BY DEF KnownInv, StageInv
  <2> QED BY <1>1, <2>1, <2>4, <2>5, <2>6, <2>7, SettledStep
<1>4. CASE DropPool(p)
  <2>1. /\ admin[p] = "deleted" /\ tracked' = tracked \ TrackedOf(p)
        /\ UNCHANGED <<proc, admin, draining>>
    BY <1>2, <1>4 DEF DropPool, Untrack, procVars
  <2>2. AdminInv' /\ OneSurvivor'
    BY <1>1, <2>1, AdminRests
  <2>3. \A i \in tracked \ tracked' : admin[owner[i]] = "deleted"
    BY <2>1 DEF TrackedOf
  <2> QED BY <1>1, <2>1, <2>2, <2>3, SettledStep
<1>5. ASSUME NEW R \in SUBSET tracked, NEW how \in Terminating,
             tracked' = tracked \ R, Terminate(R, how), AdminInv', OneSurvivor',
             \A q \in Pools : admin[q] = "deleted" => admin'[q] = "deleted"
      PROVE  KnownInv'
  <2>1. \A i \in Instances : proc'[i] = IF i \in R /\ Alive(i) THEN how ELSE proc[i]
    BY <1>5 DEF Terminate
  <2>2. \A c \in Starters : proc'[inst[c]] = proc[inst[c]]
    BY <1>0, <2>1
  <2>3. \A i \in tracked \ tracked' : proc'[i] \notin Living
    BY <1>0, <1>5, <2>1 DEF Alive, Living, Terminating
  <2>4. \A i \in Instances : proc'[i] = proc[i] \/ (Alive(i) /\ proc'[i] \in Terminating)
    BY <2>1
  <2> QED BY <1>1, <1>5, <2>2, <2>3, <2>4, SettledStep
<1>6. ASSUME NEW R \in SUBSET tracked, NEW how \in Terminating, Terminate(R, how)
      PROVE  \A i \in Instances : proc'[i] \in Living => proc[i] \in Living /\ i \notin R
  BY <1>6 DEF Terminate, Living, Alive, Terminating
<1>7. CASE ReapIdle(p)
  <2>1. PICK R \in SUBSET tracked : Untrack(R) /\ Terminate(R, "reaped")
    BY <1>7 DEF ReapIdle, Reapable, TrackedOf
  <2>2. admin' = admin /\ draining' = draining
    BY <1>7 DEF ReapIdle
  <2>3. "reaped" \in Terminating
    BY DEF Terminating
  <2>4. AdminInv' /\ OneSurvivor'
    BY <1>1, <1>6, <2>1, <2>2, <2>3, AdminRests
  <2> QED BY <1>5, <2>1, <2>2, <2>3, <2>4 DEF Untrack
<1>8. CASE StopInstances(p)
  <2>1. /\ TrackedOf(p) \in SUBSET tracked /\ Untrack(TrackedOf(p)) /\ Terminate(TrackedOf(p), "stopped")
        /\ admin[p] = "none" /\ admin' = [admin EXCEPT ![p] = "stop"] /\ draining' = draining
    BY <1>8 DEF StopInstances, TrackedOf
  <2>2. admin'[p] = "stop" /\ \A q \in Pools \ {p} : admin'[q] = admin[q]
    BY <1>0, <2>1
  <2>3. "stopped" \in Terminating
    BY DEF Terminating
  <2>4. AdminInv'
    BY <1>2, <2>1, <2>2 DEF AdminInv
  <2>5. \A i \in Instances : proc'[i] \in Living => proc[i] \in Living
    BY <1>6, <2>1, <2>3
  <2>6. OneSurvivor'
    BY <1>1, <2>2, <2>5 DEF KnownInv, OneSurvivor
  <2> QED BY <1>5, <2>1, <2>2, <2>3, <2>4, <2>6 DEF Untrack
<1>9. CASE StopAll(p)
  <2>1. /\ TrackedOf(p) \in SUBSET tracked /\ Untrack(TrackedOf(p)) /\ Terminate(TrackedOf(p), "drained")
        /\ admin[p] = "drained" /\ admin' = [admin EXCEPT ![p] = "stopping"] /\ draining' = draining
    BY <1>9 DEF StopAll, TrackedOf
  <2>2. admin'[p] = "stopping" /\ \A q \in Pools \ {p} : admin'[q] = admin[q]
    BY <1>0, <2>1
  <2>3. "drained" \in Terminating
    BY DEF Terminating
  <2>4. AdminInv'
    BY <1>2, <2>1, <2>2 DEF AdminInv
  <2>5. \A i \in Instances : proc'[i] \in Living => proc[i] \in Living /\ i \notin TrackedOf(p)
    BY <1>6, <2>1, <2>3
  <2>6. ASSUME NEW i \in Instances, owner[i] = p, proc'[i] \in Living
        PROVE  \E c \in Starters : inst[c] = i /\ pool[c] = p
    <3>1. i \notin tracked /\ proc[i] \in Living
      BY <2>5, <2>6 DEF TrackedOf
    <3>2. PICK c \in Starters : inst[c] = i
      BY <2>1, <2>6, <3>1 DEF KnownInv, NoOrphan, Living
    <3> QED BY <2>6, <3>2 DEF PoolInv, FlightInv
  <2>7. \A c, d \in Starters : pool[c] = p /\ pool[d] = p => c = d
    BY DEF PoolInv, FlightInv
  <2>8. OneSurvivor'
    <3>1. \A i, j \in Instances :
            owner[i] = p /\ owner[j] = p /\ proc'[i] \in Living /\ proc'[j] \in Living => i = j
      BY <2>6, <2>7
    <3>2. ASSUME NEW q \in Pools \ {p}, admin'[q] \in {"stopping", "deleted"},
                 NEW i \in Instances, NEW j \in Instances,
                 owner[i] = q, owner[j] = q, proc'[i] \in Living, proc'[j] \in Living
          PROVE  i = j
      BY <2>2, <2>5, <3>2 DEF KnownInv, OneSurvivor
    <3> QED BY <1>1, <3>1, <3>2 DEF OneSurvivor
  <2> QED BY <1>5, <2>1, <2>2, <2>3, <2>4, <2>8 DEF Untrack
<1> QED BY <1>3, <1>4, <1>7, <1>8, <1>9 DEF PoolStep, AdminOnly

LEMMA KnownNext == Calm /\ PoolInv /\ KnownInv /\ [Next]_vars => KnownInv'
<1> SUFFICES ASSUME Calm, PoolInv, KnownInv, [Next]_vars PROVE KnownInv'
  OBVIOUS
<1>1. ASSUME NEW i \in Instances, Exit(i) \/ Crash(i) PROVE KnownInv'
  <2>1. /\ UNCHANGED <<pc, inst, tracked, owner, addr, admin, draining>> /\ Starters' = Starters
    BY <1>1 DEF Exit, Crash, callerVars, poolVars, Starters
  <2>2. /\ proc[i] # "booting" /\ proc'[i] = "none"
        /\ \A j \in Instances \ {i} : proc'[j] = proc[j]
    BY <1>1 DEF Exit, Crash, Terminating, PoolInv, Typed, Shapes
  <2>3. AdminInv' /\ OneSurvivor'
    BY <2>1, <2>2, AdminRests DEF Living
  <2>4. AddrsDiffer'
    <3>1. \A j \in Instances : ~Fresh(j)' => ~Fresh(j)
      BY <2>1, <2>2 DEF Fresh, Alive
    <3> QED BY <2>1, <3>1 DEF KnownInv, AddrsDiffer
  <2>5. StageInv'
    <3>1. \A c \in Starters : inst[c] \in Instances
      BY DEF PoolInv, FlightInv
    <3>2. tracked \subseteq Instances
      BY DEF PoolInv, Typed, Shapes
    <3>3. \A j \in Instances : /\ proc'[j] = "booting" <=> proc[j] = "booting"
                               /\ proc[j] \notin Living => proc'[j] \notin Living
      BY <2>2 DEF Living
    <3> QED BY <2>1, <3>1, <3>2, <3>3 DEF KnownInv, StageInv
  <2>6. NoOrphan'
    <3>1. \A j \in Instances : proc'[j] \in {"booting", "running"} => proc[j] \in {"booting", "running"}
      BY <2>2
    <3> QED BY <2>1, <3>1 DEF KnownInv, NoOrphan
  <2> QED BY <2>3, <2>4, <2>5, <2>6 DEF KnownInv
<1>2. CASE Tick \/ UNCHANGED vars
  <2>1. UNCHANGED <<pc, inst, tracked, proc, owner, addr, admin, draining>> /\ Starters' = Starters
    BY <1>2 DEF Tick, vars, callerVars, poolVars, procVars, Starters
  <2>2. AddrsDiffer'
    BY <2>1 DEF KnownInv, AddrsDiffer, Fresh, Alive
  <2> QED BY <2>1, <2>2 DEF KnownInv, AdminInv, StageInv, NoOrphan, OneSurvivor
<1> QED BY <1>1, <1>2, KnownByCallers, KnownByRequests, KnownByPools DEF Next, Callers

(* Every process is known to its pool, to the caller that starts it or to  *)
(* a stop under way, in whatever order starts, reports of dead instances,  *)
(* the reaper, stops and deletes take the pool's lock. The hypothesis is   *)
(* needed: each of the three events it excludes does orphan an instance.   *)
THEOREM NobodyOrphaned == ASSUME Calm PROVE Spec => []NoOrphan
<1>1. PoolInv /\ KnownInv /\ [Next]_vars => KnownInv'
  BY KnownNext
<1>2. KnownInv => NoOrphan
  BY DEF KnownInv
<1>3. QED
  BY <1>1, <1>2, KnownInit, PoolInvariant, PTL DEF Spec

(* delete() leaves at most the one start that was in progress when it      *)
(* began to drain, whatever is started, reported or reaped meanwhile.      *)
THEOREM OneSurvivorAtMost == ASSUME Calm PROVE Spec => []AtMostOneSurvivor
<1>1. PoolInv /\ KnownInv /\ [Next]_vars => KnownInv'
  BY KnownNext
<1>2. KnownInv => AtMostOneSurvivor
  <2> SUFFICES ASSUME KnownInv, NEW p \in Pools, admin[p] \in {"stopping", "deleted"}
               PROVE  Cardinality({i \in Instances : owner[i] = p
                                     /\ proc[i] \in {"booting", "running"}}) <= 1
    BY DEF AtMostOneSurvivor
  <2>1. PICK S : S = {i \in Instances : owner[i] = p /\ proc[i] \in {"booting", "running"}}
    OBVIOUS
  <2>2. \A i, j \in S : i = j
    BY <2>1 DEF KnownInv, OneSurvivor, Living
  <2>3. S = {} \/ \E i : S = {i}
    BY <2>2
  <2>4. Cardinality(S) = 0 \/ Cardinality(S) = 1
    BY <2>3, FS_EmptySet, FS_Singleton
  <2>5. Cardinality(S) <= 1
    BY <2>4
  <2> QED BY <2>1, <2>5
<1>3. QED
  BY <1>1, <1>2, KnownInit, PoolInvariant, PTL DEF Spec
-----------------------------------------------------------------------------
(* Starts that stay, under flags that do.                                  *)
LEMMA StarterStays ==
  ASSUME StartingHasStarter, Starters \subseteq Starters', pool' = pool, starting' = starting
  PROVE  StartingHasStarter'
BY DEF StartingHasStarter, StartersOf

(* finish_start() clears the flag of its own pool only.                    *)
LEMMA StarterEnds ==
  ASSUME PoolInv, StartingHasStarter, NEW c \in Callers, FinishStart(c) \/ FinishStartFailed(c)
  PROVE  StartingHasStarter'
<1>1. /\ pc \in [Callers -> CallerSteps] /\ starting \in [Pools -> BOOLEAN]
      /\ pool \in [Callers -> Pools]
  BY DEF PoolInv, Typed, Shapes
<1>2. starting' = [starting EXCEPT ![pool[c]] = FALSE] /\ pool' = pool
  BY DEF FinishStart, FinishStartFailed
<1>3. \A d \in Callers \ {c} : pc'[d] = pc[d]
  BY <1>1 DEF FinishStart, FinishStartFailed, Goto
<1>4. ASSUME NEW p \in Pools, starting'[p] PROVE StartersOf(p)' # {}
  <2>1. p # pool[c] /\ starting[p]
    BY <1>1, <1>2, <1>4
  <2>2. PICK d \in Starters : pool[d] = p
    BY <2>1 DEF StartingHasStarter, StartersOf
  <2>3. d \in Starters' /\ pool'[d] = p
    BY <1>2, <1>3, <2>1, <2>2 DEF Starters
  <2> QED BY <2>3 DEF StartersOf
<1> QED BY <1>4 DEF StartingHasStarter

(* "Some while one caller is in the middle of driver.spawn()" is true of   *)
(* `starting` as long as no handler is dropped: it is set and cleared      *)
(* together with the start it announces, however that ends. The run        *)
(* pool_wedged shows that a dropped handler is enough to break it.         *)
THEOREM StartsAreReal ==
  ASSUME "disconnect" \notin Environment PROVE Spec => []StartingHasStarter
<1>1. Init => StartingHasStarter
  BY DEF Init, StartingHasStarter
<1>2. PoolInv /\ StartingHasStarter /\ [Next]_vars => StartingHasStarter'
  <2> SUFFICES ASSUME PoolInv, StartingHasStarter, [Next]_vars PROVE StartingHasStarter'
    OBVIOUS
  <2>0. Typed /\ pc \in [Callers -> CallerSteps]
    BY DEF PoolInv, Typed, Shapes
  <2>1. ASSUME NEW c \in Callers, AcquireStep(c) \/ Spawning(c) PROVE StartingHasStarter'
    <3>1. CASE NoneFree(c) \/ AcquireExisting(c) \/ BeginDraining(c) \/ BeginWaitForOther(c)
               \/ BeginAtCapacity(c) \/ Retry(c) \/ SpawnReady(c)
      <4>1. pool' = pool /\ starting' = starting
        BY <3>1 DEF NoneFree, AcquireExisting, BeginDraining, BeginWaitForOther, BeginAtCapacity,
                    Retry, SpawnReady, poolVars
      <4>2. Starters \subseteq Starters'
        BY <2>0, <3>1 DEF NoneFree, AcquireExisting, BeginDraining, BeginWaitForOther,
                          BeginAtCapacity, Retry, SpawnReady, Goto, Starters
      <4> QED BY <4>1, <4>2, StarterStays
    <3>2. CASE BeginProceed(c)
      <4>1. /\ c \notin Starters /\ Goto(c, "spawn") /\ pool' = pool
            /\ starting' = [starting EXCEPT ![pool[c]] = TRUE]
        BY <3>2 DEF BeginProceed, Starters
      <4>2. Starters' = Starters \cup {c}
        BY <2>0, <4>1, StartersJoined
      <4>3. ASSUME NEW p \in Pools, starting'[p] PROVE StartersOf(p)' # {}
        <5>1. p = pool[c] \/ starting[p]
          BY <4>1, <4>3 DEF PoolInv, Typed, Shapes
        <5> QED BY <4>1, <4>2, <5>1 DEF StartingHasStarter, StartersOf
      <4> QED BY <4>3 DEF StartingHasStarter
    <3> QED BY <2>1, <3>1, <3>2, StarterEnds DEF AcquireStep, Spawning
  <2>2. ASSUME NEW c \in Callers,
               (c \in Requests /\ RequestStep(c)) \/ (c \in Warmers /\ WarmCheck(c))
        PROVE  StartingHasStarter'
    <3>1. ~Disconnect(c)
      BY DEF Disconnect
    <3>2. pool' = pool /\ starting' = starting
      BY <2>2, <3>1 DEF RequestStep, CheckRecord, Lookup, WarmCheck, ForwardOk, ForwardTimeout,
                        ForwardBroken, ReportDead, BodyEnds, poolVars
    <3>3. Starters \subseteq Starters'
      BY <2>0, <2>2, <3>1 DEF RequestStep, CheckRecord, Lookup, WarmCheck, ForwardOk,
                        ForwardTimeout, ForwardBroken, ReportDead, BodyEnds, Goto, Starters
    <3> QED BY <3>2, <3>3, StarterStays
  <2>3. ASSUME (\E p \in Pools : PoolStep(p)) \/ (\E i \in Instances : Exit(i) \/ Crash(i))
               \/ Tick \/ UNCHANGED vars
        PROVE  StartingHasStarter'
    <3>1. pc' = pc /\ pool' = pool /\ starting' = starting
      BY <2>3 DEF PoolStep, ReapIdle, StopInstances, StopReturns, MarkDeleting, RemovePool,
                  BeginDrain, StopAll, DeleteCompletes, AbandonAdmin, DeleteAgain, DropPool,
                  AdminMoves, Exit, Crash, Tick, vars, callerVars, poolVars
    <3>2. Starters' = Starters
      BY <3>1 DEF Starters
    <3> QED BY <3>1, <3>2, StarterStays
  <2> QED BY <2>1, <2>2, <2>3 DEF Next, Callers
<1>3. QED
  BY <1>1, <1>2, PoolInvariant, PTL DEF Spec
-----------------------------------------------------------------------------
(* The pools implement InstanceBudget: each step is one of the admission   *)
(* desk or leaves it alone. It rests on PoolInv, which relates permits,    *)
(* flags and callers to the places they stand for.                         *)
Occupied == tracked \cup Starting

(* The instance brings its own copy of the standard definition.            *)
LEMMA SameCardinality == ASSUME NEW S PROVE Budget!Cardinality(S) = Cardinality(S)
BY DEF Budget!Cardinality, Cardinality

(* The flag `starting` and the permits say what the desk wants to know.    *)
LEMMA PlacesCounted ==
  ASSUME PoolInv
  PROVE  /\ IsFiniteSet(Occupied) /\ Cardinality(Occupied) \in Nat
         /\ Cardinality(Occupied) + freeGlobal <= GlobalLimit
         /\ Starting \subseteq Instances \ tracked
         /\ \A p \in Pools : ~starting[p] =>
              Budget!PlacesOf(p) = TrackedOf(p) /\ Budget!PlacesOf(p) \cap Starting = {}
<1>0. Typed /\ FlightInv /\ PermitConservation
  BY DEF PoolInv
<1>1. /\ IsFiniteSet(Starters) /\ IsFiniteSet(tracked)
      /\ Cardinality(Starters) \in Nat /\ Cardinality(tracked) \in Nat
  BY <1>0, FiniteParts
<1>2. IsFiniteSet(Starting) /\ Cardinality(Starting) <= Cardinality(Starters)
  <2> DEFINE f == [c \in Starters |-> inst[c]]
  <2>1. f \in Surjection(Starters, Starting)
    BY DEF Surjection, Starting
  <2>2. QED
    BY <1>1, <2>1, FS_Surjection
<1>3. Starting \subseteq Instances \ tracked
  BY <1>0 DEF Starting, FlightInv
<1>4. /\ IsFiniteSet(Occupied)
      /\ Cardinality(Occupied) = Cardinality(tracked) + Cardinality(Starting)
  <2>1. tracked \cap Starting = {}
    BY <1>3
  <2>2. QED
    BY <1>1, <1>2, <2>1, FS_Union, FS_EmptySet, FS_CardinalityType DEF Occupied
<1>5. Cardinality(Occupied) \in Nat /\ Cardinality(Starting) \in Nat
  BY <1>2, <1>4, FS_CardinalityType
<1>6. Cardinality(Occupied) + freeGlobal <= GlobalLimit
  BY <1>0, <1>1, <1>2, <1>4, <1>5, PoolAssumption DEF PermitConservation, Typed
<1>7. ASSUME NEW p \in Pools, ~starting[p]
      PROVE  Budget!PlacesOf(p) = TrackedOf(p) /\ Budget!PlacesOf(p) \cap Starting = {}
  <2>1. \A i \in Starting : owner[i] # p
    BY <1>0, <1>7 DEF Starting, FlightInv
  <2>2. QED
    BY <1>3, <2>1 DEF Budget!PlacesOf, TrackedOf
<1>8. QED
  BY <1>3, <1>4, <1>5, <1>6, <1>7
-----------------------------------------------------------------------------
(* Steps outside a start give back the places of what they untrack.        *)
LEMMA UntrackReleases ==
  ASSUME PoolInv, NEW R \in SUBSET tracked, tracked' = tracked \ R,
         Starters' = Starters, owner' = owner, \A c \in Starters : inst'[c] = inst[c]
  PROVE  Budget!Release(R)
<1>1. Starting' = Starting
  BY DEF Starting
<1>2. R \subseteq (tracked \cup Starting) \ Starting
  BY PlacesCounted
<1>3. (tracked \cup Starting)' = (tracked \cup Starting) \ R
  BY <1>1, <1>2
<1>4. QED
  BY <1>1, <1>2, <1>3 DEF Budget!Release

LEMMA QuietStutters ==
  ASSUME tracked' = tracked, Starters' = Starters, owner' = owner,
         \A c \in Starters : inst'[c] = inst[c]
  PROVE  UNCHANGED Budget!vars
BY DEF Budget!vars, Starting

(* A start that fails or is dropped gives its place up.                    *)
LEMMA DroppedGivesUp ==
  ASSUME PoolInv, NEW c \in Starters, Starters' = Starters \ {c},
         tracked' = tracked, owner' = owner,
         \A d \in Starters : d # c => inst'[d] = inst[d]
  PROVE  Budget!GiveUp(inst[c])
<1>1. Starting' = Starting \ {inst[c]}
  BY DEF Starting, PoolInv, FlightInv
<1>2. inst[c] \in Starting /\ inst[c] \notin tracked
  BY DEF Starting, PoolInv, FlightInv
<1>3. (tracked \cup Starting)' = (tracked \cup Starting) \ {inst[c]}
  BY <1>1, <1>2
<1>4. QED
  BY <1>1, <1>2, <1>3 DEF Budget!GiveUp

(* begin_start() admits: its test of the flag and of both bounds is the    *)
(* desk's test of the places.                                              *)
LEMMA BeginAdmits ==
  ASSUME PoolInv, NEW c \in Callers, BeginProceed(c)
  PROVE  \E p \in Pools, i \in Instances : Budget!Admit(p, i)
<1> DEFINE p == pool[c]
<1>0. Typed /\ FlightInv /\ p \in Pools
  BY DEF PoolInv, Typed, Shapes
<1>1. PICK i \in Instances : /\ Fresh(i)
                             /\ owner' = [owner EXCEPT ![i] = p]
                             /\ inst' = [inst EXCEPT ![c] = i]
  BY DEF BeginProceed
<1>2. Starters' = Starters \cup {c} /\ c \notin Starters
  BY <1>0, StartersJoined DEF BeginProceed, Starters
<1>3. tracked' = tracked /\ i \notin tracked /\ \A d \in Callers : inst[d] # i
  BY <1>1 DEF BeginProceed, Fresh
<1>4. Starting' = Starting \cup {i}
  <2>1. inst'[c] = i /\ \A d \in Starters : inst'[d] = inst[d]
    BY <1>0, <1>1, <1>2 DEF Typed, Shapes, Starters
  <2>2. QED
    BY <1>2, <2>1 DEF Starting
<1>5. i \notin tracked \cup Starting
  BY <1>3 DEF Starting, Starters
<1>6. ~starting[p] /\ freeGlobal # 0 /\ ~(Cardinality(TrackedOf(p)) >= MaxInstances[p])
  BY DEF BeginProceed, MayBegin, AtCapacity
<1>7. Cardinality(tracked \cup Starting) < GlobalLimit
  BY <1>0, <1>6, PlacesCounted, PoolAssumption DEF Occupied, Typed
<1>8. /\ Cardinality(Budget!PlacesOf(p)) < MaxInstances[p]
      /\ Budget!PlacesOf(p) \cap Starting = {}
  <2>1. Cardinality(TrackedOf(p)) \in Nat /\ MaxInstances[p] \in Nat
    BY <1>0, FiniteParts, PoolAssumption
  <2>2. QED
    BY <1>0, <1>6, <2>1, PlacesCounted
<1>9. (tracked \cup Starting)' = (tracked \cup Starting) \cup {i}
  BY <1>3, <1>4
<1>10. Budget!Admit(p, i)
  BY <1>1, <1>4, <1>5, <1>7, <1>8, <1>9, SameCardinality DEF Budget!Admit
<1>11. QED
  BY <1>0, <1>10

(* finish_start() opens, taking over the address of those it replaces.     *)
LEMMA FinishOpens ==
  ASSUME PoolInv, NEW c \in Callers, FinishStart(c)
  PROVE  \E i \in Starting : \E R \in SUBSET (tracked \cup Starting) : Budget!Open(i, R)
<1> DEFINE i == inst[c]
           R == {j \in TrackedOf(pool[c]) : addr[j] = addr[i]}
<1>0. Typed /\ FlightInv
  BY DEF PoolInv
<1>1. c \in Starters /\ i \in Starting /\ i \in Instances \ tracked /\ owner[i] = pool[c]
  BY <1>0 DEF FinishStart, FlightInv, Starters, Starting
<1>2. Starters' = Starters \ {c}
  <2>1. LoopHead(c) \notin {"spawn", "ready"} /\ Goto(c, LoopHead(c))
    BY DEF FinishStart, LoopHead
  <2>2. QED
    BY <1>0, <1>1, <2>1, StartersLeft
<1>3. Starting' = Starting \ {i}
  <2>1. \A d \in Starters : d # c => inst'[d] = inst[d] /\ inst[d] # i
    BY <1>0, <1>1 DEF FinishStart, Typed, Shapes, Starters, FlightInv
  <2>2. QED
    BY <1>1, <1>2, <2>1 DEF Starting
<1>4. R \subseteq Budget!PlacesOf(owner[i]) \ Starting
  BY <1>1, PlacesCounted DEF Budget!PlacesOf, TrackedOf
<1>5. (tracked \cup Starting)' = (tracked \cup Starting) \ R
  <2>1. tracked' = (tracked \ R) \cup {i} /\ owner' = owner
    BY DEF FinishStart, procVars
  <2>2. i \notin R /\ R \cap Starting = {}
    BY <1>1, <1>4 DEF TrackedOf
  <2>3. QED
    BY <1>1, <1>3, <2>1, <2>2
<1>6. owner' = owner
  BY DEF FinishStart, procVars
<1>7. Budget!Open(i, R)
  BY <1>1, <1>3, <1>4, <1>5, <1>6 DEF Budget!Open
<1>8. R \in SUBSET (tracked \cup Starting)
  BY DEF TrackedOf
<1>9. QED
  BY <1>1, <1>7, <1>8
-----------------------------------------------------------------------------
LEMMA CallerRefines ==
  ASSUME PoolInv, NEW c \in Callers, AcquireStep(c) \/ Spawning(c)
  PROVE  [Budget!Next]_(Budget!vars)
<1> USE DEF callerVars, poolVars, procVars
<1>0. Typed /\ FlightInv
  BY DEF PoolInv
<1>1. CASE NoneFree(c) \/ BeginDraining(c) \/ BeginWaitForOther(c) \/ BeginAtCapacity(c)
           \/ Retry(c) \/ SpawnReady(c)
  <2>1. Starters' = Starters
    BY <1>0, <1>1, StartersKept
       DEF NoneFree, BeginDraining, BeginWaitForOther, BeginAtCapacity, AfterAtCapacity,
           Retry, LoopHead, SpawnReady
  <2>2. QED
    BY <1>1, <2>1, QuietStutters
       DEF NoneFree, BeginDraining, BeginWaitForOther, BeginAtCapacity, Retry, SpawnReady
<1>2. CASE AcquireExisting(c)
  <2>1. Starters' = Starters /\ c \notin Starters
    BY <1>0, <1>2, StartersKept DEF AcquireExisting, Starters
  <2>2. \A d \in Starters : inst'[d] = inst[d]
    BY <1>0, <1>2, <2>1 DEF AcquireExisting, Typed, Shapes, Starters
  <2>3. QED
    BY <1>2, <2>1, <2>2, QuietStutters DEF AcquireExisting
<1>3. CASE BeginProceed(c)
  BY <1>3, BeginAdmits DEF Budget!Next
<1>4. CASE FinishStart(c)
  BY <1>4, FinishOpens DEF Budget!Next
<1>5. CASE FinishStartFailed(c)
  <2> DEFINE s == IF c \in Warmers THEN "done" ELSE "refused"
  <2>1. c \in Starters /\ Goto(c, s) /\ s \notin {"spawn", "ready"}
    BY <1>5 DEF FinishStartFailed, Starters
  <2> HIDE DEF s
  <2>2. Starters' = Starters \ {c}
    BY <1>0, <2>1, StartersLeft
  <2>3. \A d \in Starters : d # c => inst'[d] = inst[d]
    BY <1>0, <1>5 DEF FinishStartFailed, Typed, Shapes, Starters
  <2>4. Budget!GiveUp(inst[c])
    BY <1>5, <2>1, <2>2, <2>3, DroppedGivesUp DEF FinishStartFailed
  <2>5. inst[c] \in Starting
    BY <2>1 DEF Starting
  <2>6. QED
    BY <2>4, <2>5 DEF Budget!Next
<1>6. QED
  BY <1>1, <1>2, <1>3, <1>4, <1>5 DEF AcquireStep, Spawning

LEMMA RequestRefines ==
  ASSUME PoolInv, NEW r \in Requests, RequestStep(r)
  PROVE  [Budget!Next]_(Budget!vars)
<1> USE DEF callerVars, poolVars, procVars
<1>0. Typed /\ FlightInv /\ r \in Callers
  BY DEF PoolInv, Callers
<1>1. CASE CheckRecord(r) \/ Lookup(r)
  <2>1. Starters' = Starters
    BY <1>0, <1>1, StartersKept DEF CheckRecord, Lookup
  <2>2. QED
    BY <1>1, <2>1, QuietStutters DEF CheckRecord, Lookup
<1>2. CASE ForwardOk(r) \/ ForwardTimeout(r) \/ ForwardBroken(r) \/ BodyEnds(r)
  <2>1. Starters' = Starters /\ r \notin Starters
    BY <1>0, <1>2, StartersKept
       DEF ForwardOk, ForwardTimeout, ForwardBroken, BodyEnds, Starters
  <2>2. \A d \in Starters : inst'[d] = inst[d]
    BY <1>0, <1>2, <2>1
       DEF ForwardOk, ForwardTimeout, ForwardBroken, BodyEnds, Typed, Shapes, Starters
  <2>3. QED
    BY <1>2, <2>1, <2>2, QuietStutters DEF ForwardOk, ForwardTimeout, ForwardBroken, BodyEnds
<1>3. CASE ReportDead(r)
  <2>1. Starters' = Starters /\ r \notin Starters
    BY <1>0, <1>3, StartersKept DEF ReportDead, Starters
  <2>2. \A d \in Starters : inst'[d] = inst[d]
    BY <1>0, <1>3, <2>1 DEF ReportDead, Typed, Shapes, Starters
  <2>3. DeadEntries(r) \in SUBSET tracked
    BY DEF DeadEntries, TrackedOf
  <2>4. Budget!Release(DeadEntries(r))
    BY <1>3, <2>1, <2>2, <2>3, UntrackReleases DEF ReportDead, Untrack
  <2>5. QED
    BY <2>3, <2>4 DEF Budget!Next
<1>4. CASE Disconnect(r)
  <2>1. \A d \in Starters : d # r => inst'[d] = inst[d]
    BY <1>0, <1>4 DEF Disconnect, Typed, Shapes, Starters
  <2>2. CASE r \in Starters
    <3>1. Starters' = Starters \ {r}
      BY <1>0, <1>4, <2>2, StartersLeft DEF Disconnect
    <3>2. Budget!GiveUp(inst[r])
      BY <1>4, <2>1, <2>2, <3>1, DroppedGivesUp DEF Disconnect
    <3>3. inst[r] \in Starting
      BY <2>2 DEF Starting
    <3>4. QED
      BY <3>2, <3>3 DEF Budget!Next
  <2>3. CASE r \notin Starters
    <3>1. Starters' = Starters
      BY <1>0, <1>4, <2>3, StartersKept DEF Disconnect, Starters
    <3>2. QED
      BY <1>4, <2>1, <2>3, <3>1, QuietStutters DEF Disconnect
  <2>4. QED
    BY <2>2, <2>3
<1>5. QED
  BY <1>1, <1>2, <1>3, <1>4 DEF RequestStep

LEMMA AdminRefines ==
  ASSUME PoolInv, NEW p \in Pools, PoolStep(p)
  PROVE  [Budget!Next]_(Budget!vars)
<1> USE DEF callerVars, poolVars, procVars
<1>1. Starters' = Starters /\ owner' = owner /\ inst' = inst
  BY DEF PoolStep, ReapIdle, StopInstances, StopReturns, MarkDeleting, RemovePool, BeginDrain,
         StopAll, DeleteCompletes, AbandonAdmin, DeleteAgain, DropPool, AdminMoves, Starters
<1>2. CASE AdminOnly(p)
  <2>1. tracked' = tracked
    BY <1>2 DEF AdminOnly, StopReturns, MarkDeleting, RemovePool, BeginDrain,
                DeleteCompletes, AbandonAdmin, DeleteAgain, AdminMoves
  <2>2. QED
    BY <1>1, <2>1, QuietStutters
<1>3. ASSUME NEW R \in SUBSET tracked, Untrack(R) PROVE Budget!Next
  <2>1. Budget!Release(R)
    BY <1>1, <1>3, UntrackReleases DEF Untrack
  <2>2. QED
    BY <2>1 DEF Budget!Next
<1>4. CASE ReapIdle(p)
  <2>1. PICK R \in SUBSET Reapable(p) : Untrack(R)
    BY <1>4 DEF ReapIdle
  <2>2. R \in SUBSET tracked
    BY <2>1 DEF Reapable, TrackedOf
  <2>3. QED
    BY <1>3, <2>1, <2>2
<1>5. CASE StopInstances(p) \/ StopAll(p) \/ DropPool(p)
  <2>1. TrackedOf(p) \in SUBSET tracked /\ Untrack(TrackedOf(p))
    BY <1>5 DEF StopInstances, StopAll, DropPool, TrackedOf
  <2>2. QED
    BY <1>3, <2>1
<1>6. QED
  BY <1>2, <1>4, <1>5 DEF PoolStep, AdminOnly

LEMMA StepRefines == PoolInv /\ [Next]_vars => [Budget!Next]_(Budget!vars)
<1> SUFFICES ASSUME PoolInv, [Next]_vars PROVE [Budget!Next]_(Budget!vars)
  OBVIOUS
<1> USE DEF callerVars, poolVars, procVars
<1>1. ASSUME NEW w \in Warmers, WarmCheck(w) PROVE UNCHANGED Budget!vars
  <2>1. Starters' = Starters
    BY <1>1, StartersKept DEF WarmCheck, Callers, PoolInv
  <2>2. QED
    BY <1>1, <2>1, QuietStutters DEF WarmCheck
<1>2. ASSUME NEW i \in Instances, Exit(i) \/ Crash(i) PROVE UNCHANGED Budget!vars
  <2>1. Starters' = Starters
    BY <1>2 DEF Exit, Crash, Starters
  <2>2. QED
    BY <1>2, <2>1, QuietStutters DEF Exit, Crash
<1>3. CASE Tick \/ UNCHANGED vars
  <2>1. Starters' = Starters
    BY <1>3 DEF Tick, vars, Starters
  <2>2. QED
    BY <1>3, <2>1, QuietStutters DEF Tick, vars
<1>4. QED
  BY <1>1, <1>2, <1>3, CallerRefines, RequestRefines, AdminRefines DEF Next

(* The pools implement the admission desk: whatever callers, drivers,      *)
(* reapers, deletes and clients do in between, every behaviour of the      *)
(* pools shows one of InstanceBudget.                                      *)
THEOREM PoolsImplementBudget == Spec => ImplementsBudget
<1>1. Init => Budget!Init
  BY PoolAssumption DEF Init, Budget!Init, Starting, Starters
<1>2. PoolInv /\ [Next]_vars => [Budget!Next]_(Budget!vars)
  BY StepRefines
<1>3. QED
  BY <1>1, <1>2, PoolInvariant, PTL DEF Spec, ImplementsBudget, Budget!Spec
=============================================================================
