--------------------------- MODULE Registry_proofs ---------------------------
(***************************************************************************)
(* Proofs about Registry. TypeOK holds for every value of the constants;   *)
(* FailedRedeployHarmless for every set of deploys and deletes while no    *)
(* client goes away; the other properties for deploys from source and no   *)
(* delete, which is what the run registry_deploy checks.                   *)
(***************************************************************************)
EXTENDS Registry, FiniteSetTheorems, TLAPS

(* The deploys that have read the record. Their number bounds every        *)
(* revision number there is, which is what TypeOK needs to be inductive.   *)
Reached == {d \in Deploys : pc[d] \notin {"idle", "accepted"}}

Counted ==
  /\ CurrentOf(rec) <= Cardinality(Reached)
  /\ \A o \in Ops : CurrentOf(got[o]) <= Cardinality(Reached)
  /\ \A d \in Deploys : num[d] = 1 \/ num[d] <= Cardinality(Reached)

Placed ==
  /\ \A d \in Deploys : pc[d] = "mark" => cut[d] < num[d] - 1
  /\ \A x \in Deletes : pc[x] = "found" => got[x] # NoFunction

TypeInv == TypeOK /\ Counted /\ Placed

LEMMA Apart == Nobody \notin Deploys /\ \A d \in Deploys, x \in Deletes : d # x
BY RegistryAssumption

LEMMA ReachedFinite ==
  /\ Cardinality(Deploys) \in Nat
  /\ Cardinality(Reached) \in Nat /\ Cardinality(Reached) <= Cardinality(Deploys)
  /\ \A d \in Reached : Cardinality(Reached) >= 1
<1>1. IsFiniteSet(Deploys) /\ Reached \subseteq Deploys
  BY RegistryAssumption DEF Reached
<1>2. IsFiniteSet(Reached) /\ Cardinality(Reached) <= Cardinality(Deploys)
  BY <1>1, FS_Subset
<1>3. Cardinality(Reached) \in Nat /\ Cardinality(Deploys) \in Nat
  BY <1>1, <1>2, FS_CardinalityType
<1>4. ASSUME NEW d \in Reached PROVE Cardinality(Reached) >= 1
  BY <1>2, <1>3, <1>4, FS_EmptySet
<1>5. QED
  BY <1>1, <1>2, <1>3, <1>4

(* A register() never goes back to before it read the record.              *)
LEMMA RegistersAdvance ==
  ASSUME TypeOK, NEW d \in Deploys, Accept(d) \/ RegisterStep(d)
  PROVE  /\ pc' \in [Ops -> DeploySteps \cup DeleteSteps \cup EndSteps]
         /\ \A o \in Ops : o # d => pc'[o] = pc[o]
         /\ pc[d] \notin {"idle", "accepted"} => pc'[d] \notin {"idle", "accepted"}
BY RegistryAssumption DEF RegisterStep, Accept, Refuse, ReadExisting, PutBuilding,
  PutImageReady, Invalid,
  PutBuildRunning, BuildStarts, BuildSucceeds, BuildFails, PutBuildResult,
  PutFailed, PutRevision, SwapTemplate, ReadCurrent, PutReady, PruneSkips,
  PruneRemoves, PruneMarks, PruneEnds, Leave,
  At, Goto, TypeOK, Ops, DeploySteps, DeleteSteps, EndSteps

LEMMA DeletesAdvance ==
  ASSUME TypeOK, NEW x \in Deletes, FindFunction(x) \/ DeleteStep(x)
  PROVE  /\ pc' \in [Ops -> DeploySteps \cup DeleteSteps \cup EndSteps]
         /\ \A d \in Deploys : pc'[d] = pc[d]
BY Apart DEF DeleteStep, FindFunction, PutDeleting, TakePool, StopReturns,
  DeleteRecord, RemoveFiles, At, Goto, TypeOK,
  Ops, DeploySteps, DeleteSteps, EndSteps

LEMMA OthersAdvance ==
  ASSUME TypeOK, (\E o \in Ops : Cancel(o)) \/ Crash \/ RestoreStep
  PROVE  /\ pc' \in [Ops -> DeploySteps \cup DeleteSteps \cup EndSteps]
         /\ \A o \in Ops : pc'[o] \in {pc[o], "cancelled", "lost"}
BY Apart DEF Cancel, Crash, RestoreStep, FailBuild, FixFunction, BuildsReconciled,
  RestorePool, NothingToRestore, locals, Goto, TypeOK, Ops, DeploySteps, DeleteSteps,
  EndSteps

(* So the deploys that have read the record only become more, by one when  *)
(* one of them reads it.                                                   *)
LEMMA ReachedGrows ==
  ASSUME TypeOK, [Next]_vars
  PROVE  /\ Cardinality(Reached') \in Nat
         /\ Cardinality(Reached) <= Cardinality(Reached')
         /\ Cardinality(Reached') <= Cardinality(Deploys)
         /\ \A d \in Reached' : Cardinality(Reached') >= 1
         /\ \A d \in Reached' : d \notin Reached
              => Cardinality(Reached) + 1 <= Cardinality(Reached')
<1>1. \A d \in Reached : d \in Reached'
  <2>1. CASE \E d \in Deploys : Accept(d) \/ RegisterStep(d)
    BY <2>1, RegistersAdvance DEF Reached, Ops
  <2>2. CASE \E x \in Deletes : FindFunction(x) \/ DeleteStep(x)
    BY <2>2, DeletesAdvance DEF Reached
  <2>3. CASE (\E o \in Ops : Cancel(o)) \/ Crash \/ RestoreStep
    BY <2>3, OthersAdvance DEF Reached, Ops
  <2>4. CASE UNCHANGED vars
    BY <2>4 DEF Reached, vars, locals
  <2>5. QED
    BY <2>1, <2>2, <2>3, <2>4 DEF Next
<1>2. IsFiniteSet(Deploys) /\ Reached' \subseteq Deploys /\ Reached \subseteq Deploys
  BY RegistryAssumption DEF Reached
<1>3. IsFiniteSet(Reached) /\ IsFiniteSet(Reached')
      /\ Cardinality(Reached') <= Cardinality(Deploys)
  BY <1>2, FS_Subset
<1>4. Cardinality(Reached) <= Cardinality(Reached')
  BY <1>1, <1>3, FS_Subset
<1>5. Cardinality(Reached) \in Nat /\ Cardinality(Reached') \in Nat
  BY <1>3, FS_CardinalityType
<1>6. ASSUME NEW d \in Reached' PROVE Cardinality(Reached') >= 1
  BY <1>3, <1>5, <1>6, FS_EmptySet
<1>7. ASSUME NEW d \in Reached', d \notin Reached
      PROVE  Cardinality(Reached) + 1 <= Cardinality(Reached')
  <2>1. Cardinality(Reached \cup {d}) = Cardinality(Reached) + 1
    BY <1>3, <1>7, FS_AddElement
  <2>2. Reached \cup {d} \subseteq Reached'
    BY <1>1, <1>7
  <2>3. QED
    BY <1>3, <2>1, <2>2, FS_Subset
<1>8. QED
  BY <1>3, <1>4, <1>5, <1>6, <1>7

LEMMA OneIsANumber == \A d \in Deploys : 1 \in Numbers
<1>1. ASSUME NEW d \in Deploys PROVE Cardinality(Deploys) \in Nat /\ Cardinality(Deploys) # 0
  BY FS_EmptySet, FS_CardinalityType, RegistryAssumption
<1>2. QED
  BY <1>1 DEF Numbers

LEMMA CurrentType ==
  \A r \in Records \cup {NoFunction} : CurrentOf(r) \in {0} \cup Numbers /\ CurrentOf(r) \in Nat
BY ReachedFinite DEF Records, CurrentOf, Numbers

LEMMA InitTypes == Init => TypeInv
<1>1. ASSUME Init PROVE TypeOK
  <2>1. num \in [Deploys -> Numbers] /\ cut \in [Deploys -> Numbers]
    BY <1>1, OneIsANumber DEF Init
  <2>2. pc \in [Ops -> DeploySteps \cup DeleteSteps \cup EndSteps] /\ crashes \in 0..MaxCrashes
    BY <1>1, RegistryAssumption DEF Init, DeploySteps
  <2>3. QED
    BY <1>1, <2>1, <2>2 DEF Init, TypeOK
<1>2. ASSUME Init PROVE Counted /\ Placed
  BY <1>2, ReachedFinite DEF Init, Counted, Placed, CurrentOf, Ops
<1>3. QED
  BY <1>1, <1>2 DEF TypeInv

LEMMA RegisterTypes ==
  ASSUME TypeInv, NEW d \in Deploys, Accept(d) \/ RegisterStep(d)
  PROVE  TypeInv'
<1>1. TypeOK /\ Counted /\ Placed
  BY DEF TypeInv
<1>2. pc' \in [Ops -> DeploySteps \cup DeleteSteps \cup EndSteps]
      /\ \A o \in Ops : o # d => pc'[o] = pc[o]
  BY <1>1, RegistersAdvance
<1>3. [Next]_vars
  BY DEF Next
<1>4. /\ Cardinality(Reached) \in Nat /\ Cardinality(Reached') \in Nat
      /\ Cardinality(Reached) <= Cardinality(Reached')
      /\ Cardinality(Reached') <= Cardinality(Deploys) /\ Cardinality(Deploys) \in Nat
      /\ d \in Reached' => Cardinality(Reached') >= 1
      /\ d \in Reached' /\ d \notin Reached => Cardinality(Reached) + 1 <= Cardinality(Reached')
  BY <1>1, <1>3, ReachedGrows, ReachedFinite
<1>5. CASE ReadExisting(d)
  <2>1. d \in Reached' /\ d \notin Reached
    BY <1>1, <1>2, <1>5 DEF ReadExisting, At, Goto, Reached, TypeOK, Ops
  <2>2. CurrentOf(rec) \in Nat /\ CurrentOf(rec) + 1 <= Cardinality(Reached')
    BY <1>1, <1>4, <2>1, CurrentType DEF TypeOK, Counted
  <2>3. CurrentOf(rec) + 1 \in Numbers
    BY <1>4, <2>2 DEF Numbers
  <2>4. num' = [num EXCEPT ![d] = CurrentOf(rec) + 1] /\ got' = [got EXCEPT ![d] = rec]
        /\ rec' = rec
    BY <1>5 DEF ReadExisting, NextNumber, stored
  <2>5. TypeOK'
    BY <1>1, <1>2, <1>5, <2>3, <2>4 DEF ReadExisting, TypeOK, Ops, stored, memory,
      system
  <2>6. Counted'
    <3>1. CurrentOf(rec') <= Cardinality(Reached')
      BY <1>1, <1>4, <2>2, <2>4 DEF Counted
    <3>2. ASSUME NEW o \in Ops PROVE CurrentOf(got'[o]) <= Cardinality(Reached')
      BY <1>1, <1>4, <2>2, <2>4, CurrentType DEF Counted, TypeOK, Ops
    <3>3. ASSUME NEW e \in Deploys PROVE num'[e] = 1 \/ num'[e] <= Cardinality(Reached')
      BY <1>1, <1>4, <2>2, <2>4 DEF Counted, TypeOK, Numbers
    <3>4. QED
      BY <3>1, <3>2, <3>3 DEF Counted, CurrentOf
  <2>7. Placed'
    BY <1>1, <1>2, <1>5, <2>4, Apart DEF ReadExisting, At, Goto, TypeOK, Placed, Ops
  <2>8. QED
    BY <2>5, <2>6, <2>7 DEF TypeInv
<1>6. CASE ~ReadExisting(d)
  <2> USE DEF RegisterStep, Accept, Refuse, ReadExisting, PutBuilding,
    PutImageReady, Invalid,
    PutBuildRunning, BuildStarts, BuildSucceeds, BuildFails, PutBuildResult,
    PutFailed, PutRevision, SwapTemplate, ReadCurrent, PutReady, PruneSkips,
    PruneRemoves, PruneMarks, PruneEnds, Leave
  <2>1. num' = num
    BY <1>6 DEF locals
  <2>2. got' = got \/ (ReadCurrent(d) /\ got' = [got EXCEPT ![d] = rec] /\ rec' = rec)
    BY <1>6 DEF locals, stored
  <2>3. rec' = rec \/ (rec'.current \in {num[d], CurrentOf(got[d])} /\ rec' \in Records)
    BY <1>1, <1>6, CurrentType DEF stored, TypeOK, Ops, Records, States, WasReady
  <2>4. rec' \in Records \cup {NoFunction} /\ got' \in [Ops -> Records \cup {NoFunction}]
    BY <1>1, <2>2, <2>3 DEF TypeOK
  <2>5. revs' \in [Numbers -> Deploys \cup {Nobody}] /\ pruned' \subseteq Numbers
    BY <1>1, <1>6 DEF stored, TypeOK
  <2>6. builds' \in [Deploys -> {"none", "running", "succeeded", "failed"}]
    BY <1>1, <1>6 DEF stored, TypeOK
  <2>7. files' \in [Numbers -> Deploys \cup {"missing", "empty"}]
    BY <1>1, <1>6 DEF stored, TypeOK
  <2>8. template' \in Deploys \cup {Nobody} /\ maker' \in Deploys \cup {Nobody}
        /\ building' \in BOOLEAN
    BY <1>1, <1>6 DEF memory, TypeOK
  <2>9. /\ copy' \in [Deploys -> Deploys \cup {Nobody}]
        /\ \/ cut' = cut \/ cut' = [cut EXCEPT ![d] = 1]
           \/ cut' = [cut EXCEPT ![d] = cut[d] + 1] /\ cut[d] < num[d] - 1
    BY <1>1, <1>6 DEF locals, Placed, KeptFrom, At, TypeOK
  <2>10. UNCHANGED system
    BY <1>6 DEF system
  <2>11. rec' # rec => d \in Reached'
    BY <1>1, <1>2, <1>6 DEF stored, At, Goto, Reached, TypeOK, Ops
  <2>12. pc'[d] = "mark" => cut'[d] < num'[d] - 1
    BY <1>1, <1>2, <1>6, <2>1 DEF locals, At, Goto, KeptFrom, TypeOK, Placed,
      Numbers, Ops
  <2>13. \A e \in Deploys : e # d => cut'[e] = cut[e]
    BY <1>1, <1>6 DEF locals, TypeOK
  <2> HIDE DEF RegisterStep, Accept, Refuse, ReadExisting, PutBuilding,
    PutImageReady, Invalid,
    PutBuildRunning, BuildStarts, BuildSucceeds, BuildFails, PutBuildResult, PutFailed,
    PutRevision, SwapTemplate, ReadCurrent, PutReady, PruneSkips, PruneRemoves, PruneMarks,
    PruneEnds, Leave
  <2>14. TypeOK'
    <3>1. cut[d] \in Numbers /\ num[d] \in Numbers /\ 1 \in Numbers
      BY <1>1, OneIsANumber DEF TypeOK
    <3>2. cut[d] < num[d] - 1 => cut[d] + 1 \in Numbers
      BY <1>4, <3>1 DEF Numbers
    <3>3. cut' \in [Deploys -> Numbers]
      BY <1>1, <2>9, <3>1, <3>2 DEF TypeOK
    <3>4. QED
      BY <1>1, <1>2, <2>1, <2>4, <2>5, <2>6, <2>7, <2>8, <2>9, <2>10, <3>3 DEF
        TypeOK, system
  <2>15. Counted'
    <3>1. CurrentOf(rec') \in {0, CurrentOf(rec), num[d], CurrentOf(got[d])}
      BY <2>3 DEF CurrentOf
    <3>2. CurrentOf(rec') <= Cardinality(Reached')
      <4>1. /\ CurrentOf(rec) \in Nat /\ CurrentOf(got[d]) \in Nat /\ num[d] \in Nat
            /\ CurrentOf(rec) <= Cardinality(Reached)
            /\ CurrentOf(got[d]) <= Cardinality(Reached)
            /\ num[d] = 1 \/ num[d] <= Cardinality(Reached)
        BY <1>1, CurrentType DEF TypeOK, Counted, Ops, Numbers
      <4>2. rec' = rec => CurrentOf(rec') = CurrentOf(rec)
        BY DEF CurrentOf
      <4>3. QED
        BY <1>4, <2>11, <3>1, <4>1, <4>2
    <3>3. ASSUME NEW o \in Ops PROVE CurrentOf(got'[o]) <= Cardinality(Reached')
      BY <1>1, <1>4, <2>2, CurrentType DEF Counted, TypeOK, Ops
    <3>4. ASSUME NEW e \in Deploys PROVE num'[e] = 1 \/ num'[e] <= Cardinality(Reached')
      BY <1>1, <1>4, <2>1 DEF Counted, TypeOK, Numbers
    <3>5. QED
      BY <3>2, <3>3, <3>4 DEF Counted, CurrentOf
  <2>16. Placed'
    <3>1. ASSUME NEW e \in Deploys, pc'[e] = "mark" PROVE cut'[e] < num'[e] - 1
      BY <1>1, <1>2, <2>1, <2>12, <2>13, <3>1 DEF Placed, Ops
    <3>2. ASSUME NEW x \in Deletes, pc'[x] = "found" PROVE got'[x] # NoFunction
      BY <1>1, <1>2, <2>2, <3>2, Apart DEF Placed, TypeOK, Ops
    <3>3. QED
      BY <3>1, <3>2 DEF Placed
  <2>17. QED
    BY <2>14, <2>15, <2>16 DEF TypeInv
<1>7. QED
  BY <1>5, <1>6

LEMMA DeleteTypes ==
  ASSUME TypeInv, NEW x \in Deletes, FindFunction(x) \/ DeleteStep(x)
  PROVE  TypeInv'
<1> USE DEF DeleteStep, FindFunction, PutDeleting, TakePool, StopReturns,
  DeleteRecord, RemoveFiles
<1>1. TypeOK /\ Counted /\ Placed
  BY DEF TypeInv
<1>2. pc' \in [Ops -> DeploySteps \cup DeleteSteps \cup EndSteps]
      /\ (\A d \in Deploys : pc'[d] = pc[d]) /\ (\A o \in Ops : o # x => pc'[o] = pc[o])
  BY <1>1, DeletesAdvance DEF At, Goto, TypeOK
<1>3. Cardinality(Reached') = Cardinality(Reached) /\ Cardinality(Reached) \in Nat
  BY <1>2, ReachedFinite DEF Reached
<1>4. got' = got \/ (FindFunction(x) /\ got' = [got EXCEPT ![x] = rec] /\ rec' = rec)
  BY DEF locals, stored
<1>5. rec' = rec \/ rec' = NoFunction
      \/ (rec' \in Records /\ CurrentOf(rec') = CurrentOf(got[x]) /\ got' = got)
  BY <1>1 DEF stored, TypeOK, Placed, Records, States, CurrentOf, At, Ops
<1>6. TypeOK'
  BY <1>1, <1>2, <1>4, <1>5 DEF TypeOK, stored, memory, system, locals, Ops
<1>7. Counted'
  <2>1. CurrentOf(rec') <= Cardinality(Reached')
    BY <1>1, <1>3, <1>5, CurrentType DEF Counted, TypeOK, Ops, CurrentOf
  <2>2. ASSUME NEW o \in Ops PROVE CurrentOf(got'[o]) <= Cardinality(Reached')
    BY <1>1, <1>3, <1>4 DEF Counted, TypeOK
  <2>3. num' = num
    BY DEF locals
  <2>4. QED
    BY <1>1, <1>3, <2>1, <2>2, <2>3 DEF Counted, CurrentOf
<1>8. Placed'
  <2>1. ASSUME NEW d \in Deploys, pc'[d] = "mark" PROVE cut'[d] < num'[d] - 1
    BY <1>1, <1>2, <2>1 DEF Placed, locals
  <2>2. ASSUME NEW y \in Deletes, pc'[y] = "found" PROVE got'[y] # NoFunction
    BY <1>1, <1>2, <1>4, <2>2 DEF Placed, TypeOK, At, Goto, Ops, locals
  <2>3. QED
    BY <2>1, <2>2 DEF Placed
<1>9. QED
  BY <1>6, <1>7, <1>8 DEF TypeInv

LEMMA OtherTypes ==
  ASSUME TypeInv, (\E o \in Ops : Cancel(o)) \/ Crash \/ RestoreStep \/ UNCHANGED vars
  PROVE  TypeInv'
<1> USE DEF RestoreStep, FailBuild, FixFunction, BuildsReconciled, RestorePool,
  NothingToRestore
<1>1. TypeOK /\ Counted /\ Placed
  BY DEF TypeInv
<1>2. pc' \in [Ops -> DeploySteps \cup DeleteSteps \cup EndSteps]
      /\ \A o \in Ops : pc'[o] \in {pc[o], "cancelled", "lost"}
  BY <1>1, OthersAdvance DEF TypeOK, vars, locals
<1>3. Cardinality(Reached) <= Cardinality(Reached') /\ Cardinality(Reached) \in Nat
      /\ Cardinality(Reached') \in Nat
  BY <1>1, ReachedGrows, ReachedFinite DEF Next
<1>4. UNCHANGED <<got, num, cut, copy>>
  BY DEF Cancel, Crash, locals, vars
<1>5. rec' \in Records \cup {NoFunction} /\ CurrentOf(rec') \in {0, CurrentOf(rec)}
  <2>1. rec' = rec \/ (rec # NoFunction /\ \E s \in States : rec' = [rec EXCEPT !.state = s])
    BY DEF Cancel, Crash, stored, vars, States
  <2>2. QED
    BY <1>1, <2>1 DEF TypeOK, Records, CurrentOf
<1>6. TypeOK'
  <2>1. template' \in Deploys \cup {Nobody} /\ maker' \in Deploys \cup {Nobody}
        /\ building' \in BOOLEAN /\ pruned' \subseteq Numbers
    <3>1. CASE RestorePool
      BY <1>1, <3>1, ReachedFinite DEF TypeOK, Restorable, WasReady, Records,
        KeptFrom, Numbers,
        memory
    <3>2. CASE ~RestorePool
      BY <1>1, <3>2 DEF Cancel, Crash, stored, memory, vars, TypeOK
    <3>3. QED
      BY <3>1, <3>2
  <2>2. revs' = revs /\ builds' \in [Deploys -> {"none", "running", "succeeded", "failed"}]
        /\ files' \in [Numbers -> Deploys \cup {"missing", "empty"}]
    BY <1>1 DEF Cancel, Crash, stored, vars, TypeOK
  <2>3. phase' \in {"serving", "builds", "function", "pools"}
        /\ listed' \subseteq Deploys /\ torn' \in BOOLEAN /\ crashes' \in 0..MaxCrashes
    <3>1. CASE Crash
      <4>1. Halfway \in BOOLEAN
        BY DEF Halfway
      <4>2. crashes' \in 0..MaxCrashes
        BY <1>1, <3>1, RegistryAssumption DEF Crash, TypeOK
      <4> QED BY <1>1, <3>1, <4>1, <4>2 DEF Crash, TypeOK
    <3>2. CASE ~Crash
      BY <1>1, <3>2 DEF Cancel, system, vars, TypeOK
    <3> QED BY <3>1, <3>2
  <2>4. QED
    BY <1>1, <1>2, <1>4, <1>5, <2>1, <2>2, <2>3 DEF TypeOK
<1>7. Counted'
  <2>1. CurrentOf(rec') <= Cardinality(Reached')
    BY <1>1, <1>3, <1>5, CurrentType DEF Counted, TypeOK
  <2>2. ASSUME NEW o \in Ops PROVE CurrentOf(got'[o]) <= Cardinality(Reached')
    BY <1>1, <1>3, <1>4, CurrentType DEF Counted, TypeOK
  <2>3. ASSUME NEW d \in Deploys PROVE num'[d] = 1 \/ num'[d] <= Cardinality(Reached')
    BY <1>1, <1>3, <1>4 DEF Counted, TypeOK, Numbers
  <2>4. QED
    BY <2>1, <2>2, <2>3 DEF Counted, CurrentOf
<1>8. Placed'
  BY <1>1, <1>2, <1>4 DEF Placed, Ops
<1>9. QED
  BY <1>6, <1>7, <1>8 DEF TypeInv

LEMMA NextTypes == TypeInv /\ [Next]_vars => TypeInv'
BY RegisterTypes, DeleteTypes, OtherTypes DEF Next

(* Every number, record, snapshot and file name stays one that some deploy *)
(* was given, whatever deploys, deletes, crashes and lost clients do.      *)
THEOREM TypeInvariant == Spec => []TypeInv
<1>1. QED
  BY InitTypes, NextTypes, PTL DEF Spec

(* TypeOK for any number of deploys and deletes: in particular no revision *)
(* number is ever higher than the number of deploys.                       *)
THEOREM TypeCorrect == Spec => []TypeOK
<1>1. TypeInv => TypeOK
  BY DEF TypeInv
<1>2. QED
  BY <1>1, TypeInvariant, PTL
-----------------------------------------------------------------------------
(* From here on: no image and no delete, as in the run registry_deploy.    *)
SourceOnly == Deletes = {} /\ ImageDeploys = {}

(* The steps of a deploy that holds the name in `building`.                *)
BeforeSwitch == {"read", "recorded", "registered", "build", "built", "broken", "store",
                 "activate", "reread", "switch", "fail"}
Active(d) == pc[d] \in BeforeSwitch \cup {"accepted", "prune", "mark", "leave"}

Alone ==
  /\ \A d, e \in Deploys : Active(d) /\ Active(e) => d = e
  /\ \A d \in Deploys : Active(d) => building /\ phase = "serving"
  /\ phase # "serving" => template = Nobody /\ ~building

(* What the deploy under way may rely on: the record it read is as it was, *)
(* its number is the next one, and what it has written is still there.     *)
Doing(d) ==
  /\ pc[d] \in BeforeSwitch =>
       /\ num[d] = CurrentOf(rec) + 1
       /\ CurrentOf(got[d]) = CurrentOf(rec)
       /\ WasReady(got[d]) => template # Nobody /\ CurrentOf(rec) # 0
  /\ pc[d] \in BeforeSwitch \ {"read"} => rec # NoFunction
  /\ pc[d] \in {"built", "store", "activate", "reread", "switch"} => files[num[d]] = d
  /\ pc[d] \in {"activate", "reread", "switch"} => revs[num[d]] = d /\ num[d] \notin pruned
  /\ pc[d] \in {"reread", "switch", "prune", "mark"} => template = d
  /\ pc[d] \in {"prune", "mark"} => rec # NoFunction /\ num[d] = rec.current
  /\ pc[d] = "mark" => cut[d] < num[d] - 1 /\ copy[d] = revs[cut[d]]

Served ==
  /\ template # Nobody =>
       /\ Backed(num[template], template)
       /\ pc[template] \notin {"idle", "accepted"}
       /\ \/ pc[template] \in {"reread", "switch"}
          \/ rec # NoFunction /\ num[template] = rec.current
  /\ phase = "serving" /\ WasReady(rec) => template # Nobody
  /\ WasReady(rec) => rec.current # 0

Kept ==
  rec # NoFunction /\ rec.current # 0
    => revs[rec.current] # Nobody /\ Backed(rec.current, revs[rec.current])

Named ==
  \A n \in Numbers : revs[n] # Nobody =>
    num[revs[n]] = n /\ pc[revs[n]] \notin {"idle", "accepted"}

Core == Alone /\ (\A d \in Deploys : Doing(d)) /\ Served /\ Kept /\ Named

LEMMA RecordsAreReal == \A r \in Records : r # NoFunction
<1>1. {0} \cup Numbers \subseteq Nat
  BY ReachedFinite DEF Numbers
<1>2. \A r \in Records : r \in [state : States, current : Nat]
  BY <1>1 DEF Records
<1>3. QED
  BY <1>2, RegistryAssumption

(* What a deploy under way meets: nobody else is deploying.                *)
LEMMA NobodyElse ==
  ASSUME SourceOnly, TypeInv, Core, NEW d \in Deploys, RegisterStep(d)
  PROVE  /\ Active(d) /\ building /\ phase = "serving" /\ ~PutImageReady(d)
         /\ \A e \in Deploys : e # d => ~Active(e) /\ pc'[e] = pc[e] /\ Doing(e)'
<1>1. TypeOK /\ Alone
  BY DEF TypeInv, Core
<1>2. Active(d) /\ phase = "serving" /\ ~PutImageReady(d)
  BY DEF RegisterStep, Refuse, ReadExisting, PutBuilding, Invalid, PutBuildRunning,
    BuildStarts, BuildSucceeds, BuildFails, PutBuildResult, PutFailed, PutRevision,
    SwapTemplate, ReadCurrent, PutReady, PruneSkips, PruneRemoves, PruneMarks,
    PruneEnds, Leave, PutImageReady, At, Active, BeforeSwitch, SourceOnly
<1>3. building
  BY <1>1, <1>2 DEF Alone
<1>4. ASSUME NEW e \in Deploys, e # d PROVE ~Active(e) /\ pc'[e] = pc[e] /\ Doing(e)'
  <2>1. ~Active(e)
    BY <1>1, <1>2, <1>4 DEF Alone
  <2>2. pc'[e] = pc[e]
    BY <1>1, <1>4, RegistersAdvance DEF Ops
  <2>3. QED
    BY <2>1, <2>2 DEF Active, BeforeSwitch, Doing
<1>5. QED
  BY <1>2, <1>3, <1>4

LEMMA RegisterCore ==
  ASSUME SourceOnly, TypeInv, Core, NEW d \in Deploys, RegisterStep(d)
  PROVE  Core'
<1>1. TypeOK /\ Placed /\ Alone /\ Doing(d) /\ Served /\ Kept /\ Named
  BY DEF TypeInv, Core
<1>2. Active(d) /\ building /\ phase = "serving" /\ ~PutImageReady(d)
      /\ \A e \in Deploys : e # d => ~Active(e) /\ pc'[e] = pc[e] /\ Doing(e)'
  BY NobodyElse
<1>3. Deletes = {} /\ ImageDeploys = {} /\ Ops = Deploys /\ d # Nobody
  BY Apart DEF SourceOnly, Ops
<1>4. phase' = phase /\ (Active(d)' => building')
  BY <1>1, <1>2, <1>3 DEF RegisterStep, Refuse, ReadExisting, PutBuilding, Invalid,
    PutBuildRunning, BuildStarts, BuildSucceeds, BuildFails, PutBuildResult, PutFailed,
    PutRevision, SwapTemplate, ReadCurrent, PutReady, PruneSkips, PruneRemoves,
    PruneMarks, PruneEnds, Leave, At, Goto, TypeOK, Active, BeforeSwitch, system, memory
<1>5. Alone'
  BY <1>1, <1>2, <1>4 DEF Alone, Active
<1>6. CurrentOf(rec) \in Nat /\ num[d] \in Numbers /\ num[d] \in Nat /\ CurrentOf(got[d]) \in Nat
      /\ CurrentOf(got[d]) \in {0} \cup Numbers
  BY <1>1, <1>3, CurrentType DEF TypeOK, Numbers
<1>7. Doing(d)' /\ Served' /\ Kept' /\ Named'
  <2>1. CASE Refuse(d)
    BY <1>1, <1>2, <1>3, <1>4, <1>6, <2>1 DEF Refuse, At, Goto, TypeOK, Doing,
      BeforeSwitch, stored, memory, locals, Served, Kept, Named, CurrentOf, Backed,
      WasReady
  <2>2. CASE ReadExisting(d)
    BY <1>1, <1>2, <1>3, <1>4, <1>6, <2>2 DEF ReadExisting, At, Goto, TypeOK, Doing,
      BeforeSwitch, stored, memory, locals, Served, Kept, Named, CurrentOf, Backed,
      WasReady, NextNumber
  <2>3. CASE PutBuilding(d)
    <3>1. rec' = [state |-> "Building", current |-> CurrentOf(got[d])]
      BY <2>3 DEF PutBuilding
    <3>2. rec' \in Records
      BY <1>6, <3>1 DEF Records, States
    <3>3. rec' # NoFunction
      BY <3>2, RecordsAreReal
    <3>4. QED
      BY <1>1, <1>2, <1>3, <1>4, <1>6, <2>3, <3>1, <3>2, <3>3 DEF PutBuilding, At, Goto,
        TypeOK, Doing, BeforeSwitch, stored, memory, locals, Served, Kept, Named,
        CurrentOf, Backed, WasReady
  <2>4. CASE Invalid(d)
    BY <1>1, <1>2, <1>3, <1>4, <1>6, <2>4 DEF Invalid, At, Goto, TypeOK, Doing,
      BeforeSwitch, stored, memory, locals, Served, Kept, Named, CurrentOf, Backed,
      WasReady
  <2>5. CASE PutBuildRunning(d)
    BY <1>1, <1>2, <1>3, <1>4, <1>6, <2>5 DEF PutBuildRunning, At, Goto, TypeOK, Doing,
      BeforeSwitch, stored, memory, locals, Served, Kept, Named, CurrentOf, Backed,
      WasReady
  <2>6. CASE BuildStarts(d)
    BY <1>1, <1>2, <1>3, <1>4, <1>6, <2>6 DEF BuildStarts, At, Goto, TypeOK, Doing,
      BeforeSwitch, stored, memory, locals, Served, Kept, Named, CurrentOf, Backed,
      WasReady
  <2>7. CASE BuildSucceeds(d)
    BY <1>1, <1>2, <1>3, <1>4, <1>6, <2>7 DEF BuildSucceeds, At, Goto, TypeOK, Doing,
      BeforeSwitch, stored, memory, locals, Served, Kept, Named, CurrentOf, Backed,
      WasReady
  <2>8. CASE BuildFails(d)
    BY <1>1, <1>2, <1>3, <1>4, <1>6, <2>8 DEF BuildFails, At, Goto, TypeOK, Doing,
      BeforeSwitch, stored, memory, locals, Served, Kept, Named, CurrentOf, Backed,
      WasReady
  <2>9. CASE PutBuildResult(d)
    BY <1>1, <1>2, <1>3, <1>4, <1>6, <2>9 DEF PutBuildResult, At, Goto, TypeOK, Doing,
      BeforeSwitch, stored, memory, locals, Served, Kept, Named, CurrentOf, Backed,
      WasReady
  <2>10. CASE PutFailed(d)
    <3>1. rec' = [state |-> IF WasReady(got[d]) THEN "Ready" ELSE "Failed",
                      current |-> CurrentOf(got[d])]
      BY <2>10 DEF PutFailed
    <3>2. rec' \in Records
      BY <1>6, <3>1 DEF Records, States
    <3>3. rec' # NoFunction
      BY <3>2, RecordsAreReal
    <3>4. QED
      BY <1>1, <1>2, <1>3, <1>4, <1>6, <2>10, <3>1, <3>2, <3>3 DEF PutFailed, At, Goto,
        TypeOK, Doing, BeforeSwitch, stored, memory, locals, Served, Kept, Named,
        CurrentOf, Backed, WasReady
  <2>11. CASE PutRevision(d)
    BY <1>1, <1>2, <1>3, <1>4, <1>6, <2>11 DEF PutRevision, At, Goto, TypeOK, Doing,
      BeforeSwitch, stored, memory, locals, Served, Kept, Named, CurrentOf, Backed,
      WasReady
  <2>12. CASE SwapTemplate(d)
    BY <1>1, <1>2, <1>3, <1>4, <1>6, <2>12 DEF SwapTemplate, At, Goto, TypeOK, Doing,
      BeforeSwitch, stored, memory, locals, Served, Kept, Named, CurrentOf, Backed,
      WasReady
  <2>13. CASE ReadCurrent(d)
    BY <1>1, <1>2, <1>3, <1>4, <1>6, <2>13 DEF ReadCurrent, At, Goto, TypeOK, Doing,
      BeforeSwitch, stored, memory, locals, Served, Kept, Named, CurrentOf, Backed,
      WasReady
  <2>14. CASE PutReady(d)
    <3>1. rec' = [state |-> "Ready", current |-> num[d]]
      BY <2>14 DEF PutReady
    <3>2. rec' \in Records
      BY <1>6, <3>1 DEF Records, States
    <3>3. rec' # NoFunction
      BY <3>2, RecordsAreReal
    <3>4. QED
      BY <1>1, <1>2, <1>3, <1>4, <1>6, <2>14, <3>1, <3>2, <3>3 DEF PutReady, At, Goto,
        TypeOK, Doing, BeforeSwitch, stored, memory, locals, Served, Kept, Named,
        CurrentOf, Backed, WasReady
  <2>15. CASE PruneSkips(d)
    BY <1>1, <1>2, <1>3, <1>4, <1>6, <2>15 DEF PruneSkips, At, Goto, TypeOK, Doing,
      BeforeSwitch, stored, memory, locals, Served, Kept, Named, CurrentOf, Backed,
      WasReady, KeptFrom
  <2>16. CASE PruneRemoves(d)
    BY <1>1, <1>2, <1>3, <1>4, <1>6, <2>16 DEF PruneRemoves, At, Goto, TypeOK, Doing,
      BeforeSwitch, stored, memory, locals, Served, Kept, Named, CurrentOf, Backed,
      WasReady, KeptFrom, Prunable
  <2>17. CASE PruneMarks(d)
    BY <1>1, <1>2, <1>3, <1>4, <1>6, <2>17 DEF PruneMarks, At, Goto, TypeOK, Doing,
      BeforeSwitch, stored, memory, locals, Served, Kept, Named, CurrentOf, Backed,
      WasReady, KeptFrom
  <2>18. CASE PruneEnds(d)
    BY <1>1, <1>2, <1>3, <1>4, <1>6, <2>18 DEF PruneEnds, At, Goto, TypeOK, Doing,
      BeforeSwitch, stored, memory, locals, Served, Kept, Named, CurrentOf, Backed,
      WasReady, KeptFrom
  <2>19. CASE Leave(d)
    BY <1>1, <1>2, <1>3, <1>4, <1>6, <2>19 DEF Leave, At, Goto, TypeOK, Doing,
      BeforeSwitch, stored, memory, locals, Served, Kept, Named, CurrentOf, Backed,
      WasReady
  <2>20. QED
    BY <1>2, <2>1, <2>2, <2>3, <2>4, <2>5, <2>6, <2>7, <2>8, <2>9, <2>10, <2>11, <2>12,
      <2>13, <2>14, <2>15, <2>16, <2>17, <2>18, <2>19 DEF RegisterStep
<1>8. QED
  BY <1>2, <1>5, <1>7 DEF Core

LEMMA AcceptCore == ASSUME SourceOnly, TypeInv, Core, NEW d \in Deploys, Accept(d) PROVE Core'
<1>1. TypeOK /\ Alone /\ Served /\ Kept /\ Named /\ Ops = Deploys
  BY DEF TypeInv, Core, SourceOnly, Ops
<1>2. UNCHANGED <<rec, revs, pruned, files, template, got, num, cut, copy, phase>>
  BY DEF Accept, stored, system
<1>3. pc[d] = "idle" /\ pc' = [pc EXCEPT ![d] = IF building THEN "rejected" ELSE "accepted"]
      /\ phase = "serving" /\ building' = TRUE
  BY <1>1 DEF Accept, At, Goto, TypeOK
<1>4. Alone'
  BY <1>1, <1>2, <1>3 DEF Alone, Active, BeforeSwitch, TypeOK
<1>5. ASSUME NEW e \in Deploys PROVE Doing(e)'
  BY <1>1, <1>2, <1>3 DEF Core, Doing, BeforeSwitch, TypeOK, CurrentOf, WasReady
<1>6. Served' /\ Kept'
  BY <1>1, <1>2, <1>3 DEF Served, Kept, Backed, WasReady, TypeOK
<1>7. Named'
  BY <1>1, <1>2, <1>3 DEF Named, TypeOK
<1>8. QED
  BY <1>4, <1>5, <1>6, <1>7 DEF Core

LEMMA CancelCore == ASSUME SourceOnly, TypeInv, Core, NEW d \in Deploys, Cancel(d) PROVE Core'
<1>1. TypeOK /\ Alone /\ Served /\ Kept /\ Named /\ Ops = Deploys
  BY DEF TypeInv, Core, SourceOnly, Ops
<1>2. UNCHANGED <<rec, revs, pruned, files, template, building, got, num, cut, copy, phase>>
  BY DEF Cancel, stored, memory, system
<1>3. pc' = [pc EXCEPT ![d] = "cancelled"] /\ pc[d] \notin {"reread", "switch"}
  BY DEF Cancel, Goto, Awaiting, SourceOnly
<1>4. Alone'
  BY <1>1, <1>2, <1>3 DEF Alone, Active, BeforeSwitch, TypeOK
<1>5. ASSUME NEW e \in Deploys PROVE Doing(e)'
  BY <1>1, <1>2, <1>3 DEF Core, Doing, BeforeSwitch, TypeOK, CurrentOf, WasReady
<1>6. Served' /\ Kept'
  BY <1>1, <1>2, <1>3 DEF Served, Kept, Backed, WasReady, TypeOK
<1>7. Named'
  BY <1>1, <1>2, <1>3 DEF Named, TypeOK
<1>8. QED
  BY <1>4, <1>5, <1>6, <1>7 DEF Core

(* While the host restarts no deploy is under way and there is no pool.    *)
LEMMA RestartCore == ASSUME SourceOnly, TypeInv, Core, Crash \/ RestoreStep PROVE Core'
<1>1. TypeOK /\ Alone /\ Served /\ Kept /\ Named /\ Ops = Deploys
  BY DEF TypeInv, Core, SourceOnly, Ops
<1>2. \A d \in Deploys : ~Active(d)'
  BY <1>1 DEF Crash, RestoreStep, FailBuild, FixFunction, BuildsReconciled, RestorePool,
    NothingToRestore, locals, Alone, Active, BeforeSwitch, EndSteps
<1>3. \A d \in Deploys : Doing(d)'
  BY <1>2 DEF Doing, Active, BeforeSwitch
<1>4. Alone'
  BY <1>1, <1>2 DEF Alone, Crash, RestoreStep, FailBuild, FixFunction, BuildsReconciled,
    RestorePool, NothingToRestore, memory
<1>5. CASE Crash
  <2>1. Served' /\ Kept'
    BY <1>1, <1>5 DEF Crash, Served, Kept, Backed, WasReady, stored
  <2>2. Named'
    BY <1>1, <1>5 DEF Crash, Named, TypeOK, EndSteps, stored
  <2>3. QED
    BY <1>3, <1>4, <2>1, <2>2 DEF Core
<1>6. CASE RestoreStep
  <2>1. num' = num /\ pc' = pc /\ revs' = revs /\ template = Nobody
    BY <1>1, <1>6 DEF RestoreStep, FailBuild, FixFunction, BuildsReconciled, RestorePool,
      NothingToRestore, locals, stored, Alone
  <2>2. Named'
    BY <1>1, <2>1 DEF Named
  <2>3. CASE FixFunction
    <3>1. UNCHANGED <<revs, pruned, files, template>> /\ phase' = "builds"
      BY <2>3 DEF FixFunction, memory
    <3>2. rec = NoFunction => rec' = NoFunction
      BY <2>3 DEF FixFunction
    <3>3. rec # NoFunction => rec \in Records /\ rec'.current = rec.current
            /\ (rec'.state = "Ready" => rec.current # 0)
      BY <1>1, <2>3 DEF FixFunction, TypeOK, Records
    <3>4. Served' /\ Kept'
      BY <1>1, <2>1, <3>1, <3>2, <3>3 DEF Served, Kept, Backed, WasReady
    <3>5. QED
      BY <1>3, <1>4, <2>2, <3>4 DEF Core
  <2>4. CASE (\E d \in Deploys : FailBuild(d)) \/ BuildsReconciled
    <3>1. UNCHANGED <<rec, revs, pruned, files, template>> /\ phase' # "serving"
      BY <2>4 DEF FailBuild, BuildsReconciled, stored, memory
    <3>2. Served' /\ Kept'
      BY <1>1, <2>1, <3>1 DEF Served, Kept, Backed, WasReady
    <3>3. QED
      BY <1>3, <1>4, <2>2, <3>2 DEF Core
  <2>5. CASE NothingToRestore
    <3>1. UNCHANGED <<rec, revs, pruned, files, template>> /\ ~WasReady(rec)
      BY <1>1, <2>5 DEF NothingToRestore, Restorable, stored, memory, Served, Kept, WasReady
    <3>2. Served' /\ Kept'
      BY <1>1, <2>1, <3>1 DEF Served, Kept, Backed, WasReady
    <3>3. QED
      BY <1>3, <1>4, <2>2, <3>2 DEF Core
  <2>6. CASE RestorePool
    <3>1. rec' = rec /\ template' = revs[rec.current] /\ WasReady(rec) /\ rec.current # 0
          /\ revs[rec.current] # Nobody
      BY <2>6 DEF RestorePool, Restorable
    <3>2. rec.current \in Numbers /\ rec.current \in Nat
      BY <1>1, <3>1 DEF TypeOK, WasReady, Records, Numbers
    <3>3. files'[rec.current] = files[rec.current]
          /\ (rec.current \in pruned' <=> rec.current \in pruned)
      BY <1>1, <2>6, <3>2 DEF RestorePool, KeptFrom, TypeOK
    <3>4. Backed(rec.current, revs[rec.current])
      BY <1>1, <3>1 DEF Kept, WasReady
    <3>5. Kept'
      BY <2>1, <3>1, <3>3, <3>4 DEF Kept, Backed
    <3>6. num[template'] = rec.current /\ pc[template'] \notin {"idle", "accepted"}
      BY <1>1, <3>1, <3>2 DEF Named
    <3>7. Served'
      BY <2>1, <3>1, <3>3, <3>4, <3>6 DEF Served, Backed, WasReady
    <3>8. QED
      BY <1>3, <1>4, <2>2, <3>5, <3>7 DEF Core
  <2>7. QED
    BY <1>6, <2>3, <2>4, <2>5, <2>6 DEF RestoreStep
<1>7. QED
  BY <1>5, <1>6

LEMMA InitCore == SourceOnly /\ Init => Core
BY Apart DEF Init, Core, Alone, Doing, Served, Kept, Named, Active, BeforeSwitch,
  WasReady, Ops

LEMMA NextCore == SourceOnly /\ TypeInv /\ Core /\ [Next]_vars => Core'
<1> SUFFICES ASSUME SourceOnly, TypeInv, Core, [Next]_vars PROVE Core'
  OBVIOUS
<1>1. CASE \E d \in Deploys : Accept(d) \/ RegisterStep(d)
  BY <1>1, AcceptCore, RegisterCore
<1>2. CASE \E o \in Ops : Cancel(o)
  BY <1>2, CancelCore DEF SourceOnly, Ops
<1>3. CASE Crash \/ RestoreStep
  BY <1>3, RestartCore
<1>4. CASE UNCHANGED vars
  BY <1>4 DEF vars, stored, memory, locals, system, Core, Alone, Doing, Served, Kept,
    Named, Active,
    BeforeSwitch, WasReady, CurrentOf, Backed
<1>5. QED
  BY <1>1, <1>2, <1>3, <1>4 DEF Next, SourceOnly

(* The name in `building` excludes a second deploy of the function, and so *)
(* all a deploy has read and written is as it left it, at each of its      *)
(* steps, through failed builds, lost clients, crashes and restarts.       *)
THEOREM DeployInvariant == ASSUME SourceOnly PROVE Spec => []Core
<1>1. Init => Core
  BY InitCore
<1>2. TypeInv /\ Core /\ [Next]_vars => Core'
  BY NextCore
<1>3. QED
  BY <1>1, <1>2, TypeInvariant, PTL DEF Spec

(* A Ready function can be restored from the disk at any time, for any     *)
(* number of source deploys and crashes.                                   *)
THEOREM ReadyCanBeRestored == ASSUME SourceOnly PROVE Spec => []ReadyIsBacked
<1>1. Core => ReadyIsBacked
  BY DEF Core, Kept, ReadyIsBacked
<1>2. QED
  BY <1>1, DeployInvariant, PTL

(* No prune and no later build touches the artifact the pool starts from.  *)
THEOREM TemplateKeepsArtifact == ASSUME SourceOnly PROVE Spec => []TemplateIsBacked
<1>1. Core => TemplateIsBacked
  BY DEF Core, Served, TemplateIsBacked
<1>2. QED
  BY <1>1, DeployInvariant, PTL

(* While requests are served a Ready function has a pool on its current    *)
(* revision, or one a redeploy has just swapped.                           *)
THEOREM ReadyIsServed == ASSUME SourceOnly PROVE Spec => []ReadyHasPool
<1>1. Core => ReadyHasPool
  BY DEF Core, Served, ReadyHasPool, Backed, WasReady
<1>2. QED
  BY <1>1, DeployInvariant, PTL

(* The number of the current revision never falls, and no revision up to   *)
(* it is overwritten: prunes mark, failed attempts repeat a later number.  *)
THEOREM HistoryIsKept == ASSUME SourceOnly PROVE Spec => HistoryKept
<1> DEFINE Past == rec # NoFunction /\ rec' # NoFunction =>
       rec'.current >= rec.current /\ \A n \in 1..rec.current : revs'[n] = revs[n]
<1>1. ASSUME TypeInv, Core, [Next]_vars, rec # NoFunction, rec' # NoFunction
      PROVE  rec'.current >= rec.current /\ \A n \in 1..rec.current : revs'[n] = revs[n]
  <2>1. TypeOK /\ Alone /\ rec.current \in Nat /\ CurrentOf(rec) = rec.current
        /\ rec.current <= Cardinality(Deploys) /\ Cardinality(Deploys) \in Nat
    BY <1>1, ReachedFinite DEF TypeInv, Core, TypeOK, Records, Numbers, CurrentOf
  <2>2. CASE \E d \in Deploys : RegisterStep(d)
    <3>1. PICK d \in Deploys : RegisterStep(d)
      BY <2>2
    <3>2. Doing(d) /\ Active(d) /\ ~PutImageReady(d) /\ num[d] \in Nat
      BY <1>1, <2>1, <3>1, NobodyElse, ReachedFinite DEF Core, TypeOK, Numbers
    <3>3. rec' = rec \/ rec'.current \in {rec.current, rec.current + 1}
      BY <2>1, <3>1, <3>2 DEF RegisterStep, Refuse, ReadExisting, PutBuilding, Invalid,
        PutBuildRunning, BuildStarts, BuildSucceeds, BuildFails, PutBuildResult,
        PutFailed, PutRevision, SwapTemplate, ReadCurrent, PutReady, PruneSkips,
        PruneRemoves, PruneMarks, PruneEnds, Leave, At, Doing, BeforeSwitch, stored,
        TypeOK
    <3>4. revs' = revs \/ revs' = [revs EXCEPT ![rec.current + 1] = d]
          \/ \E n \in Numbers : revs' = [revs EXCEPT ![n] = revs[n]]
      BY <2>1, <3>1, <3>2 DEF RegisterStep, Refuse, ReadExisting, PutBuilding, Invalid,
        PutBuildRunning, BuildStarts, BuildSucceeds, BuildFails, PutBuildResult,
        PutFailed, PutRevision, SwapTemplate, ReadCurrent, PutReady, PruneSkips,
        PruneRemoves, PruneMarks, PruneEnds, Leave, At, Doing, BeforeSwitch, stored,
        TypeOK
    <3>5. QED
      BY <2>1, <3>3, <3>4 DEF TypeOK, Numbers
  <2>3. CASE ~\E d \in Deploys : RegisterStep(d)
    <3>1. revs' = revs /\ (rec' = rec \/ rec'.current = rec.current)
      BY <1>1, <2>1, <2>3 DEF Next, Accept, Cancel, Crash, RestoreStep, FailBuild,
        FixFunction,
        BuildsReconciled, RestorePool, NothingToRestore, stored, vars, SourceOnly, TypeOK, Records
    <3>2. QED
      BY <2>1, <3>1
  <2>4. QED
    BY <2>2, <2>3
<1>2. TypeInv /\ Core /\ [Next]_vars => [Past]_vars
  BY <1>1
<1>3. QED
  BY <1>2, TypeInvariant, DeployInvariant, PTL DEF Spec, HistoryKept
-----------------------------------------------------------------------------
(* FR-007, for deploys of both kinds: while no delete has interfered and   *)
(* no crash tore two records apart, the deploy under way keeps the record  *)
(* it will write back if it fails, and the pool that record stands for.    *)
Undisturbed == ~torn /\ \A x \in Deletes : pc[x] \in {"idle", "rejected"}

Settled(r) == r # NoFunction => r.state = IF r.current = 0 THEN "Failed" ELSE "Ready"
OnDisk(r) == r # NoFunction /\ r.current # 0 => revs[r.current] # Nobody
InPool(r) == r # NoFunction /\ r.current # 0 => template = revs[r.current]
Safe(r) == Settled(r) /\ OnDisk(r) /\ InPool(r)

(* From the record of the attempt to that of its result.                   *)
BuildSteps == {"recorded", "registered", "build", "built", "broken", "fail"}
Attempting == BuildSteps \cup {"store", "activate", "reread", "switch"}

Revertible(d) ==
  /\ pc[d] \in {"read"} \cup BuildSteps => Safe(got[d])
  /\ pc[d] \in BuildSteps => d \notin ImageDeploys
  /\ pc[d] \in Attempting => rec # NoFunction
  /\ pc[d] \in {"registered", "build", "built", "broken"} => builds[d] = "running"
  /\ pc[d] \in Attempting \ BuildSteps /\ d \in ImageDeploys => rec.state = "Ready" /\ rec.current = num[d]
  /\ pc[d] \in {"activate", "reread", "switch"} => revs[num[d]] = d
  /\ pc[d] \in {"reread", "switch"} => template = d
  /\ pc[d] \in {"prune", "mark"} => rec # NoFunction /\ rec.current = num[d]

Deploying ==
  /\ \A d, e \in Deploys : Active(d) /\ Active(e) => d = e
  /\ \A d \in Deploys : (Active(d) => building /\ phase = "serving") /\ Revertible(d)
  /\ phase = "serving" /\ (\A d \in Deploys : pc[d] \notin Attempting) => Safe(rec)
  /\ (\A d \in ImageDeploys : pc[d] # "store") => OnDisk(rec)

(* A record restore() has yet to settle has a build it has yet to mark.    *)
Restoring ==
  /\ phase # "serving" => \A d \in listed : builds[d] = "running"
  /\ phase = "builds" /\ listed = {} => Settled(rec)
  /\ phase = "pools" => Settled(rec)

FallbackInv == Undisturbed => Deploying /\ Restoring

LEMMA InitFallback == Init => FallbackInv
BY DEF Init, FallbackInv, Deploying, Restoring, Revertible, Active, BeforeSwitch, Attempting,
  BuildSteps, Safe, Settled, OnDisk, InPool, Ops

(* Whoever disturbs the deploys goes on doing so.                          *)
LEMMA DisturbedStays ==
  ASSUME TypeInv, [Next]_vars, Undisturbed'
  PROVE  /\ Undisturbed /\ (Crash => ~Halfway)
         /\ \A x \in Deletes : ~DeleteStep(x)
<1>1. TypeOK
  BY DEF TypeInv
<1>3. ~torn /\ (Crash => ~Halfway)
  <2>1. CASE Crash
    BY <2>1 DEF Crash, Undisturbed
  <2>2. CASE ~Crash
    <3>1. torn' = torn
      BY <2>2 DEF Next, Accept, RegisterStep, Refuse, ReadExisting, PutBuilding, PutImageReady,
        Invalid, PutBuildRunning, BuildStarts, BuildSucceeds, BuildFails, PutBuildResult, PutFailed,
        PutRevision, SwapTemplate, ReadCurrent, PutReady, PruneSkips, PruneRemoves, PruneMarks,
        PruneEnds, Leave, FindFunction, DeleteStep, PutDeleting, TakePool, StopReturns, DeleteRecord,
        RemoveFiles, Cancel, RestoreStep, FailBuild, FixFunction, BuildsReconciled, RestorePool,
        NothingToRestore, system, vars
    <3> QED BY <2>2, <3>1 DEF Undisturbed
  <2> QED BY <2>1, <2>2
<1>4. ASSUME NEW x \in Deletes PROVE pc[x] \in {"idle", "rejected"}
  <2>0. pc'[x] \in {"idle", "rejected"}
    BY DEF Undisturbed
  <2>1. CASE \E d \in Deploys : Accept(d) \/ RegisterStep(d)
    BY <1>1, <2>0, <2>1, Apart, RegistersAdvance DEF Ops
  <2>2. CASE \E y \in Deletes : FindFunction(y) \/ DeleteStep(y)
    <3>1. PICK y \in Deletes : FindFunction(y) \/ DeleteStep(y)
      BY <2>2
    <3>2. pc'[y] # "idle" /\ (pc'[y] = "rejected" => pc[y] = "idle")
      BY <1>1, <3>1 DEF FindFunction, DeleteStep, PutDeleting, TakePool, StopReturns, DeleteRecord,
        RemoveFiles, At, Goto, TypeOK, Ops
    <3>3. \A z \in Deletes : z # y => pc'[z] = pc[z]
      BY <1>1, <3>1 DEF FindFunction, DeleteStep, PutDeleting, TakePool, StopReturns, DeleteRecord,
        RemoveFiles, At, Goto, TypeOK, Ops
    <3> QED BY <2>0, <3>2, <3>3
  <2>3. CASE (\E o \in Ops : Cancel(o)) \/ Crash \/ RestoreStep
    BY <1>1, <2>0, <2>3, OthersAdvance DEF Ops
  <2>4. CASE UNCHANGED vars
    BY <2>0, <2>4 DEF vars, locals
  <2> QED BY <2>1, <2>2, <2>3, <2>4 DEF Next
<1>5. ASSUME NEW x \in Deletes PROVE ~DeleteStep(x)
  BY <1>4 DEF DeleteStep, PutDeleting, TakePool, StopReturns, DeleteRecord, RemoveFiles, At
<1> QED BY <1>3, <1>4, <1>5 DEF Undisturbed

(* The deploy under way is alone, and its step keeps what it can return to.*)
LEMMA RegisterFallback ==
  ASSUME TypeInv, Deploying, NEW d \in Deploys, RegisterStep(d)
  PROVE  Deploying'
<1> USE DEF RegisterStep, Refuse, ReadExisting, PutBuilding, PutImageReady,
      Invalid, PutBuildRunning, BuildStarts, BuildSucceeds, BuildFails, PutBuildResult, PutFailed,
      PutRevision, SwapTemplate, ReadCurrent, PutReady, PruneSkips, PruneRemoves, PruneMarks,
      PruneEnds, Leave
<1>1. TypeOK /\ Placed
  BY DEF TypeInv
<1>2. /\ Active(d) /\ phase' = phase
      /\ building' = building \/ (pc[d] = "leave" /\ Goto(d, "done"))
      /\ \A e \in Deploys : e # d => pc'[e] = pc[e]
  <2>1. Active(d) /\ phase' = phase
    BY DEF At, Active, BeforeSwitch, system
  <2>2. building' = building \/ (pc[d] = "leave" /\ Goto(d, "done"))
    BY DEF At, memory
  <2> QED BY <1>1, <2>1, <2>2, RegistersAdvance DEF Ops
<1>3. \A e \in Deploys : e # d => ~Active(e) /\ ~Active(e)'
  BY <1>2 DEF Deploying, Active
<1>4. \A e \in Deploys : e # d => Revertible(e)'
  BY <1>3 DEF Revertible, Active, BeforeSwitch, Attempting, BuildSteps
<1>5. Active(d)' => building'
  BY <1>1, <1>2 DEF Deploying, Active, BeforeSwitch, Goto, TypeOK, Ops
<1>6. \A e \in Deploys : e # d => pc[e] \notin Attempting
  BY <1>3 DEF Active, BeforeSwitch, Attempting, BuildSteps
<1>7. /\ Revertible(d) /\ (pc[d] \notin Attempting => Safe(rec))
      /\ (d \in ImageDeploys => pc[d] # "store") => OnDisk(rec)
  BY <1>2, <1>6, RegistryAssumption DEF Deploying, Attempting
<1>8. num[d] \in Numbers /\ num[d] \in Nat /\ num[d] # 0 /\ CurrentOf(got[d]) \in {0} \cup Numbers
  BY <1>1, CurrentType DEF TypeOK, Ops, Numbers
<1>9. /\ Revertible(d)' /\ (pc'[d] \notin Attempting => Safe(rec)')
      /\ (d \in ImageDeploys => pc'[d] # "store") => OnDisk(rec)'
  <2> HIDE DEF RegisterStep
  <2>1. CASE Refuse(d)
    BY <1>1, <1>7, <2>1 DEF Revertible, Safe, Settled, OnDisk,
      InPool, Attempting, BuildSteps, At, Goto, TypeOK, Ops, stored, memory, locals
  <2>2. CASE ReadExisting(d)
    BY <1>1, <1>7, <2>2 DEF Revertible, Safe, Settled, OnDisk,
      InPool, Attempting, BuildSteps, At, Goto, TypeOK, Ops, stored, memory, locals
  <2>3. CASE PutBuilding(d)
    <3>1. rec' \in Records /\ rec' # NoFunction
      BY <1>1, <1>8, <2>3, RecordsAreReal DEF Records, States
    <3> QED BY <1>1, <1>7, <2>3, <3>1 DEF Revertible, Safe, Settled, OnDisk,
      InPool, Attempting, BuildSteps, At, Goto, TypeOK, Ops, stored, memory, locals, CurrentOf, WasReady
  <2>4. CASE PutImageReady(d)
    <3>1. rec' \in Records /\ rec' # NoFunction
      BY <1>1, <1>8, <2>4, RecordsAreReal DEF Records, States
    <3> QED BY <1>1, <1>7, <2>4, <3>1 DEF Revertible, Safe, Settled, OnDisk,
      InPool, Attempting, BuildSteps, At, Goto, TypeOK, Ops, stored, memory, locals, CurrentOf, WasReady
  <2>5. CASE Invalid(d)
    BY <1>1, <1>7, <2>5 DEF Revertible, Safe, Settled, OnDisk,
      InPool, Attempting, BuildSteps, At, Goto, TypeOK, Ops, stored, memory, locals
  <2>6. CASE PutBuildRunning(d)
    BY <1>1, <1>7, <2>6 DEF Revertible, Safe, Settled, OnDisk,
      InPool, Attempting, BuildSteps, At, Goto, TypeOK, Ops, stored, memory, locals
  <2>7. CASE BuildStarts(d)
    BY <1>1, <1>7, <2>7 DEF Revertible, Safe, Settled, OnDisk,
      InPool, Attempting, BuildSteps, At, Goto, TypeOK, Ops, stored, memory, locals
  <2>8. CASE BuildSucceeds(d)
    BY <1>1, <1>7, <2>8 DEF Revertible, Safe, Settled, OnDisk,
      InPool, Attempting, BuildSteps, At, Goto, TypeOK, Ops, stored, memory, locals
  <2>9. CASE BuildFails(d)
    BY <1>1, <1>7, <2>9 DEF Revertible, Safe, Settled, OnDisk,
      InPool, Attempting, BuildSteps, At, Goto, TypeOK, Ops, stored, memory, locals
  <2>10. CASE PutBuildResult(d)
    BY <1>1, <1>7, <2>10 DEF Revertible, Safe, Settled, OnDisk,
      InPool, Attempting, BuildSteps, At, Goto, TypeOK, Ops, stored, memory, locals
  <2>11. CASE PutFailed(d)
    <3>1. rec' \in Records /\ rec' # NoFunction
      BY <1>1, <1>8, <2>11, RecordsAreReal DEF Records, States
    <3> QED BY <1>1, <1>7, <2>11, <3>1 DEF Revertible, Safe, Settled, OnDisk,
      InPool, Attempting, BuildSteps, At, Goto, TypeOK, Ops, stored, memory, locals, CurrentOf, WasReady
  <2>12. CASE PutRevision(d)
    BY <1>1, <1>7, <1>8, <2>12, Apart DEF Revertible, Safe, Settled, OnDisk,
      InPool, Attempting, BuildSteps, At, Goto, TypeOK, Ops, stored, memory, locals
  <2>13. CASE SwapTemplate(d)
    BY <1>1, <1>7, <2>13 DEF Revertible, Safe, Settled, OnDisk,
      InPool, Attempting, BuildSteps, At, Goto, TypeOK, Ops, stored, memory, locals
  <2>14. CASE ReadCurrent(d)
    BY <1>1, <1>7, <2>14 DEF Revertible, Safe, Settled, OnDisk,
      InPool, Attempting, BuildSteps, At, Goto, TypeOK, Ops, stored, memory, locals
  <2>15. CASE PutReady(d)
    <3>1. rec' \in Records /\ rec' # NoFunction
      BY <1>1, <1>8, <2>15, RecordsAreReal DEF Records, States
    <3> QED BY <1>1, <1>7, <1>8, <2>15, <3>1, Apart DEF Revertible, Safe, Settled, OnDisk,
      InPool, Attempting, BuildSteps, At, Goto, TypeOK, Ops, stored, memory, locals, CurrentOf, WasReady
  <2>16. CASE PruneSkips(d)
    BY <1>1, <1>7, <2>16 DEF Revertible, Safe, Settled, OnDisk,
      InPool, Attempting, BuildSteps, At, Goto, TypeOK, Ops, stored, memory, locals
  <2>17. CASE PruneRemoves(d)
    BY <1>1, <1>7, <2>17 DEF Revertible, Safe, Settled, OnDisk,
      InPool, Attempting, BuildSteps, At, Goto, TypeOK, Ops, stored, memory, locals
  <2>18. CASE PruneMarks(d)
    <3>1. /\ rec # NoFunction /\ rec.current = num[d] /\ Safe(rec)
          /\ cut[d] < num[d] - 1 /\ num[d] \in Nat
      BY <1>1, <1>7, <1>8, <2>18 DEF Revertible, Attempting, BuildSteps, At, Placed
    <3>2. cut[d] # num[d]
      BY <1>1, <3>1 DEF TypeOK, Numbers
    <3>3. revs'[num[d]] = revs[num[d]]
      BY <1>1, <2>18, <3>2 DEF TypeOK
    <3>4. pc'[d] = "prune" /\ UNCHANGED <<rec, num, template>>
      BY <1>1, <2>18 DEF Goto, TypeOK, Ops, locals, memory
    <3>5. Safe(rec)'
      BY <3>1, <3>3, <3>4 DEF Safe, Settled, OnDisk, InPool
    <3> QED BY <3>1, <3>4, <3>5 DEF Revertible, Attempting, BuildSteps, Safe
  <2>19. CASE PruneEnds(d)
    BY <1>1, <1>7, <2>19 DEF Revertible, Safe, Settled, OnDisk,
      InPool, Attempting, BuildSteps, At, Goto, TypeOK, Ops, stored, memory, locals
  <2>20. CASE Leave(d)
    BY <1>1, <1>7, <2>20 DEF Revertible, Safe, Settled, OnDisk,
      InPool, Attempting, BuildSteps, At, Goto, TypeOK, Ops, stored, memory, locals
  <2> QED BY <2>1, <2>2, <2>3, <2>4, <2>5, <2>6, <2>7, <2>8, <2>9, <2>10, <2>11, <2>12, <2>13, <2>14, <2>15, <2>16, <2>17, <2>18, <2>19, <2>20 DEF RegisterStep
<1> QED BY <1>2, <1>3, <1>4, <1>5, <1>9 DEF Deploying

(* A crash leaves nobody to return to anything, and restore() something to *)
(* mark or a record that is settled.                                       *)
LEMMA CrashFallback ==
  ASSUME TypeInv, Deploying, Restoring, Crash, ~Halfway
  PROVE  Deploying' /\ Restoring'
<1>1. TypeOK
  BY DEF TypeInv
<1>2. /\ UNCHANGED <<rec, revs, builds>> /\ phase' = "builds"
      /\ listed' = {d \in Deploys : builds[d] = "running"}
  BY DEF Crash, stored
<1>3. \A d \in Deploys : pc'[d] \in {"idle", "lost"} \cup EndSteps
  BY DEF Crash, Ops
<1>4. \A d \in Deploys : ~Active(d)' /\ Revertible(d)'
  BY <1>3 DEF Active, BeforeSwitch, Revertible, Attempting, BuildSteps, EndSteps
<1>5. OnDisk(rec)'
  <2>1. \A d \in ImageDeploys : pc[d] # "store"
    BY RegistryAssumption DEF Halfway
  <2> QED BY <1>2, <2>1 DEF Deploying, OnDisk
<1>6. ASSUME listed' = {} PROVE Settled(rec)'
  <2>1. CASE \E d \in Deploys : pc[d] \in Attempting
    <3>1. PICK d \in Deploys : pc[d] \in Attempting
      BY <2>1
    <3>2. Revertible(d) /\ builds[d] # "running"
      BY <1>2, <1>6 DEF Deploying
    <3>3. d \in ImageDeploys /\ pc[d] \in Attempting \ BuildSteps
      BY <3>1, <3>2 DEF Revertible, Halfway, Attempting, BuildSteps
    <3>4. rec.state = "Ready" /\ rec.current = num[d] /\ num[d] # 0
      BY <1>1, <3>2, <3>3 DEF Revertible, TypeOK, Numbers
    <3> QED BY <1>2, <3>4 DEF Settled
  <2>2. CASE \A d \in Deploys : pc[d] \notin Attempting
    <3>1. phase # "function"
      BY DEF Halfway
    <3>2. CASE phase = "serving"
      BY <1>2, <2>2, <3>2 DEF Deploying, Safe, Settled
    <3>3. CASE phase # "serving"
      <4>1. phase = "builds" => listed = {}
        BY <1>1, <1>2, <1>6, <3>3 DEF Restoring, TypeOK
      <4> QED BY <1>1, <1>2, <3>1, <3>3, <4>1 DEF Restoring, Settled, TypeOK
    <3> QED BY <3>2, <3>3
  <2> QED BY <2>1, <2>2
<1> QED BY <1>2, <1>4, <1>5, <1>6 DEF Deploying, Restoring

LEMMA RestoreFallback ==
  ASSUME TypeInv, Deploying, Restoring, RestoreStep
  PROVE  Deploying' /\ Restoring'
<1>1. TypeOK /\ phase # "serving"
  BY DEF TypeInv, RestoreStep, FailBuild, FixFunction, BuildsReconciled, RestorePool, NothingToRestore
<1>2. pc' = pc /\ num' = num /\ got' = got /\ revs' = revs
  BY DEF RestoreStep, FailBuild, FixFunction, BuildsReconciled, RestorePool, NothingToRestore,
    locals, stored
<1>3. \A d \in Deploys : ~Active(d)
  BY <1>1 DEF Deploying
<1>4. /\ \A d \in Deploys : ~Active(d)' /\ Revertible(d)'
      /\ \A d \in Deploys : pc[d] # "store"
  BY <1>2, <1>3 DEF Active, BeforeSwitch, Revertible, Attempting, BuildSteps
<1>5. OnDisk(rec)
  BY <1>4, RegistryAssumption DEF Deploying
<1>6. ASSUME NEW d \in Deploys, FailBuild(d) PROVE Deploying' /\ Restoring'
  <2>1. phase' = "function" /\ rec' = rec
    BY <1>6 DEF FailBuild
  <2>2. \A e \in listed' : e # d /\ builds'[e] = builds[e] /\ e \in listed
    BY <1>1, <1>6 DEF FailBuild, TypeOK
  <2> QED BY <1>1, <1>2, <1>4, <1>5, <2>1, <2>2 DEF Deploying, Restoring, OnDisk
<1>7. CASE FixFunction
  <2>1. phase' = "builds" /\ listed' = listed /\ builds' = builds
    BY <1>7 DEF FixFunction
  <2>2. Settled(rec)' /\ OnDisk(rec)'
    <3>1. CASE rec = NoFunction
      BY <1>7, <3>1 DEF FixFunction, Settled, OnDisk
    <3>2. CASE rec # NoFunction
      <4>1. /\ rec \in Records
            /\ rec' = [rec EXCEPT !.state = IF rec.current # 0 THEN "Ready" ELSE "Failed"]
        BY <1>1, <1>7, <3>2 DEF FixFunction, TypeOK
      <4>2. rec'.current = rec.current /\ rec'.state = IF rec.current # 0 THEN "Ready" ELSE "Failed"
        BY <4>1 DEF Records
      <4> QED BY <1>2, <1>5, <3>2, <4>2 DEF Settled, OnDisk
    <3> QED BY <3>1, <3>2
  <2> QED BY <1>1, <1>4, <2>1, <2>2 DEF Deploying, Restoring
<1>8. CASE BuildsReconciled
  BY <1>1, <1>2, <1>4, <1>5, <1>8 DEF BuildsReconciled, stored, Deploying, Restoring, Settled, OnDisk
<1>9. CASE RestorePool
  <2>1. phase' = "serving" /\ rec' = rec /\ template' = revs[rec.current] /\ Settled(rec)
    BY <1>9 DEF RestorePool, Restoring
  <2>2. Safe(rec)'
    BY <1>2, <1>5, <2>1 DEF Safe, Settled, OnDisk, InPool
  <2> QED BY <1>4, <2>1, <2>2 DEF Deploying, Restoring, Safe
<1>10. CASE NothingToRestore
  <2>1. phase' = "serving" /\ rec' = rec /\ Settled(rec) /\ ~Restorable
    BY <1>10 DEF NothingToRestore, stored, Restoring
  <2>2. rec = NoFunction \/ rec.current = 0
    BY <1>5, <2>1 DEF Restorable, WasReady, Settled, OnDisk
  <2>3. Safe(rec)'
    BY <1>2, <2>1, <2>2 DEF Safe, Settled, OnDisk, InPool
  <2> QED BY <1>4, <2>1, <2>3 DEF Deploying, Restoring, Safe
<1> QED BY <1>6, <1>7, <1>8, <1>9, <1>10 DEF RestoreStep

LEMMA NextFallback ==
  ~Disconnects /\ TypeInv /\ FallbackInv /\ [Next]_vars => FallbackInv'
<1> SUFFICES ASSUME ~Disconnects, TypeInv, FallbackInv, [Next]_vars, Undisturbed'
             PROVE  Deploying' /\ Restoring'
  BY DEF FallbackInv
<1>1. /\ TypeOK /\ Undisturbed /\ Deploying /\ Restoring /\ (Crash => ~Halfway)
      /\ (\A x \in Deletes : ~DeleteStep(x))
  BY DisturbedStays DEF FallbackInv, TypeInv
<1>2. CASE \E d \in Deploys : Accept(d)
  <2>1. PICK d \in Deploys : Accept(d)
    BY <1>2
  <2>2. phase = "serving" /\ UNCHANGED <<rec, revs, builds, template, got, num, phase, listed>>
    BY <2>1 DEF Accept, At, stored, system
  <2>3. pc[d] = "idle" /\ pc' = [pc EXCEPT ![d] = IF building THEN "rejected" ELSE "accepted"]
        /\ building' = TRUE
    BY <1>1, <2>1 DEF Accept, At, Goto, TypeOK
  <2>4. /\ pc'[d] = IF building THEN "rejected" ELSE "accepted"
        /\ \A e \in Deploys : e # d => pc'[e] = pc[e]
    BY <1>1, <2>3 DEF TypeOK, Ops
  <2>5. \A e \in Deploys : Revertible(e)'
    BY <1>1, <2>2, <2>3, <2>4 DEF Deploying, Revertible, Safe, Settled, OnDisk, InPool, Attempting,
      BuildSteps
  <2>6. \A e, f \in Deploys : Active(e)' /\ Active(f)' => e = f
    BY <1>1, <2>3, <2>4 DEF Deploying, Active, BeforeSwitch
  <2>7. (\A e \in Deploys : pc'[e] \notin Attempting) => Safe(rec)'
    BY <1>1, <2>2, <2>3, <2>4 DEF Deploying, Attempting, BuildSteps, Safe, Settled, OnDisk, InPool
  <2>8. (\A e \in ImageDeploys : pc'[e] # "store") => OnDisk(rec)'
    <3>1. (\A e \in ImageDeploys : pc'[e] # "store") => \A e \in ImageDeploys : pc[e] # "store"
      BY <2>3, <2>4, RegistryAssumption
    <3> QED BY <1>1, <2>2, <3>1 DEF Deploying, OnDisk
  <2>9. Deploying'
    BY <2>2, <2>3, <2>5, <2>6, <2>7, <2>8 DEF Deploying
  <2> QED BY <2>2, <2>9 DEF Restoring
<1>3. CASE \E d \in Deploys : RegisterStep(d)
  <2>1. PICK d \in Deploys : RegisterStep(d)
    BY <1>3
  <2>2. phase' = "serving"
    BY <2>1 DEF RegisterStep, Refuse, ReadExisting, PutBuilding, PutImageReady,
      Invalid, PutBuildRunning, BuildStarts, BuildSucceeds, BuildFails, PutBuildResult, PutFailed,
      PutRevision, SwapTemplate, ReadCurrent, PutReady, PruneSkips, PruneRemoves, PruneMarks,
      PruneEnds, Leave, At, system
  <2> QED BY <1>1, <2>1, <2>2, RegisterFallback DEF Restoring
<1>4. CASE \E x \in Deletes : FindFunction(x)
  <2>1. PICK x \in Deletes : FindFunction(x)
    BY <1>4
  <2>2. /\ UNCHANGED <<rec, revs, builds, template, building, num, phase, listed>>
        /\ got' = [got EXCEPT ![x] = rec]
    BY <2>1 DEF FindFunction, stored, memory, system
  <2>3. \A d \in Deploys : pc'[d] = pc[d] /\ got'[d] = got[d]
    BY <1>1, <2>1, <2>2, Apart, DeletesAdvance DEF TypeOK, Ops
  <2>4. \A d \in Deploys : Revertible(d)' /\ Active(d)' = Active(d)
    BY <1>1, <2>2, <2>3 DEF Deploying, Revertible, Safe, Settled, OnDisk, InPool, Active
  <2>5. Safe(rec)' = Safe(rec) /\ OnDisk(rec)' = OnDisk(rec) /\ Settled(rec)' = Settled(rec)
    BY <2>2 DEF Safe, Settled, OnDisk, InPool
  <2>6. Deploying'
    BY <1>1, <2>2, <2>3, <2>4, <2>5, RegistryAssumption DEF Deploying
  <2> QED BY <1>1, <2>2, <2>5, <2>6 DEF Restoring
<1>5. CASE Crash
  BY <1>1, <1>5, CrashFallback
<1>6. CASE RestoreStep
  BY <1>1, <1>6, RestoreFallback
<1>7. CASE UNCHANGED vars
  <2>1. UNCHANGED <<rec, revs, builds, template, building, pc, got, num, phase, listed>>
    BY <1>7 DEF vars, stored, memory, locals, system
  <2> QED BY <1>1, <2>1 DEF Deploying, Restoring, Revertible, Safe, Settled, OnDisk, InPool, Active
<1>8. ~\E o \in Ops : Cancel(o)
  BY DEF Cancel
<1> QED BY <1>1, <1>2, <1>3, <1>4, <1>5, <1>6, <1>7, <1>8 DEF Next

(* A redeploy that fails, is refused or is invalid leaves the revision     *)
(* activated last Ready and in the pool, and a restart brings it back, for *)
(* any number of deploys of both kinds and of crashes outside the steps    *)
(* Halfway names, as long as the clients wait for the answer: a handler    *)
(* dropped during its build leaves the record at Building.                 *)
THEOREM FailuresAreHarmless == ASSUME ~Disconnects PROVE Spec => []FailedRedeployHarmless
<1>1. TypeInv /\ FallbackInv /\ [Next]_vars => FallbackInv'
  BY NextFallback
<1>2. TypeInv /\ FallbackInv => FailedRedeployHarmless
  <2> SUFFICES ASSUME TypeInv, FallbackInv, Idle, Undisturbed, rec # NoFunction
               PROVE  IF rec.current = 0 THEN rec.state = "Failed"
                      ELSE rec.state = "Ready" /\ template # Nobody /\ template = revs[rec.current]
    BY DEF FailedRedeployHarmless, Undisturbed
  <2>1. \A d \in Deploys : pc[d] \notin Attempting
    BY DEF Idle, Attempting, BuildSteps, EndSteps, Ops
  <2>2. Safe(rec)
    BY <2>1 DEF FallbackInv, Deploying, Idle
  <2> QED BY <2>2 DEF Safe, Settled, OnDisk, InPool
<1>3. QED
  BY <1>1, <1>2, InitFallback, TypeInvariant, PTL DEF Spec
-----------------------------------------------------------------------------
(* "Function names with a build currently running" is true of `building`   *)
(* as long as no client of the admin API goes away: whatever register()    *)
(* meets, it comes to remove the name, and a crash empties the set. An     *)
(* abandoned register() leaves the name there.                             *)
THEOREM NameHasDeploy == ASSUME ~Disconnects PROVE Spec => []BuildingIsRunning
<1> DEFINE Running(d) == pc[d] \in DeploySteps \ {"idle"}
<1>1. Init => BuildingIsRunning
  BY DEF Init, BuildingIsRunning
<1>2. TypeInv /\ BuildingIsRunning /\ [Next]_vars => BuildingIsRunning'
  <2> SUFFICES ASSUME TypeInv, BuildingIsRunning, [Next]_vars, building'
               PROVE  \E d \in Deploys : Running(d)'
    BY DEF BuildingIsRunning
  <2>0. TypeOK
    BY DEF TypeInv
  <2>1. ASSUME NEW d \in Deploys, Accept(d) \/ RegisterStep(d)
        PROVE  \E e \in Deploys : Running(e)'
    <3>1. CASE Accept(d)
      <4>1. CASE building
        <5>1. PICK e \in Deploys : Running(e)
          BY <4>1 DEF BuildingIsRunning
        <5>2. e # d /\ pc'[e] = pc[e]
          BY <2>0, <3>1, <4>1, <5>1, RegistersAdvance DEF Accept, At, Ops
        <5> QED BY <5>1, <5>2
      <4>2. CASE ~building
        <5>1. pc'[d] = "accepted"
          BY <2>0, <3>1, <4>2 DEF Accept, Goto, TypeOK, Ops
        <5> QED BY <5>1 DEF DeploySteps
      <4> QED BY <4>1, <4>2
    <3>2. CASE RegisterStep(d)
      <4>1. ~Leave(d)
        BY DEF Leave
      <4>2. pc'[d] \in DeploySteps \ {"idle"}
        BY <2>0, <3>2, <4>1 DEF RegisterStep, Refuse, ReadExisting, PutBuilding, PutImageReady, Invalid,
          PutBuildRunning, BuildStarts, BuildSucceeds, BuildFails, PutBuildResult, PutFailed,
          PutRevision, SwapTemplate, ReadCurrent, PutReady, PruneSkips, PruneRemoves, PruneMarks,
          PruneEnds, At, Goto, TypeOK, Ops, DeploySteps
      <4> QED BY <4>2
    <3> QED BY <2>1, <3>1, <3>2
  <2>2. ASSUME UNCHANGED building, \A d \in Deploys : pc'[d] = pc[d]
        PROVE  \E d \in Deploys : Running(d)'
    BY <2>2 DEF BuildingIsRunning
  <2>3. CASE \E x \in Deletes : FindFunction(x) \/ DeleteStep(x)
    <3>1. building' = building
      BY <2>3 DEF FindFunction, DeleteStep, PutDeleting, TakePool, StopReturns, DeleteRecord,
        RemoveFiles, memory
    <3> QED BY <2>0, <2>2, <2>3, <3>1, DeletesAdvance
  <2>4. ~(\E o \in Ops : Cancel(o)) /\ ~Crash
    BY DEF Cancel, Crash
  <2>5. CASE RestoreStep \/ UNCHANGED vars
    <3>1. pc' = pc /\ building' = building
      BY <2>5 DEF RestoreStep, FailBuild, FixFunction, BuildsReconciled, RestorePool,
        NothingToRestore, vars, memory, locals
    <3> QED BY <2>2, <3>1
  <2> QED BY <2>1, <2>3, <2>4, <2>5 DEF Next
<1>3. QED
  BY <1>1, <1>2, TypeInvariant, PTL DEF Spec
=============================================================================
