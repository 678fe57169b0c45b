-------------------------- MODULE Reconciler_proofs --------------------------
(***************************************************************************)
(* Proofs about Reconciler, for any number of calls, topics, failures and  *)
(* crashes: the types, and that a Bound binding tells the truth as long as *)
(* no two operations overlapped and none was cut short.                    *)
(***************************************************************************)
EXTENDS Reconciler, TLAPS

BindSteps == {"create", "get", "remove", "recreate"}

(* An operation that binds works on a topic, never on HttpTrigger or None. *)
TargetInv ==
  /\ \A o \in Ops : pc[o] \in BindSteps => target[o] \in Topics
  /\ \A o \in Ops : pc[o] = "unsubscribe" => target[o] \in Topics \cup {None}

(* While an operation has the subscription apart, the stored binding may   *)
(* be out of date; what the operation then stores never is. This takes     *)
(* that it is alone: another one's put_binding() would be out of date too. *)
Apart(o) == pc[o] \in {"recreate", "forget", "put"}

TruthInv ==
  calm =>
    /\ \A o, u \in Ops : Busy(o) /\ Busy(u) => o = u
    /\ binding # None /\ binding.state = "Bound"
         => sub = binding.topic \/ \E o \in Ops : Apart(o)
    /\ \A o \in Ops : pc[o] = "put" /\ out[o] # None /\ out[o].state = "Bound"
         => sub = out[o].topic

RecInv == TypeOK /\ TargetInv /\ TruthInv

(* None is no topic, and no binding.                                       *)
LEMMA NoneApart == None \notin Topics /\ HttpTrigger \notin Topics
BY ReconcilerAssumption

(* What try_bind() and try_unbind() make is a binding.                     *)
LEMMA NewBindingType ==
  /\ \A s \in {"Bound", "Error", "Pending"} : \A t \in Topics :
       /\ NewBinding(s, t) \in Bindings
       /\ NewBinding(s, t).state = s /\ NewBinding(s, t).topic = t
  /\ \A t \in Topics \cup {None} :
       NewBinding("Unbinding", t) \in Bindings /\ NewBinding("Unbinding", t).state = "Unbinding"
BY DEF NewBinding, Bindings, Retried

(* The fields of a binding have their types.                               *)
LEMMA BindingFields ==
  ASSUME NEW b \in Bindings
  PROVE  /\ b.topic \in Topics \cup {None}
         /\ b.state = "Pending" => b.topic \in Topics
         /\ b.retry = "later" => [b EXCEPT !.retry = "due"] \in Bindings
         /\ [b EXCEPT !.retry = "due"].state = b.state
         /\ [b EXCEPT !.retry = "due"].topic = b.topic
BY DEF Bindings

LEMMA InitRec == Init => RecInv
<1> SUFFICES ASSUME Init PROVE RecInv
  OBVIOUS
<1>1. TypeOK
  <2>1. PICK wanted \in [Registers -> Triggers] :
          target = [o \in Ops |-> IF o \in Registers THEN wanted[o] ELSE None]
    BY DEF Init
  <2>2. target \in [Ops -> Topics \cup {HttpTrigger, None}]
    BY <2>1, ReconcilerAssumption
  <2>3. QED
    BY <2>2, ReconcilerAssumption DEF Init, TypeOK, Steps
<1>2. TargetInv
  BY DEF Init, TargetInv, BindSteps
<1>3. TruthInv
  BY DEF Init, TruthInv, Busy
<1>4. QED
  BY <1>1, <1>2, <1>3 DEF RecInv
-----------------------------------------------------------------------------
(* The steps of an operation under way, each with what it does to the      *)
(* subscription, the binding and the outcome to be stored.                 *)
LEMMA OpStepRec ==
  ASSUME RecInv, NEW o \in Ops, OpStep(o)
  PROVE  RecInv'
<1>0. TypeOK /\ TargetInv /\ TruthInv
  BY DEF RecInv
<1> USE NoneApart
<1>1. ASSUME pc[o] \in BindSteps \cup {"unsubscribe"}, NEW s \in {"Bound", "Error", "Pending", "Unbinding"},
             Conclude(o, s), s = "Unbinding" <=> pc[o] = "unsubscribe",
             s = "Bound" => sub' = target[o],
             sub' \in Topics \cup {None}, failures' \in 0..MaxFailures,
             UNCHANGED <<trig, binding, target, crashes, calm>>
      PROVE  RecInv'
  <2>1. NewBinding(s, target[o]) \in Bindings /\ NewBinding(s, target[o]).state = s
        /\ (s = "Bound" => NewBinding(s, target[o]).topic = target[o])
    BY <1>0, <1>1, NewBindingType DEF TargetInv, BindSteps
  <2>2. TypeOK'
    BY <1>0, <1>1, <2>1 DEF Conclude, Goto, TypeOK, Steps
  <2>3. TargetInv'
    BY <1>0, <1>1 DEF Conclude, Goto, TypeOK, TargetInv, BindSteps
  <2>4. pc'[o] = "put" /\ out'[o] = NewBinding(s, target[o])
        /\ \A u \in Ops \ {o} : pc'[u] = pc[u] /\ out'[u] = out[u]
    BY <1>0, <1>1 DEF Conclude, Goto, TypeOK
  <2>5. Busy(o) /\ \A u \in Ops : Busy(u)' <=> Busy(u)
    BY <1>0, <1>1, <2>4 DEF Busy, BindSteps
  <2>6. TruthInv'
    <3> SUFFICES ASSUME calm'
                 PROVE  /\ \A u, v \in Ops : Busy(u)' /\ Busy(v)' => u = v
                        /\ \E u \in Ops : Apart(u)'
                        /\ \A u \in Ops : pc'[u] = "put" /\ out'[u] # None
                                            /\ out'[u].state = "Bound" => sub' = out'[u].topic
      BY DEF TruthInv
    <3>1. \A u, v \in Ops : Busy(u) /\ Busy(v) => u = v
      BY <1>0, <1>1 DEF TruthInv
    <3>2. \A u \in Ops : pc'[u] = "put" => u = o
      BY <2>4, <2>5, <3>1 DEF Busy
    <3>3. QED
      BY <1>1, <2>1, <2>4, <2>5, <3>1, <3>2 DEF Apart
  <2>7. QED
    BY <2>2, <2>3, <2>6 DEF RecInv
<1>2. ASSUME Busy(o), NEW s \in Steps, Goto(o, s), s \in BindSteps => target'[o] \in Topics,
             s = "unsubscribe" => target'[o] \in Topics \cup {None}, s # "put",
             UNCHANGED <<trig, failures, crashes, calm>>,
             \A u \in Ops \ {o} : target'[u] = target[u],
             target' \in [Ops -> Topics \cup {HttpTrigger, None}],
             out' \in [Ops -> Bindings \cup {None}], \A u \in Ops \ {o} : out'[u] = out[u],
             sub' \in Topics \cup {None}, binding' \in Bindings \cup {None},
             calm /\ binding' # None /\ binding'.state = "Bound"
               => sub' = binding'.topic \/ s \in {"recreate", "forget"}
      PROVE  RecInv'
  <2>1. TypeOK'
    BY <1>0, <1>2 DEF Goto, TypeOK
  <2>2. pc'[o] = s /\ \A u \in Ops \ {o} : pc'[u] = pc[u]
    BY <1>0, <1>2 DEF Goto, TypeOK
  <2>3. TargetInv'
    BY <1>0, <1>2, <2>2 DEF TargetInv
  <2>4. TruthInv'
    <3> SUFFICES ASSUME calm'
                 PROVE  /\ \A u, v \in Ops : Busy(u)' /\ Busy(v)' => u = v
                        /\ binding' # None /\ binding'.state = "Bound"
                             => sub' = binding'.topic \/ \E u \in Ops : Apart(u)'
                        /\ \A u \in Ops : pc'[u] # "put"
      BY DEF TruthInv
    <3>1. \A u \in Ops : Busy(u) => u = o
      BY <1>0, <1>2 DEF TruthInv
    <3>2. \A u \in Ops : Busy(u)' => u = o
      BY <2>2, <3>1 DEF Busy
    <3>3. \A u \in Ops : pc'[u] # "put"
      BY <1>2, <2>2, <3>1 DEF Busy
    <3>4. s \in {"recreate", "forget"} => Apart(o)'
      BY <2>2 DEF Apart
    <3>5. QED
      BY <1>2, <3>2, <3>3, <3>4
  <2>5. QED
    BY <2>1, <2>3, <2>4 DEF RecInv
(* If calm, nobody but o can have the subscription apart.                  *)
<1>3. calm /\ Busy(o) /\ ~Apart(o) /\ binding # None /\ binding.state = "Bound"
        => sub = binding.topic
  BY <1>0 DEF TruthInv, Busy, Apart
<1>4. CASE Created(o)
  BY <1>0, <1>1, <1>4 DEF Created, TypeOK, TargetInv, BindSteps
<1>5. CASE Refused(o)
  BY <1>0, <1>1, <1>5 DEF Refused, TypeOK, BindSteps
<1>6. CASE CreateFails(o)
  <2>1. target[o] \in Topics
    BY <1>0, <1>6 DEF CreateFails, TargetInv, BindSteps
  <2>2. sub' \in Topics \cup {None} /\ failures' \in 0..MaxFailures
    BY <1>0, <1>6, <2>1, ReconcilerAssumption DEF CreateFails, CallFails, TypeOK
  <2>3. QED
    BY <1>0, <1>1, <1>6, <2>2 DEF CreateFails, BindSteps
<1>7. CASE Conflict(o)
  <2>1. CASE pc[o] = "create"
    <3>1. Busy(o) /\ ~Apart(o) /\ target[o] \in Topics
      BY <1>0, <2>1 DEF Busy, Apart, TargetInv, BindSteps
    <3>2. QED
      BY <1>0, <1>2, <1>3, <1>7, <2>1, <3>1 DEF Conflict, TypeOK, Steps
  <2>2. CASE pc[o] = "recreate"
    BY <1>0, <1>1, <1>7, <2>2 DEF Conflict, TypeOK, BindSteps
  <2>3. QED
    BY <1>7, <2>1, <2>2 DEF Conflict
<1>8. CASE Inspect(o)
  <2>1. CASE sub = target[o] /\ Conclude(o, "Bound")
    BY <1>0, <1>1, <1>8, <2>1 DEF Inspect, TypeOK, BindSteps
  <2>2. CASE sub = None /\ Conclude(o, "Pending")
    BY <1>0, <1>1, <1>8, <2>2 DEF Inspect, TypeOK, BindSteps
  <2>3. CASE Goto(o, "remove") /\ UNCHANGED out
    <3>1. Busy(o) /\ ~Apart(o) /\ target[o] \in Topics
      BY <1>0, <1>8 DEF Inspect, Busy, Apart, TargetInv, BindSteps
    <3>2. QED
      BY <1>0, <1>2, <1>3, <1>8, <2>3, <3>1 DEF Inspect, TypeOK, Steps
  <2>4. QED
    BY <1>8, <2>1, <2>2, <2>3 DEF Inspect
<1>9. CASE Remove(o)
  <2>1. Busy(o) /\ target[o] \in Topics
    BY <1>0, <1>9 DEF Remove, Busy, TargetInv, BindSteps
  <2>2. QED
    BY <1>0, <1>2, <1>9, <2>1 DEF Remove, TypeOK, Steps
<1>10. CASE InspectOrRemoveFails(o)
  <2>1. sub' \in Topics \cup {None} /\ failures' \in 0..MaxFailures
    BY <1>0, <1>10, ReconcilerAssumption DEF InspectOrRemoveFails, CallFails, TypeOK
  <2>2. QED
    BY <1>0, <1>1, <1>10, <2>1 DEF InspectOrRemoveFails, BindSteps
<1>11. CASE PutBinding(o)
  <2>1. Busy(o) /\ After(o) \in Steps \ (BindSteps \cup {"unsubscribe", "put"})
    BY <1>11 DEF PutBinding, Busy, After, Steps, BindSteps
  <2>2. calm /\ binding' # None /\ binding'.state = "Bound" => sub' = binding'.topic
    BY <1>0, <1>11 DEF PutBinding, TruthInv
  <2>3. out' = [out EXCEPT ![o] = None] /\ binding' \in Bindings \cup {None}
    BY <1>0, <1>11 DEF PutBinding, TypeOK
  <2>4. QED
    BY <1>0, <1>2, <1>11, <2>1, <2>2, <2>3 DEF PutBinding, TypeOK
<1>12. CASE ReadPrevious(o)
  <2>1. Busy(o) /\ ~Apart(o)
    BY <1>12 DEF ReadPrevious, Busy, Apart
  <2>2. (IF binding = None THEN None ELSE binding.topic) \in Topics \cup {None}
    BY <1>0, BindingFields DEF TypeOK
  <2>3. target'[o] \in Topics \cup {None}
        /\ target' \in [Ops -> Topics \cup {HttpTrigger, None}]
        /\ \A u \in Ops \ {o} : target'[u] = target[u]
    BY <1>0, <1>12, <2>2 DEF ReadPrevious, TypeOK
  <2>4. QED
    BY <1>0, <1>2, <1>3, <1>12, <2>1, <2>3 DEF ReadPrevious, TypeOK, Steps, BindSteps
<1>13. CASE Unsubscribe(o)
  <2>1. Busy(o)
    BY <1>13 DEF Unsubscribe, Busy
  <2>2. QED
    BY <1>0, <1>2, <1>13, <2>1 DEF Unsubscribe, TypeOK, Steps, BindSteps
<1>14. CASE UnsubscribeFails(o)
  <2>1. sub' \in Topics \cup {None} /\ failures' \in 0..MaxFailures
    BY <1>0, <1>14, ReconcilerAssumption DEF UnsubscribeFails, CallFails, TypeOK
  <2>2. QED
    BY <1>0, <1>1, <1>14, <2>1 DEF UnsubscribeFails
<1>15. CASE DeleteBinding(o)
  <2>1. Busy(o) /\ After(o) \in Steps \ (BindSteps \cup {"unsubscribe", "put"})
    BY <1>15 DEF DeleteBinding, Busy, After, Steps, BindSteps
  <2>2. QED
    BY <1>0, <1>2, <1>15, <2>1 DEF DeleteBinding, TypeOK
<1>16. QED
  BY <1>4, <1>5, <1>6, <1>7, <1>8, <1>9, <1>10, <1>11, <1>12, <1>13, <1>14, <1>15
     DEF OpStep, BindStep, UnbindStep
-----------------------------------------------------------------------------
(* An operation begins: it remains calm only if it is alone, and then      *)
(* nobody has the subscription apart.                                      *)
LEMMA BeginRec ==
  ASSUME RecInv, NEW o \in Ops, ~Busy(o), NEW s \in {"create", "unbind", "erase"}, Begin(o, s),
         s = "create" => target'[o] \in Topics,
         target' \in [Ops -> Topics \cup {HttpTrigger, None}],
         \A u \in Ops \ {o} : target'[u] = target[u],
         trig' \in Topics \cup {HttpTrigger, None},
         UNCHANGED <<binding, sub, out, failures, crashes>>
  PROVE  RecInv'
<1>0. TypeOK /\ TargetInv /\ TruthInv
  BY DEF RecInv
<1>1. pc'[o] = s /\ \A u \in Ops \ {o} : pc'[u] = pc[u]
  BY <1>0 DEF Begin, Goto, TypeOK
<1>2. TypeOK'
  BY <1>0 DEF Begin, Goto, TypeOK, Steps
<1>3. TargetInv'
  BY <1>0, <1>1 DEF TargetInv, BindSteps
<1>4. ASSUME calm' PROVE calm /\ \A u \in Ops \ {o} : ~Busy(u) /\ ~Busy(u)'
  BY <1>1, <1>4 DEF Begin, Busy
<1>5. TruthInv'
  <2> SUFFICES ASSUME calm'
               PROVE  /\ \A u, v \in Ops : Busy(u)' /\ Busy(v)' => u = v
                      /\ binding # None /\ binding.state = "Bound" => sub = binding.topic
                      /\ \A u \in Ops : pc'[u] # "put"
    BY DEF TruthInv
  <2>1. \A u \in Ops : ~Apart(u)
    BY <1>4 DEF Apart, Busy
  <2>2. QED
    BY <1>0, <1>1, <1>4, <2>1 DEF TruthInv, Busy
<1>6. QED
  BY <1>2, <1>3, <1>5 DEF RecInv

(* Every step keeps the invariant.                                         *)
LEMMA NextRec == RecInv /\ [Next]_vars => RecInv'
<1> SUFFICES ASSUME RecInv, [Next]_vars PROVE RecInv'
  OBVIOUS
<1> USE NoneApart
<1>0. TypeOK /\ TargetInv /\ TruthInv
  BY DEF RecInv
<1>1. ASSUME NEW r \in Registers, Register(r) PROVE RecInv'
  <2>0. r \in Ops /\ ~Busy(r)
    BY <1>1 DEF Register, Ops, Busy
  <2>1. CASE target[r] \in Topics
    BY <1>0, <1>1, <2>0, <2>1, BeginRec DEF Register, TypeOK
  <2>2. CASE target[r] \notin Topics
    <3>1. Goto(r, "done")
          /\ UNCHANGED <<binding, sub, target, out, failures, crashes, calm>>
      BY <1>1, <2>2 DEF Register
    <3>2. pc'[r] = "done" /\ \A u \in Ops \ {r} : pc'[u] = pc[u]
      BY <1>0, <2>0, <3>1 DEF Goto, TypeOK
    <3>3. TypeOK'
      BY <1>0, <1>1, <2>0, <3>1 DEF Register, Goto, TypeOK, Steps
    <3>4. TargetInv'
      BY <1>0, <2>0, <3>1, <3>2 DEF TargetInv, BindSteps
    <3>5. \A u \in Ops : (Busy(u)' <=> Busy(u)) /\ (Apart(u)' <=> Apart(u))
                          /\ (pc'[u] = "put" => pc[u] = "put")
      BY <2>0, <3>2 DEF Busy, Apart
    <3>6. TruthInv'
      BY <1>0, <3>1, <3>5 DEF TruthInv
    <3>7. QED
      BY <3>3, <3>4, <3>6 DEF RecInv
  <2>3. QED
    BY <2>1, <2>2
<1>2. ASSUME NEW x \in Deletes, FindFunction(x) PROVE RecInv'
  <2>1. x \in Ops /\ ~Busy(x)
    BY <1>2 DEF FindFunction, Ops, Busy
  <2> DEFINE s == IF trig \in Topics THEN "unbind" ELSE "erase"
  <2>2. s \in {"create", "unbind", "erase"} /\ s # "create" /\ Begin(x, s)
    BY <1>2 DEF FindFunction
  <2> HIDE DEF s
  <2>3. QED
    BY <1>0, <1>2, <2>1, <2>2, BeginRec DEF FindFunction, TypeOK
<1>3. ASSUME NEW x \in Deletes, DeleteFunction(x) PROVE RecInv'
  <2>1. x \in Ops /\ pc'[x] = "done" /\ \A u \in Ops \ {x} : pc'[u] = pc[u]
    BY <1>0, <1>3 DEF DeleteFunction, Goto, Ops, TypeOK
  <2>2. TypeOK'
    BY <1>0, <1>3 DEF DeleteFunction, Goto, TypeOK, Steps
  <2>3. TargetInv'
    BY <1>0, <1>3, <2>1 DEF DeleteFunction, TargetInv, BindSteps
  <2>4. \A u \in Ops : (Busy(u)' => Busy(u)) /\ (Apart(u)' <=> Apart(u))
                        /\ (pc'[u] = "put" => pc[u] = "put")
    BY <1>3, <2>1 DEF DeleteFunction, Busy, Apart
  <2>5. TruthInv'
    BY <1>0, <1>3, <2>4 DEF DeleteFunction, TruthInv
  <2>6. QED
    BY <2>2, <2>3, <2>5 DEF RecInv
<1>4. CASE ListBindings
  <2>1. Sweep \in Ops /\ ~Busy(Sweep) /\ binding \in Bindings
    BY <1>0, <1>4 DEF ListBindings, IsDue, Ops, Busy, TypeOK
  <2> DEFINE s == IF binding.state = "Pending" THEN "create" ELSE "unbind"
  <2>2. s \in {"create", "unbind", "erase"} /\ Begin(Sweep, s)
        /\ (s = "create" => binding.topic \in Topics)
    BY <1>4, <2>1, BindingFields DEF ListBindings
  <2> HIDE DEF s
  <2>3. target'[Sweep] = binding.topic /\ binding.topic \in Topics \cup {None}
        /\ target' \in [Ops -> Topics \cup {HttpTrigger, None}]
        /\ \A u \in Ops \ {Sweep} : target'[u] = target[u]
    BY <1>0, <1>4, <2>1, BindingFields DEF ListBindings, TypeOK
  <2>4. QED
    BY <1>0, <1>4, <2>1, <2>2, <2>3, BeginRec DEF ListBindings, TypeOK
<1>5. CASE BackoffOver
  <2>1. binding \in Bindings /\ binding' \in Bindings
        /\ binding'.state = binding.state /\ binding'.topic = binding.topic
    BY <1>0, <1>5, BindingFields DEF BackoffOver, TypeOK
  <2>2. TypeOK' /\ TargetInv'
    BY <1>0, <1>5, <2>1 DEF BackoffOver, TypeOK, TargetInv
  <2>3. binding # None
    BY <1>5 DEF BackoffOver
  <2>4. TruthInv'
    BY <1>0, <1>5, <2>1, <2>3 DEF BackoffOver, TruthInv, Busy, Apart
  <2>5. QED
    BY <2>2, <2>4 DEF RecInv
<1>6. ASSUME NEW o \in Ops, OpStep(o) PROVE RecInv'
  BY <1>6, OpStepRec
<1>7. ASSUME NEW o \in Registers \cup Deletes, Cancel(o) PROVE RecInv'
  <2>1. TypeOK'
    BY <1>0, <1>7 DEF Cancel, Goto, TypeOK, Steps
  <2>2. TargetInv'
    BY <1>0, <1>7 DEF Cancel, Goto, TypeOK, TargetInv, BindSteps
  <2>3. QED
    BY <1>7, <2>1, <2>2 DEF Cancel, TruthInv, RecInv
<1>8. CASE Crash
  <2>0. pc' \in [Ops -> Steps] /\ out' \in [Ops -> Bindings \cup {None}]
        /\ crashes' \in 0..MaxCrashes
    <3>1. pc' \in [Ops -> Steps]
      BY <1>8 DEF Crash, Steps
    <3>2. out' \in [Ops -> Bindings \cup {None}]
      BY <1>8 DEF Crash
    <3>3. crashes' \in 0..MaxCrashes
      BY <1>0, <1>8, ReconcilerAssumption DEF Crash, TypeOK
    <3>4. QED
      BY <3>1, <3>2, <3>3
  <2>1. TypeOK'
    BY <1>0, <1>8, <2>0 DEF Crash, TypeOK
  <2>2. TargetInv'
    BY <1>0, <1>8 DEF Crash, TargetInv, BindSteps
  <2>3. QED
    BY <1>8, <2>1, <2>2 DEF Crash, TruthInv, RecInv
<1>9. CASE UNCHANGED vars
  BY <1>0, <1>9 DEF vars, RecInv, TypeOK, TargetInv, TruthInv, Busy, Apart
<1>10. QED
  BY <1>1, <1>2, <1>3, <1>4, <1>5, <1>6, <1>7, <1>8, <1>9 DEF Next
-----------------------------------------------------------------------------
(* In every reachable state the invariant holds.                           *)
THEOREM ReconcilerInvariant == Spec => []RecInv
<1>1. QED
  BY InitRec, NextRec, PTL DEF Spec

(* Every variable keeps its type; in particular a binding that is to be    *)
(* retried always has a time for it, and one that is not has none.         *)
THEOREM TypeCorrect == Spec => []TypeOK
<1>1. RecInv => TypeOK
  BY DEF RecInv
<1>2. QED
  BY <1>1, ReconcilerInvariant, PTL

(* As long as operations neither overlap nor are cut short, a Bound        *)
(* binding stands for a subscription created for just that topic, whatever *)
(* calls failed, took effect without an answer, or were repeated.          *)
THEOREM BoundTellsTheTruth == Spec => []BoundIsSubscribed
<1>1. RecInv => BoundIsSubscribed
  <2> SUFFICES ASSUME RecInv, calm, Quiet, binding # None, binding.state = "Bound"
               PROVE  sub = binding.topic
    BY DEF BoundIsSubscribed
  <2>1. \A o \in Ops : ~Apart(o)
    BY DEF Quiet, Busy, Apart
  <2>2. QED
    BY <2>1 DEF RecInv, TruthInv
<1>2. QED
  BY <1>1, ReconcilerInvariant, PTL
=============================================================================
