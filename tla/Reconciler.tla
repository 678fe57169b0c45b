----------------------------- MODULE Reconciler -----------------------------
(***************************************************************************)
(* The Pub/Sub trigger of one function: the Reconciler of                  *)
(* pubsub/reconcile.rs over the stored TriggerBinding and the push         *)
(* subscription open-pubusb keeps, driven by register() and delete() of    *)
(* registry/service.rs and by the retry sweep.                             *)
(*                                                                         *)
(* A call of open-pubusb or of the Store is one action. Nothing excludes   *)
(* the sweep, a register() and deletes from each other between two calls.  *)
(***************************************************************************)
EXTENDS Integers

CONSTANTS
  Registers,   \* calls of register(), each made once
  Deletes,     \* calls of delete(), each made once
  Sweep,       \* the task of spawn_retry_loop()
  Topics,      \* what a trigger may ask for: a topic and its push endpoint
  Missing,     \* those open-pubusb refuses for good, the topic does not exist
  HttpTrigger, \* a trigger without a topic
  Triggers,    \* the triggers the calls of register() ask for
  None,        \* no function, no binding, no subscription, no topic
  MaxFailures, \* bound on the calls of open-pubusb that get no good answer
  MaxCrashes,  \* bound on the number of crashes
  Disconnects  \* TRUE: clients of the admin API may go away

ASSUME ReconcilerAssumption ==
  /\ Registers \cap Deletes = {} /\ Sweep \notin Registers \cup Deletes
  /\ Missing \subseteq Topics
  /\ HttpTrigger \notin Topics /\ None \notin Topics \cup {HttpTrigger}
  /\ Triggers \subseteq Topics \cup {HttpTrigger}
  /\ MaxFailures \in Nat /\ MaxCrashes \in Nat
  /\ Disconnects \in BOOLEAN

VARIABLES
  trig,      \* the trigger in the function's record
  binding,   \* the stored TriggerBinding
  sub,       \* what the subscription at open-pubusb was created for
  pc,        \* where each operation is
  target,    \* the trigger of a register(), the topic an operation read
  out,       \* the binding an operation is about to store
  failures,
  crashes,
  calm       \* history: no two operations overlapped, none was cut short

vars == <<trig, binding, sub, pc, target, out, failures, crashes, calm>>

Ops == Registers \cup Deletes \cup {Sweep}
Retried == {"Pending", "Unbinding"}

(* `retry` is next_retry_at, compared with the time: a binding to be       *)
(* retried always has one.                                                 *)
Bindings ==
  [state : {"Pending"}, topic : Topics, retry : {"later", "due"}]
    \cup [state : {"Unbinding"}, topic : Topics \cup {None}, retry : {"later", "due"}]
    \cup [state : {"Bound", "Error"}, topic : Topics, retry : {"never"}]

Steps == {"idle", "create", "get", "remove", "recreate", "unbind", "unsubscribe", "forget",
          "put", "erase", "cancelled", "done"}

TypeOK ==
  /\ trig \in Topics \cup {HttpTrigger, None}
  /\ binding \in Bindings \cup {None}
  /\ sub \in Topics \cup {None}
  /\ pc \in [Ops -> Steps]
  /\ target \in [Ops -> Topics \cup {HttpTrigger, None}]
  /\ out \in [Ops -> Bindings \cup {None}]
  /\ failures \in 0..MaxFailures
  /\ crashes \in 0..MaxCrashes
  /\ calm \in BOOLEAN

Init ==
  /\ trig = None
  /\ binding = None
  /\ sub = None
  /\ pc = [o \in Ops |-> "idle"]
  /\ \E wanted \in [Registers -> Triggers] :
       target = [o \in Ops |-> IF o \in Registers THEN wanted[o] ELSE None]
  /\ out = [o \in Ops |-> None]
  /\ failures = 0
  /\ crashes = 0
  /\ calm = TRUE
-----------------------------------------------------------------------------
Busy(o) == pc[o] \notin {"idle", "cancelled", "done"}
Quiet == \A o \in Ops : ~Busy(o)

Goto(o, step) == pc' = [pc EXCEPT ![o] = step]

Begin(o, step) ==
  /\ Goto(o, step)
  /\ calm' = (calm /\ \A other \in Ops \ {o} : ~Busy(other))

(* The TriggerBinding try_bind() and try_unbind() make of their outcome.   *)
NewBindingUnscheduled(state, topic) == [state |-> state, topic |-> topic, retry |-> "never"]

NewBinding(state, topic) ==
  [state |-> state, topic |-> topic, retry |-> IF state \in Retried THEN "later" ELSE "never"]

Conclude(o, state) ==
  /\ out' = [out EXCEPT ![o] = NewBinding(state, target[o])]
  /\ Goto(o, "put")

(* open-pubusb cannot be reached, does not answer in time or answers 5xx:  *)
(* the call had its effect or it did not.                                  *)
CallFails(effect) ==
  /\ failures < MaxFailures
  /\ failures' = failures + 1
  /\ sub' \in {sub, effect}
-----------------------------------------------------------------------------
(* register() stores the record and calls bind_pubsub_trigger() if it has  *)
(* a topic. `building` admits one register() at a time, and none any more  *)
(* once a client has gone away during one.                                 *)
Register(r) ==
  /\ pc[r] = "idle"
  /\ \A other \in Registers : ~Busy(other) /\ pc[other] # "cancelled"
  /\ trig' = target[r]
  /\ IF target[r] \in Topics THEN Begin(r, "create") ELSE Goto(r, "done") /\ UNCHANGED calm
  /\ UNCHANGED <<binding, sub, target, out, failures, crashes>>

(* try_bind(): create_subscription() ...                                   *)
Created(o) ==
  /\ pc[o] \in {"create", "recreate"}
  /\ sub = None /\ target[o] \notin Missing
  /\ sub' = target[o]
  /\ Conclude(o, "Bound")
  /\ UNCHANGED <<trig, binding, target, failures, crashes, calm>>

(* ... or a 4xx other than 409, which is final ...                         *)
Refused(o) ==
  /\ pc[o] \in {"create", "recreate"}
  /\ target[o] \in Missing
  /\ Conclude(o, "Error")
  /\ UNCHANGED <<trig, binding, sub, target, failures, crashes, calm>>

CreateFails(o) ==
  /\ pc[o] \in {"create", "recreate"}
  /\ CallFails(IF sub = None /\ target[o] \notin Missing THEN target[o] ELSE sub)
  /\ Conclude(o, "Pending")
  /\ UNCHANGED <<trig, binding, target, crashes, calm>>

ConflictIsFinal(o) ==
  /\ pc[o] \in {"create", "recreate"}
  /\ sub # None
  /\ Conclude(o, "Error")
  /\ UNCHANGED <<trig, binding, sub, target, failures, crashes, calm>>

ConflictIsSuccess(o) ==
  /\ pc[o] \in {"create", "recreate"}
  /\ sub # None
  /\ Conclude(o, "Bound")
  /\ UNCHANGED <<trig, binding, sub, target, failures, crashes, calm>>

(* ... or 409: the subscription exists. After recreate's own delete that   *)
(* counts as transient.                                                    *)
Conflict(o) ==
  /\ pc[o] \in {"create", "recreate"}
  /\ sub # None
  /\ IF pc[o] = "create" THEN Goto(o, "get") /\ UNCHANGED out ELSE Conclude(o, "Pending")
  /\ UNCHANGED <<trig, binding, sub, target, failures, crashes, calm>>

(* get_subscription() and the comparison with what is desired; one that    *)
(* has vanished since is transient.                                        *)
Inspect(o) ==
  /\ pc[o] = "get"
  /\ \/ sub = target[o] /\ Conclude(o, "Bound")
     \/ sub = None /\ Conclude(o, "Pending")
     \/ sub \notin {target[o], None} /\ Goto(o, "remove") /\ UNCHANGED out
  /\ UNCHANGED <<trig, binding, sub, target, failures, crashes, calm>>

(* recreate_subscription(): delete, where 404 is fine too, then create.    *)
Remove(o) ==
  /\ pc[o] = "remove"
  /\ sub' = None
  /\ Goto(o, "recreate")
  /\ UNCHANGED <<trig, binding, target, out, failures, crashes, calm>>

InspectOrRemoveFails(o) ==
  /\ pc[o] \in {"get", "remove"}
  /\ CallFails(IF pc[o] = "remove" THEN None ELSE sub)
  /\ Conclude(o, "Pending")
  /\ UNCHANGED <<trig, binding, target, crashes, calm>>

(* What an operation does once its outcome is stored.                      *)
After(o) == IF o = Sweep THEN "idle" ELSE IF o \in Deletes THEN "erase" ELSE "done"

PutBinding(o) ==
  /\ pc[o] = "put"
  /\ binding' = out[o]
  /\ out' = [out EXCEPT ![o] = None]
  /\ Goto(o, After(o))
  /\ UNCHANGED <<trig, sub, target, failures, crashes, calm>>
-----------------------------------------------------------------------------
(* delete() of a function; only one with a topic is unbound.               *)
FindFunction(x) ==
  /\ pc[x] = "idle"
  /\ trig # None
  /\ Begin(x, IF trig \in Topics THEN "unbind" ELSE "erase")
  /\ UNCHANGED <<trig, binding, sub, target, out, failures, crashes>>

(* try_unbind(): get_binding(), delete_subscription(), where 404 is fine   *)
(* too, and delete_binding(); on any failure it is stored as Unbinding.    *)
ReadPrevious(o) ==
  /\ pc[o] = "unbind"
  /\ target' = [target EXCEPT ![o] = IF binding = None THEN None ELSE binding.topic]
  /\ Goto(o, "unsubscribe")
  /\ UNCHANGED <<trig, binding, sub, out, failures, crashes, calm>>

Unsubscribe(o) ==
  /\ pc[o] = "unsubscribe"
  /\ sub' = None
  /\ Goto(o, "forget")
  /\ UNCHANGED <<trig, binding, target, out, failures, crashes, calm>>

UnsubscribeGivesUp(o) ==
  /\ pc[o] = "unsubscribe"
  /\ CallFails(None)
  /\ Goto(o, "forget")
  /\ UNCHANGED <<trig, binding, target, out, crashes, calm>>

UnsubscribeFails(o) ==
  /\ pc[o] = "unsubscribe"
  /\ CallFails(None)
  /\ Conclude(o, "Unbinding")
  /\ UNCHANGED <<trig, binding, target, crashes, calm>>

DeleteBinding(o) ==
  /\ pc[o] = "forget"
  /\ binding' = None
  /\ Goto(o, After(o))
  /\ UNCHANGED <<trig, sub, target, out, failures, crashes, calm>>

DeleteFunction(x) ==
  /\ pc[x] = "erase"
  /\ trig' = None
  /\ Goto(x, "done")
  /\ UNCHANGED <<binding, sub, target, out, failures, crashes, calm>>
-----------------------------------------------------------------------------
BackoffOver ==
  /\ binding # None /\ binding.retry = "later"
  /\ binding' = [binding EXCEPT !.retry = "due"]
  /\ UNCHANGED <<trig, sub, pc, target, out, failures, crashes, calm>>

PendingIsDue == binding # None /\ binding.state = "Pending" /\ binding.retry # "later"

IsDue == binding # None /\ binding.state \in Retried /\ binding.retry # "later"

(* sweep_once() works on what list_bindings() returned, however long it    *)
(* takes to come to this function; it never looks at the record.           *)
ListBindings ==
  /\ pc[Sweep] = "idle"
  /\ IsDue
  /\ target' = [target EXCEPT ![Sweep] = binding.topic]
  /\ Begin(Sweep, IF binding.state = "Pending" THEN "create" ELSE "unbind")
  /\ UNCHANGED <<trig, binding, sub, out, failures, crashes>>

(* The process dies; the store and open-pubusb remain.                     *)
Crash ==
  /\ crashes < MaxCrashes
  /\ crashes' = crashes + 1
  /\ pc' = [o \in Ops |-> IF o = Sweep \/ pc[o] = "idle" THEN "idle" ELSE "done"]
  /\ out' = [o \in Ops |-> None]
  /\ calm' = FALSE
  /\ UNCHANGED <<trig, binding, sub, target, failures>>

(* The admin's client goes away and the handler is dropped at an await.    *)
Cancel(o) ==
  /\ Disconnects
  /\ pc[o] \in {"create", "get", "remove", "recreate", "unsubscribe"}
  /\ Goto(o, IF o \in Registers THEN "cancelled" ELSE "done")
  /\ calm' = FALSE
  /\ UNCHANGED <<trig, binding, sub, target, out, failures, crashes>>
-----------------------------------------------------------------------------
BindStep(o) ==
  \/ Created(o) \/ Refused(o) \/ CreateFails(o) \/ Conflict(o)
  \/ Inspect(o) \/ Remove(o) \/ InspectOrRemoveFails(o) \/ PutBinding(o)

UnbindStep(o) ==
  \/ ReadPrevious(o) \/ Unsubscribe(o) \/ UnsubscribeFails(o) \/ DeleteBinding(o)

OpStep(o) == BindStep(o) \/ UnbindStep(o)

Next ==
  \/ \E r \in Registers : Register(r)
  \/ \E x \in Deletes : FindFunction(x) \/ DeleteFunction(x)
  \/ ListBindings \/ BackoffOver
  \/ \E o \in Ops : OpStep(o)
  \/ \E o \in Registers \cup Deletes : Cancel(o)
  \/ Crash

Spec == Init /\ [][Next]_vars

(* Every call of open-pubusb has a timeout, the sweep ticks every five     *)
(* seconds and time passes. Requests, clients and crashes are not fair.    *)
Fairness ==
  /\ \A o \in Ops : WF_vars(OpStep(o))
  /\ \A x \in Deletes : WF_vars(DeleteFunction(x))
  /\ WF_vars(ListBindings) /\ WF_vars(BackoffOver)

FairSpec == Spec /\ Fairness
-----------------------------------------------------------------------------
(* A binding that is Bound stands for a subscription that was created for  *)
(* just that, though answers get lost and calls are repeated: unless       *)
(* operations overlapped or were cut short.                                *)
BoundIsSubscribed ==
  calm /\ Quiet /\ binding # None /\ binding.state = "Bound" => sub = binding.topic

(* Whatever fails on the way, a function ends up with a subscription for   *)
(* the topic its record asks for, and with the binding that says so.       *)
RecordIsBound ==
  <>[](calm /\ trig \in Topics \ Missing =>
         sub = trig /\ binding # None /\ binding.state = "Bound" /\ binding.topic = trig)

(* Once delete() unbinds, the subscription goes, if need be by the sweep,  *)
(* though the function's record is gone: unless it is registered again.    *)
DeletedIsUnsubscribed ==
  \A x \in Deletes : pc[x] = "unbind" ~> sub = None \/ trig \in Topics \/ ~calm

(* No binding is retried for ever, however registers, deletes, sweeps,     *)
(* crashes and lost answers mix.                                           *)
RetriesEnd ==
  binding # None /\ binding.state \in Retried ~> binding = None \/ binding.state \notin Retried
-----------------------------------------------------------------------------
(* What the documentation of the code says, and the code does not do.      *)

(* DesiredBinding: it is computed "from a `Function`'s current             *)
(* configuration"; so is, when nothing is under way, what is bound.        *)
BoundAsRecorded ==
  Quiet /\ binding # None /\ binding.state = "Bound" => trig = binding.topic

(* try_unbind: it deletes the subscription of a function "re-registered    *)
(* without a pubsub trigger".                                              *)
HttpIsUnsubscribed == Quiet /\ trig = HttpTrigger => sub = None
=============================================================================
