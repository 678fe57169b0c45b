----------------------------- MODULE Invocation -----------------------------
(***************************************************************************)
(* The invoke listener: an exchange from the request line to the answer,   *)
(* for client requests and for Pub/Sub push deliveries, next to deploys    *)
(* and deletes of the functions it calls. (server/invoke.rs, forward.rs,   *)
(* and the resolve, forward and pubsub/convert modules of the core.)       *)
(*                                                                         *)
(* The steps of an exchange end where the handler awaits: the pool map,    *)
(* acquire(), and the instance. What acquire() does inside is              *)
(* InstancePool's; here it grants an instance of the pool it was asked of, *)
(* or refuses.                                                             *)
(*                                                                         *)
(* A path is the sequence of its segments ("/" is <<"">>), a host that of  *)
(* the label before the suffix and the suffix, a header a sequence of      *)
(* lines of comma-separated tokens (<<>> is an absent header).             *)
(***************************************************************************)
EXTENDS Naturals, Sequences

CONSTANTS
  Clients,      \* exchanges of clients
  Deliveries,   \* push requests that open-pubusb may have in flight
  Functions,    \* valid names of functions
  Topics,
  Messages,
  Words,        \* labels of hosts, and segments of paths
  Tokens,       \* what headers are made of
  ClientRequests, \* the requests clients make
  Subscribers,  \* bound: the functions that are registered with a topic
  MaxDeploys,   \* bound on the number of registrations
  MixedTraffic, \* bound: whether clients call while messages are published;
                \* neither writes anything that the other reads
  None

ASSUME InvocationAssumption ==
  /\ MaxDeploys \in Nat
  /\ None \notin Functions \cup Messages \cup Topics
  /\ "http" \notin Topics
  /\ Subscribers \subseteq Functions

Exchanges == Clients \cup Deliveries

VARIABLES
  registrations,\* history: the function and the trigger of each
  record,       \* the stored record of each function, and its registration
  pools,        \* the pool in the registry's map, by the registration that
                \* created it (0: none)
  subscribed,   \* open-pubusb: the topic each function is subscribed to
  message,      \* open-pubusb: each message, until it is acked
  handled,      \* history: messages an instance answered 2xx to
  pc, request, carries, view, seen, answer

registry == <<registrations, record, pools>>
pubusb == <<subscribed, message, handled>>
exchange == <<pc, request, carries, view, seen, answer>>
vars == <<registrations, record, pools, subscribed, message, handled, pc,
          request, carries, view, seen, answer>>
-----------------------------------------------------------------------------
(* Routes (resolve/mod.rs)                                                 *)

NoMatch == [kind |-> "none"]
Suffix == "suffix"
RootPath == <<"">>

HostName(host) ==
  IF Len(host) = 2 /\ host[2] = Suffix /\ host[1] \in Functions THEN host[1] ELSE None

PushRoute(path) ==
  IF path[3] \in Functions THEN [kind |-> "push", name |-> path[3]] ELSE NoMatch

PathRoute(path) ==
  IF path # <<>> /\ path[1] \in Functions
  THEN [kind |-> "path", name |-> path[1],
        rest |-> IF Len(path) = 1 THEN RootPath ELSE Tail(path)]
  ELSE NoMatch

(* The host wins over everything, also over the reserved prefix, which is  *)
(* "/_cf/": the path "/_cf" is only not a name.                            *)
Resolve(host, path) ==
  IF HostName(host) # None THEN [kind |-> "host", name |-> HostName(host)]
  ELSE IF Len(path) < 2 \/ path[1] # "_cf" THEN PathRoute(path)
  ELSE IF Len(path) >= 3 /\ path[2] = "push" THEN PushRoute(path)
  ELSE NoMatch
-----------------------------------------------------------------------------
(* Headers (forward/mod.rs)                                                *)

ExecutionId == "function-execution-id"
ForwardedFor == "x-forwarded-for"
HopByHop == {"connection", "te"}
Headers == HopByHop \cup {ExecutionId, ForwardedFor, "x-forwarded-host", "x-custom"}
NoHeaders == [h \in Headers |-> <<>>]

Requests == [host: Seq(Words), path: Seq(Words), headers: [Headers -> Seq(Seq(Tokens))]]

ASSUME RequestAssumption ==
  /\ Functions \cup {"_cf", "push", "listener"} \subseteq Words
  /\ "client" \in Tokens
  /\ ClientRequests \subseteq Requests

TokensOf(lines) == UNION {{lines[k][j] : j \in DOMAIN lines[k]} : k \in DOMAIN lines}

StripHopByHop(hs) ==
  [h \in Headers |-> IF h \in HopByHop \cup TokensOf(hs["connection"]) THEN <<>> ELSE hs[h]]

(* get() answers the first line of a header, insert() replaces them all.   *)
AppendClient(lines, client) ==
  IF lines = <<>> THEN <<<<client>>>> ELSE <<Append(lines[1], client)>>

SetHost(hs, host) == IF host = <<>> THEN hs ELSE [hs EXCEPT !["x-forwarded-host"] = <<host>>]

StampRequest(hs, c, host) ==
  SetHost([hs EXCEPT ![ExecutionId] = <<<<c>>>>, ![ForwardedFor] = AppendClient(@, "client")], host)

RewriteRequestUnnamed(hs, c, host) == StripHopByHop(StampRequest(hs, c, host))
RewriteRequest(hs, c, host) == StampRequest(StripHopByHop(hs), c, host)

RewriteResponse(hs, c) == [StripHopByHop(hs) EXCEPT ![ExecutionId] = <<<<c>>>>]

MapOutcome(failure) ==
  CASE failure = "timeout" -> 504 [] failure = "refused" -> 502 [] failure = "reset" -> 500
-----------------------------------------------------------------------------
(* Push envelopes and CloudEvents (pubsub/convert.rs)                      *)

(* The JSON of a message: under which key its id is, its data, and its     *)
(* deliveryAttempt. A body without a message is refused like garbled data. *)
Envelopes ==
  {[id |-> "messageId", data |-> "base64", attempt |-> "absent"],
   [id |-> "message_id", data |-> "base64", attempt |-> "small"],
   [id |-> "messageId", data |-> "null", attempt |-> "over u32"],
   [id |-> "absent", data |-> "base64", attempt |-> "absent"],
   [id |-> "messageId", data |-> "garbled", attempt |-> "absent"]}

ParsesStrictly(e) == e.data = "base64"
Parses(e) == e.data # "garbled"

IdOf(m, e) == IF e.id \in {"messageId", "message_id"} THEN m ELSE None

ToCloudEvent(m, e, topic) ==
  [id |-> IdOf(m, e), source |-> topic, data |-> e.data,
   attempt |-> IF e.attempt = "over u32" THEN "absent" ELSE e.attempt]
-----------------------------------------------------------------------------
NoRecord == [state |-> "none", trigger |-> None, registration |-> 0]
Triggers == Topics \cup {"http"}
Records ==
  [state: {"building", "ready", "failed", "deleting"}, trigger: Triggers, registration: 1..MaxDeploys]
    \cup {NoRecord}

NoRequest == [host |-> <<>>, path |-> <<>>, headers |-> NoHeaders]
NoView == [route |-> NoMatch, trigger |-> None, pool |-> 0]
NotSeen == [function |-> None, path |-> <<>>, headers |-> NoHeaders, event |-> None]
NoAnswer == [status |-> 0, headers |-> NoHeaders]
Status(code) == [status |-> code, headers |-> NoHeaders]

PushRequest(f) == [NoRequest EXCEPT !.host = <<"listener">>, !.path = <<"_cf", "push", f>>]

ResponseHeaders ==
  {NoHeaders, [NoHeaders EXCEPT !["connection"] = <<<<ExecutionId>>>>, ![ExecutionId] = <<<<"theirs">>>>]}

Unpublished == [state |-> "none", to |-> None, topic |-> None, envelope |-> None]
Outstanding(m) == message[m].state = "pending"

Init ==
  /\ registrations = <<>>
  /\ record = [f \in Functions |-> NoRecord]
  /\ pools = [f \in Functions |-> 0]
  /\ subscribed = [f \in Functions |-> None]
  /\ message = [m \in Messages |-> Unpublished]
  /\ handled = {}
  /\ pc = [c \in Exchanges |-> "idle"]
  /\ request = [c \in Exchanges |-> NoRequest]
  /\ carries = [c \in Exchanges |-> None]
  /\ view = [c \in Exchanges |-> NoView]
  /\ seen = [c \in Exchanges |-> NotSeen]
  /\ answer = [c \in Exchanges |-> NoAnswer]
-----------------------------------------------------------------------------
(* Deploys and deletes, as far as the listener can tell (registry/         *)
(* service.rs). A registration stores its record as building, with the new *)
(* trigger; the pool there is stays, and serves the revision before again  *)
(* if the build fails.                                                     *)

Declare(f, t) ==
  /\ Len(registrations) < MaxDeploys
  /\ t = "http" \/ f \in Subscribers
  /\ record[f].state \in {"none", "ready", "failed"}
  /\ registrations' = Append(registrations, [function |-> f, trigger |-> t])
  /\ record' = [record EXCEPT ![f] =
       [state |-> "building", trigger |-> t, registration |-> Len(registrations) + 1]]
  /\ UNCHANGED <<pools, pubusb, exchange>>

(* The subscription comes after the record: with the registration, or as   *)
(* late as a retry of the reconciler. Until then the one before delivers.  *)
Bind(f) ==
  /\ record[f].trigger \in Topics
  /\ subscribed' = [subscribed EXCEPT ![f] = record[f].trigger]
  /\ UNCHANGED <<registry, message, handled, exchange>>

Activate(f) ==
  /\ record[f].state = "building"
  /\ record' = [record EXCEPT ![f].state = "ready"]
  /\ pools' = IF pools[f] # 0 THEN pools ELSE [pools EXCEPT ![f] = record[f].registration]
  /\ UNCHANGED <<registrations, pubusb, exchange>>

FailBuild(f) ==
  /\ record[f].state = "building"
  /\ record' = [record EXCEPT ![f].state = IF pools[f] # 0 THEN "ready" ELSE "failed"]
  /\ UNCHANGED <<registrations, pools, pubusb, exchange>>

MarkDeleting(f) ==
  /\ record[f].state \in {"ready", "failed"}
  /\ record' = [record EXCEPT ![f].state = "deleting"]
  /\ UNCHANGED <<registrations, pools, pubusb, exchange>>

RemovePool(f) ==
  /\ record[f].state = "deleting" /\ pools[f] # 0
  /\ pools' = [pools EXCEPT ![f] = 0]
  /\ UNCHANGED <<registrations, record, pubusb, exchange>>

(* An unbind that fails leaves the subscription behind.                    *)
FinishDelete(f) ==
  /\ record[f].state = "deleting" /\ pools[f] = 0
  /\ record' = [record EXCEPT ![f] = NoRecord]
  /\ \/ UNCHANGED subscribed
     \/ record[f].trigger \in Topics /\ subscribed' = [subscribed EXCEPT ![f] = None]
  /\ UNCHANGED <<registrations, pools, message, handled, exchange>>
-----------------------------------------------------------------------------
(* Requests come in. open-pubusb sends an outstanding message again, also  *)
(* while an earlier delivery of it is under way.                           *)

Publish(m, f, e) ==
  /\ message[m].state = "none" /\ subscribed[f] # None
  /\ MixedTraffic \/ \A c \in Clients : pc[c] = "idle"
  /\ message' = [message EXCEPT ![m] =
       [state |-> "pending", to |-> f, topic |-> subscribed[f], envelope |-> e]]
  /\ UNCHANGED <<registry, subscribed, handled, exchange>>

Arrive(c, r) ==
  /\ c \in Clients /\ pc[c] = "idle"
  /\ MixedTraffic \/ \A m \in Messages : message[m].state = "none"
  /\ pc' = [pc EXCEPT ![c] = "arrived"]
  /\ request' = [request EXCEPT ![c] = r]
  /\ UNCHANGED <<registry, pubusb, carries, view, seen, answer>>

Deliver(c, m) ==
  /\ c \in Deliveries /\ pc[c] = "idle"
  /\ Outstanding(m) /\ subscribed[message[m].to] = message[m].topic
  /\ pc' = [pc EXCEPT ![c] = "arrived"]
  /\ request' = [request EXCEPT ![c] = PushRequest(message[m].to)]
  /\ carries' = [carries EXCEPT ![c] = m]
  /\ UNCHANGED <<registry, pubusb, view, seen, answer>>
-----------------------------------------------------------------------------
(* The handler                                                             *)

Answer(c, a) ==
  /\ pc' = [pc EXCEPT ![c] = "answered"]
  /\ answer' = [answer EXCEPT ![c] = a]

RouteOf(c) == Resolve(request[c].host, request[c].path)
IsPush(c) == view[c].route.kind = "push"
Envelope(c) == message[carries[c]].envelope

(* What handle() and handle_push() answer before they await anything, in   *)
(* the order of their tests; 0 when they go on. Without a message the body *)
(* of a push is not an envelope.                                           *)
Refusal(c) ==
  LET route == RouteOf(c)
      rec == record[route.name]
      push == route.kind = "push"
  IN CASE route.kind = "none" -> 404
       [] push /\ (carries[c] = None \/ ~Parses(Envelope(c))) -> 400
       [] OTHER -> CASE rec.state = "none" -> 404
                     [] push /\ rec.trigger = "http" -> 400
                     [] rec.state # "ready" /\ ~(push /\ rec.trigger = "http") -> 503
                     [] OTHER -> 0

Admit(c) ==
  /\ pc[c] = "arrived"
  /\ IF Refusal(c) # 0
     THEN Answer(c, Status(Refusal(c))) /\ UNCHANGED view
     ELSE /\ pc' = [pc EXCEPT ![c] = "admitted"]
          /\ view' = [view EXCEPT ![c].route = RouteOf(c), ![c].trigger = record[RouteOf(c).name].trigger]
          /\ UNCHANGED answer
  /\ UNCHANGED <<registry, pubusb, request, carries, seen>>

LookupUnchecked(c) ==
  /\ pc[c] = "admitted"
  /\ pc' = [pc EXCEPT ![c] = "acquiring"]
  /\ view' = [view EXCEPT ![c].pool = pools[view[c].route.name]]
  /\ UNCHANGED <<registry, pubusb, request, carries, seen, answer>>

Lookup(c) ==
  /\ pc[c] = "admitted"
  /\ LET pool == pools[view[c].route.name] IN
       IF pool = 0
       THEN Answer(c, Status(503)) /\ UNCHANGED view
       ELSE /\ pc' = [pc EXCEPT ![c] = "acquiring"]
            /\ view' = [view EXCEPT ![c].pool = pool]
            /\ UNCHANGED answer
  /\ UNCHANGED <<registry, pubusb, request, carries, seen>>

(* acquire() fails: the queue is full or the wait too long, the pool is    *)
(* being drained, or the instance cannot be started.                       *)
NotAcquired(c) ==
  /\ pc[c] = "acquiring"
  /\ \E s \in {429, 503} \cup (IF IsPush(c) THEN {} ELSE {502}) : Answer(c, Status(s))
  /\ UNCHANGED <<registry, pubusb, request, carries, view, seen>>

ForwardedPath(c) ==
  CASE view[c].route.kind = "path" -> view[c].route.rest
    [] view[c].route.kind = "host" -> request[c].path
    [] view[c].route.kind = "push" -> RootPath

(* acquire() grants an instance of the pool the handler holds, which a     *)
(* delete may have removed and drained since: neither a free slot nor a    *)
(* finished start asks whether it has. The request is rewritten and sent;  *)
(* a push becomes a request of its own.                                    *)
Forward(c) ==
  /\ pc[c] = "acquiring"
  /\ pc' = [pc EXCEPT ![c] = "sent"]
  /\ seen' = [seen EXCEPT ![c] =
       [function |-> registrations[view[c].pool].function,
        path |-> ForwardedPath(c),
        headers |-> IF IsPush(c) THEN RewriteRequest(NoHeaders, c, <<>>)
                    ELSE RewriteRequest(request[c].headers, c, request[c].host),
        event |-> IF IsPush(c) THEN ToCloudEvent(carries[c], Envelope(c), view[c].trigger) ELSE None]]
  /\ UNCHANGED <<registry, pubusb, request, carries, view, answer>>

PushStatusAlways(status) == 204
PushStatus(status) == IF status = 200 THEN 204 ELSE status

InstanceAnswers(c, status, hs) ==
  /\ pc[c] = "sent"
  /\ IF IsPush(c)
     THEN /\ Answer(c, Status(PushStatus(status)))
          /\ handled' = IF status = 200 THEN handled \cup {carries[c]} ELSE handled
     ELSE /\ Answer(c, [status |-> status, headers |-> RewriteResponse(hs, c)])
          /\ UNCHANGED handled
  /\ UNCHANGED <<registry, subscribed, message, request, carries, view, seen>>

ForwardFails(c, failure) ==
  /\ pc[c] = "sent"
  /\ Answer(c, IF IsPush(c) THEN Status(MapOutcome(failure))
               ELSE [status |-> MapOutcome(failure),
                     headers |-> [NoHeaders EXCEPT ![ExecutionId] = <<<<c>>>>]])
  /\ UNCHANGED <<registry, pubusb, request, carries, view, seen>>

Over(c) ==
  /\ pc' = [pc EXCEPT ![c] = "idle"]
  /\ request' = [request EXCEPT ![c] = NoRequest]
  /\ carries' = [carries EXCEPT ![c] = None]
  /\ view' = [view EXCEPT ![c] = NoView]
  /\ seen' = [seen EXCEPT ![c] = NotSeen]
  /\ answer' = [answer EXCEPT ![c] = NoAnswer]

(* The answer arrives; to open-pubusb, a 2xx acknowledges the message.     *)
Return(c) ==
  /\ pc[c] = "answered"
  /\ message' = IF carries[c] # None /\ answer[c].status \div 100 = 2
                THEN [message EXCEPT ![carries[c]].state = "acked"] ELSE message
  /\ Over(c)
  /\ UNCHANGED <<registry, subscribed, handled>>

(* The caller goes away, and the handler is dropped; or the answer is lost.*)
Abandon(c) ==
  /\ pc[c] # "idle"
  /\ Over(c)
  /\ UNCHANGED <<registry, pubusb>>
-----------------------------------------------------------------------------
Registry(f) ==
  \/ \E t \in Triggers : Declare(f, t)
  \/ Bind(f) \/ Activate(f) \/ FailBuild(f) \/ MarkDeleting(f) \/ RemovePool(f) \/ FinishDelete(f)

Handle(c) ==
  \/ Admit(c) \/ Lookup(c) \/ NotAcquired(c) \/ Forward(c)
  \/ \E status \in {200, 500}, hs \in ResponseHeaders : InstanceAnswers(c, status, hs)
  \/ \E failure \in {"timeout", "refused", "reset"} : ForwardFails(c, failure)
  \/ Return(c) \/ Abandon(c)

Next ==
  \/ \E f \in Functions : Registry(f)
  \/ \E m \in Messages, f \in Functions, e \in Envelopes : Publish(m, f, e)
  \/ \E c \in Clients, r \in ClientRequests : Arrive(c, r)
  \/ \E c \in Deliveries, m \in Messages : Deliver(c, m)
  \/ \E c \in Exchanges : Handle(c)

Spec == Init /\ [][Next]_vars

(* open-pubusb keeps delivering what is not acked. It may give up on a     *)
(* delivery again and again, a pool may refuse, and a function may fail;   *)
(* none of them does so every time it is asked, hence SF: a handler that   *)
(* is not dropped gets on, some delivery finds an instance, and one of     *)
(* those that reach it is answered 2xx and returns.                        *)
Acknowledge(c) == answer[c].status = 204 /\ Return(c)

Fairness ==
  /\ \A c \in Deliveries : WF_vars(NotAcquired(c) \/ Forward(c)) /\ WF_vars(Return(c))
  /\ \A m \in Messages :
       /\ SF_vars(\E c \in Deliveries : Deliver(c, m))
       /\ SF_vars(\E c \in Deliveries : carries[c] = m /\ Admit(c))
       /\ SF_vars(\E c \in Deliveries : carries[c] = m /\ Lookup(c))
       /\ SF_vars(\E c \in Deliveries : carries[c] = m /\ Forward(c))
       /\ SF_vars(\E c \in Deliveries : carries[c] = m /\ InstanceAnswers(c, 200, NoHeaders))
       /\ SF_vars(\E c \in Deliveries : carries[c] = m /\ Acknowledge(c))

FairSpec == Spec /\ Fairness
-----------------------------------------------------------------------------
PCs == {"idle", "arrived", "admitted", "acquiring", "sent", "answered"}
Events == [id: Messages \cup {None}, source: Triggers, data: {"base64", "null"}, attempt: {"absent", "small"}]

(* Types; what an exchange knows follows how far it has come: only one     *)
(* that was sent, and was not refused before, has reached an instance.     *)
TypeOK ==
  /\ Len(registrations) <= MaxDeploys
  /\ record \in [Functions -> Records]
  /\ pools \in [Functions -> 0..MaxDeploys]
  /\ subscribed \in [Functions -> Topics \cup {None}]
  /\ handled \subseteq Messages
  /\ pc \in [Exchanges -> PCs]
  /\ carries \in [Exchanges -> Messages \cup {None}]
  /\ \A c \in Exchanges :
       /\ pc[c] \in {"admitted", "acquiring", "sent"} => view[c].route.name \in Functions
       /\ pc[c] \in {"acquiring", "sent"} => view[c].pool # 0
       /\ pc[c] = "sent" => seen[c].event \in Events \cup {None}

TopicsOf(f) ==
  {registrations[n].trigger : n \in {k \in DOMAIN registrations : registrations[k].function = f}} \ {"http"}

(* What an instance gets is what was sent to its function: a request by    *)
(* host comes with its path whole, one by path without the function's own  *)
(* segment, and a push is the message, its id found under either spelling, *)
(* if there is one, and its attempt told only where it fits. Its source is *)
(* the topic of the record that admitted it: the message's own, where the  *)
(* function has been registered for no other.                              *)
Faithful(c) ==
  LET s == seen[c]
      m == message[carries[c]]
  IN
  IF carries[c] # None
  THEN /\ s.function = m.to
       /\ s.event.id = IF m.envelope.id = "absent" THEN None ELSE carries[c]
       /\ {s.event.source, m.topic} \subseteq TopicsOf(m.to)
       /\ s.event.data = m.envelope.data
       /\ s.event.attempt # "absent" => s.event.attempt = m.envelope.attempt
  ELSE \/ request[c].host = <<s.function, Suffix>> /\ s.path = request[c].path
       \/ /\ request[c].host \notin {<<f, Suffix>> : f \in Functions}
          /\ request[c].path \in {<<s.function>> \o s.path, <<s.function>>}
          /\ request[c].path = <<s.function>> => s.path = RootPath

(* The host's own headers reach the instance whatever the client sent, or  *)
(* named in its Connection header; no header meant for the first hop does. *)
Stamped(c) ==
  LET hs == seen[c].headers
      xff == hs[ForwardedFor]
  IN /\ hs[ExecutionId] = <<<<c>>>>
     /\ Len(xff) = 1 /\ xff[1][Len(xff[1])] = "client"
     /\ \A h \in HopByHop : hs[h] = <<>>
     /\ "x-custom" \in TokensOf(request[c].headers["connection"]) => hs["x-custom"] = <<>>
     /\ request[c].headers["x-custom"] # <<>> =>
          hs["x-custom"] # <<>> \/ request[c].headers["connection"] # <<>>

(* An instance that is called is one of a pool made for the function the   *)
(* request names, whatever was registered or deleted between the steps of  *)
(* its handler; it sees the caller's request, with the host's marks, and   *)
(* the answer bears the same execution id.                                 *)
ExchangesIntact ==
  \A c \in Exchanges :
    /\ pc[c] = "sent" => Faithful(c) /\ Stamped(c)
    /\ pc[c] = "answered" /\ seen[c] # NotSeen /\ ~IsPush(c) =>
         answer[c].headers[ExecutionId] = seen[c].headers[ExecutionId]

(* open-pubusb counts a message as delivered only if an instance answered  *)
(* 2xx to that message, through refusals, failures, lost answers and       *)
(* deliveries that overlap: whoever else answers, it is sent again.        *)
AckedIsHandled == \A m \in Messages : message[m].state = "acked" => m \in handled

(* Every message that can be read is handled in the end and acknowledged,  *)
(* once its subscription and its function have settled: the host refuses   *)
(* none for good, neither one without data nor one with an odd attempt.    *)
Settled(m) ==
  LET f == message[m].to IN
  /\ message[m].state # "none" /\ message[m].envelope.data # "garbled"
  /\ subscribed[f] = message[m].topic
  /\ record[f].state = "ready" /\ record[f].trigger # "http"

MessagesGetThrough ==
  \A m \in Messages : <>[]Settled(m) => <>(message[m].state = "acked")
=============================================================================
