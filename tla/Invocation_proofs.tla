--------------------------- MODULE Invocation_proofs ---------------------------
(***************************************************************************)
(* Proofs about Invocation: what the resolver and the header rules do for  *)
(* every host, path and header, and with them that an instance sees the    *)
(* request it was sent, marked by the host, and that a message is          *)
(* acknowledged only if an instance has handled it.                        *)
(*                                                                         *)
(* An exchange is followed from its arrival (Each): a delivery carries the *)
(* message its request was made of, what was admitted was routed by that   *)
(* request, the pool it asks was made for its function, and no status but  *)
(* an instance's own 200 becomes a 2xx. The other exchanges and the        *)
(* registry disturb none of it (Steady): a message keeps its function, its *)
(* topic and its envelope once it is published, and what a pool was        *)
(* registered for stays so when a delete has removed it (Owned).           *)
(***************************************************************************)
EXTENDS Invocation, SequenceTheorems, TLAPS

LEMMA Prepended ==
  ASSUME NEW S, NEW a \in S, NEW rest \in Seq(S)
  PROVE  /\ <<a>> \o rest \in Seq(S) /\ Len(<<a>> \o rest) = Len(rest) + 1
         /\ \A i \in 1..(Len(rest) + 1) : (<<a>> \o rest)[i] = IF i = 1 THEN a ELSE rest[i - 1]
<1>1. <<a>> \in Seq(S) /\ Len(<<a>>) = 1 /\ <<a>>[1] = a
  OBVIOUS
<1> DEFINE first == <<a>>
<1>2. first \in Seq(S) /\ Len(first) = 1 /\ first[1] = a
  BY <1>1
<1> HIDE DEF first
<1>3. /\ first \o rest \in Seq(S) /\ Len(first \o rest) = Len(first) + Len(rest)
      /\ \A i \in 1..Len(first) + Len(rest) :
           (first \o rest)[i] = IF i <= Len(first) THEN first[i] ELSE rest[i - Len(first)]
  BY <1>2, ConcatProperties, Zenon
<1>4. Len(rest) \in Nat
  BY LenProperties
<1>5. /\ first \o rest \in Seq(S) /\ Len(first \o rest) = Len(rest) + 1
      /\ \A i \in 1..(Len(rest) + 1) : (first \o rest)[i] = IF i = 1 THEN a ELSE rest[i - 1]
  BY <1>2, <1>3, <1>4
<1> QED BY <1>5 DEF first

(* Resolve() over any segments. A route by host is that of the host's own  *)
(* label; one by path drops the function's segment and nothing else; only  *)
(* the reserved prefix leads to a push, and not where the host has a name. *)
THEOREM RouteIs ==
  ASSUME NEW Segment, NEW host \in Seq(Segment), NEW path \in Seq(Segment)
  PROVE  LET route == Resolve(host, path)
             byHost == \E f \in Functions : host = <<f, Suffix>>
         IN /\ route.kind \in {"none", "host", "path", "push"}
            /\ route.kind # "none" => route.name \in Functions
            /\ route.kind = "host" <=> byHost
            /\ route.kind = "host" => host = <<route.name, Suffix>>
            /\ route.kind = "path" =>
                 /\ path \in {<<route.name>> \o route.rest, <<route.name>>}
                 /\ path = <<route.name>> => route.rest = RootPath
            /\ route.kind = "push" =>
                 Len(path) >= 3 /\ path[1] = "_cf" /\ path[2] = "push" /\ path[3] = route.name
<1> DEFINE byHost == \E f \in Functions : host = <<f, Suffix>>
<1>1. HostName(host) # None => HostName(host) \in Functions /\ host = <<HostName(host), Suffix>>
  <2> SUFFICES ASSUME HostName(host) # None
               PROVE  HostName(host) \in Functions /\ host = <<HostName(host), Suffix>>
    OBVIOUS
  <2>1. Len(host) = 2 /\ host[2] = Suffix /\ host[1] \in Functions /\ HostName(host) = host[1]
    BY DEF HostName
  <2>2. host = <<host[1], host[2]>>
    BY <2>1
  <2> QED BY <2>1, <2>2
<1>2. byHost => HostName(host) # None
  BY InvocationAssumption DEF HostName
<1>3. ASSUME path # <<>>
      PROVE  IF Len(path) = 1 THEN path = <<path[1]>> ELSE path = <<path[1]>> \o Tail(path) /\ Len(path) > 1
  <2>1. Len(path) \in Nat \ {0}
    BY <1>3, EmptySeq
  <2>2. Len(path) = 1 => path = <<path[1]>>
    BY <2>1
  <2>3. Tail(path) \in Seq(Segment) /\ Len(Tail(path)) = Len(path) - 1 /\ path[1] \in Segment
        /\ \A i \in 1..Len(Tail(path)) : Tail(path)[i] = path[i + 1]
    BY <1>3, <2>1, HeadTailProperties, ElementOfSeq
  <2>4. /\ <<path[1]>> \o Tail(path) \in Seq(Segment)
        /\ Len(<<path[1]>> \o Tail(path)) = Len(path)
        /\ \A i \in 1..Len(path) : (<<path[1]>> \o Tail(path))[i] = path[i]
    <3>1. /\ <<path[1]>> \o Tail(path) \in Seq(Segment)
          /\ Len(<<path[1]>> \o Tail(path)) = Len(Tail(path)) + 1
          /\ \A i \in 1..(Len(Tail(path)) + 1) :
               (<<path[1]>> \o Tail(path))[i] = IF i = 1 THEN path[1] ELSE Tail(path)[i - 1]
      BY <2>3, Prepended
    <3> QED BY <2>1, <2>3, <3>1
  <2>5. path = <<path[1]>> \o Tail(path)
    BY <2>4, SeqEqual
  <2> QED BY <2>1, <2>2, <2>5
<1>4. CASE HostName(host) # None
  BY <1>1, <1>2, <1>4 DEF Resolve
<1>5. CASE HostName(host) = None /\ (Len(path) < 2 \/ path[1] # "_cf")
  <2>1. Resolve(host, path) = PathRoute(path) /\ ~byHost
    BY <1>2, <1>5 DEF Resolve
  <2>2. CASE path # <<>> /\ path[1] \in Functions
    BY <1>3, <2>1, <2>2 DEF PathRoute
  <2>3. CASE ~ (path # <<>> /\ path[1] \in Functions)
    BY <2>1, <2>3 DEF PathRoute, NoMatch
  <2> QED BY <2>2, <2>3
<1>6. CASE HostName(host) = None /\ ~ (Len(path) < 2 \/ path[1] # "_cf")
  <2>1. ~byHost
    BY <1>2, <1>6
  <2>2. Resolve(host, path) = IF Len(path) >= 3 /\ path[2] = "push" THEN PushRoute(path) ELSE NoMatch
    BY <1>6 DEF Resolve
  <2> QED BY <1>6, <2>1, <2>2 DEF PushRoute, NoMatch
<1> QED BY <1>4, <1>5, <1>6

(* rewrite_request() over any headers: the host's own marks are there      *)
(* whatever the caller sent or named in Connection, the peer's address is  *)
(* the last one named, and no header of the first hop is left.             *)
THEOREM HeadersAreOurs ==
  ASSUME NEW Token, "client" \in Token,
         NEW hs \in [Headers -> Seq(Seq(Token))], NEW c, NEW host
  PROVE  LET out == RewriteRequest(hs, c, host)
             xff == out[ForwardedFor]
         IN /\ out[ExecutionId] = <<<<c>>>>
            /\ Len(xff) = 1 /\ xff[1][Len(xff[1])] = "client"
            /\ \A h \in HopByHop : out[h] = <<>>
            /\ "x-custom" \in TokensOf(hs["connection"]) => out["x-custom"] = <<>>
            /\ hs["x-custom"] # <<>> => out["x-custom"] # <<>> \/ hs["connection"] # <<>>
<1> DEFINE kept == StripHopByHop(hs)
           out == RewriteRequest(hs, c, host)
<1>1. /\ kept \in [Headers -> Seq(Seq(Token))]
      /\ \A h \in Headers :
           kept[h] = IF h \in HopByHop \cup TokensOf(hs["connection"]) THEN <<>> ELSE hs[h]
  BY DEF StripHopByHop
<1> HIDE DEF kept
<1>2. /\ out[ExecutionId] = <<<<c>>>>
      /\ out[ForwardedFor] = AppendClient(kept[ForwardedFor], "client")
      /\ \A h \in {"connection", "te", "x-custom"} : out[h] = kept[h]
  BY <1>1 DEF RewriteRequest, kept, StampRequest, SetHost, Headers, HopByHop, ExecutionId, ForwardedFor
<1> HIDE DEF out
<1>3. Len(out[ForwardedFor]) = 1 /\ out[ForwardedFor][1][Len(out[ForwardedFor][1])] = "client"
  <2>1. kept[ForwardedFor] \in Seq(Seq(Token))
    BY <1>1 DEF Headers
  <2>2. CASE kept[ForwardedFor] = <<>>
    BY <1>2, <2>2 DEF AppendClient
  <2>3. CASE kept[ForwardedFor] # <<>>
    <3> DEFINE first == kept[ForwardedFor][1]
    <3>1. first \in Seq(Token)
      BY <2>1, <2>3
    <3>2. Append(first, "client")[Len(Append(first, "client"))] = "client"
      BY <3>1, AppendProperties
    <3>3. out[ForwardedFor] = <<Append(first, "client")>>
      BY <1>2, <2>3 DEF AppendClient
    <3> QED BY <3>2, <3>3
  <2> QED BY <2>2, <2>3
<1>4. \A h \in HopByHop : out[h] = <<>>
  BY <1>1, <1>2 DEF HopByHop, Headers
<1>5. "x-custom" \in TokensOf(hs["connection"]) => out["x-custom"] = <<>>
  BY <1>1, <1>2 DEF Headers
<1>6. hs["x-custom"] # <<>> => out["x-custom"] # <<>> \/ hs["connection"] # <<>>
  <2>1. hs["connection"] = <<>> => TokensOf(hs["connection"]) = {}
    BY DEF TokensOf
  <2> QED BY <1>1, <1>2, <2>1 DEF HopByHop, Headers
<1> QED BY <1>2, <1>3, <1>4, <1>5, <1>6 DEF out
-----------------------------------------------------------------------------
(* The inductive invariant                                                 *)

Published == [state : {"pending", "acked"}, to : Functions, topic : Topics, envelope : Envelopes]
Routes == {NoMatch} \cup {Resolve(h, p) : h \in Seq(Words), p \in Seq(Words)}
Views == [route : Routes, trigger : Triggers \cup {None}, pool : 0..MaxDeploys]
Codes == {204, 400, 404, 429, 500, 502, 503, 504}

HostType ==
  /\ registrations \in Seq([function : Functions, trigger : Triggers])
  /\ Len(registrations) <= MaxDeploys
  /\ record \in [Functions -> Records]
  /\ pools \in [Functions -> 0..MaxDeploys]
  /\ subscribed \in [Functions -> Topics \cup {None}]
  /\ message \in [Messages -> Published \cup {Unpublished}]
  /\ handled \subseteq Messages

ExchangeType ==
  /\ pc \in [Exchanges -> PCs]
  /\ carries \in [Exchanges -> Messages \cup {None}]
  /\ view \in [Exchanges -> Views]
  /\ DOMAIN request = Exchanges /\ DOMAIN seen = Exchanges /\ DOMAIN answer = Exchanges

(* Pools, records and subscriptions are of registrations of their function.*)
MadeFor(n, f) == n \in DOMAIN registrations /\ registrations[n].function = f

Owned(f) ==
  /\ pools[f] # 0 => MadeFor(pools[f], f)
  /\ record[f] # NoRecord =>
       /\ MadeFor(record[f].registration, f)
       /\ registrations[record[f].registration].trigger = record[f].trigger
  /\ subscribed[f] # None => subscribed[f] \in TopicsOf(f)

Sourced(m) == message[m].state # "none" => message[m].topic \in TopicsOf(message[m].to)

Host ==
  /\ HostType /\ AckedIsHandled
  /\ \A f \in Functions : Owned(f)
  /\ \A m \in Messages : Sourced(m)

(* A delivery is the push request made of the message it carries.          *)
Asked(c) ==
  /\ pc[c] = "idle" => carries[c] = None
  /\ pc[c] # "idle" /\ carries[c] = None => request[c] \in ClientRequests
  /\ carries[c] # None =>
       /\ message[carries[c]].state # "none"
       /\ request[c] = PushRequest(message[carries[c]].to)

Routed(c) ==
  pc[c] \in {"admitted", "acquiring", "sent"} =>
    /\ view[c].route = RouteOf(c) /\ view[c].route.kind # "none"
    /\ IsPush(c) <=> carries[c] # None
    /\ IsPush(c) => Parses(Envelope(c)) /\ view[c].trigger \in TopicsOf(view[c].route.name)
    /\ pc[c] # "admitted" => view[c].pool # 0 /\ MadeFor(view[c].pool, view[c].route.name)

Reached(c) ==
  /\ pc[c] \in {"idle", "arrived", "admitted", "acquiring"} => seen[c] = NotSeen
  /\ pc[c] = "sent" => Faithful(c) /\ Stamped(c) /\ seen[c].event \in Events \cup {None}

Told(c) ==
  pc[c] = "answered" =>
    /\ carries[c] # None =>
         answer[c].status \in Codes /\ (answer[c].status = 204 => carries[c] \in handled)
    /\ seen[c] # NotSeen /\ ~IsPush(c) =>
         answer[c].headers[ExecutionId] = seen[c].headers[ExecutionId]

Each(c) == Asked(c) /\ Routed(c) /\ Reached(c) /\ Told(c)

InvocationInv ==
  /\ Host /\ ExchangeType
  /\ \A c \in Exchanges : Each(c)
-----------------------------------------------------------------------------
(* What a step of another leaves as it was.                                *)
Same(c) ==
  /\ pc'[c] = pc[c] /\ request'[c] = request[c] /\ carries'[c] = carries[c]
  /\ view'[c] = view[c] /\ seen'[c] = seen[c] /\ answer'[c] = answer[c]

Steady ==
  /\ handled \subseteq handled'
  /\ \A n \in DOMAIN registrations : n \in DOMAIN registrations' /\ registrations'[n] = registrations[n]
  /\ \A m \in Messages : message[m].state # "none" =>
       /\ message'[m].state # "none" /\ message'[m].to = message[m].to
       /\ message'[m].topic = message[m].topic /\ message'[m].envelope = message[m].envelope

LEMMA OwnersStay ==
  ASSUME Steady, NEW f
  PROVE  /\ TopicsOf(f) \subseteq TopicsOf(f)'
         /\ \A n : MadeFor(n, f) => MadeFor(n, f)'
<1>1. \A n \in DOMAIN registrations : n \in DOMAIN registrations' /\ registrations'[n] = registrations[n]
  BY DEF Steady
<1> QED BY <1>1 DEF TopicsOf, MadeFor

LEMMA RegistrationIs ==
  ASSUME HostType, NEW n \in DOMAIN registrations
  PROVE  registrations[n].function \in Functions /\ registrations[n].trigger \in Triggers
<1>1. registrations[n] \in [function : Functions, trigger : Triggers]
  BY ElementOfSeq, LenProperties DEF HostType
<1> QED BY <1>1

LEMMA Marked ==
  ASSUME NEW f \in Functions, record \in [Functions -> Records], record[f].state # "none",
         NEW s \in {"building", "ready", "failed", "deleting"},
         record' = [record EXCEPT ![f].state = s]
  PROVE  /\ record' \in [Functions -> Records] /\ record[f] # NoRecord
         /\ record'[f].registration = record[f].registration /\ record'[f].trigger = record[f].trigger
         /\ record[f].registration \in 1..MaxDeploys
         /\ \A g \in Functions \ {f} : record'[g] = record[g]
<1> DEFINE Real == [state : {"building", "ready", "failed", "deleting"}, trigger : Triggers,
                    registration : 1..MaxDeploys]
<1>1. record[f] # NoRecord /\ record[f] \in Real
  BY DEF Records, NoRecord
<1>2. record'[f] = [record[f] EXCEPT !.state = s] /\ \A g \in Functions \ {f} : record'[g] = record[g]
  OBVIOUS
<1>3. /\ record'[f] \in Real
      /\ record'[f].registration = record[f].registration /\ record'[f].trigger = record[f].trigger
  BY <1>1, <1>2
<1>4. record' \in [Functions -> Records]
  BY <1>2, <1>3 DEF Records
<1> QED BY <1>1, <1>2, <1>3, <1>4

(* Only registrations, publications and acknowledgements change the host's *)
(* and open-pubusb's own state.                                            *)
LEMMA HostStays ==
  ASSUME Host, UNCHANGED <<registrations, record, pools, subscribed, message>>,
         handled \subseteq handled', handled' \subseteq Messages
  PROVE  Host' /\ Steady
BY DEF Host, HostType, AckedIsHandled, Owned, Sourced, MadeFor, TopicsOf, Steady

LEMMA Undisturbed ==
  ASSUME NEW c \in Exchanges, Each(c), carries[c] \in Messages \cup {None}, Same(c), Steady
  PROVE  Each(c)'
<1>1. /\ UNCHANGED <<pc[c], request[c], carries[c], view[c], seen[c], answer[c]>>
      /\ handled \subseteq handled'
  BY DEF Same, Steady
<1>2. carries[c] # None =>
        /\ message[carries[c]].state # "none" /\ message'[carries[c]].state # "none"
        /\ message'[carries[c]].to = message[carries[c]].to
        /\ message'[carries[c]].topic = message[carries[c]].topic
        /\ message'[carries[c]].envelope = message[carries[c]].envelope
  BY DEF Each, Asked, Steady
<1>3. Asked(c)'
  BY <1>1, <1>2 DEF Each, Asked
<1>4. Routed(c)'
  BY <1>1, <1>2, OwnersStay DEF Each, Routed, RouteOf, IsPush, Envelope
<1>5. Reached(c)'
  BY <1>1, <1>2, OwnersStay DEF Each, Reached, Faithful, Stamped, Envelope
<1>6. Told(c)'
  BY <1>1 DEF Each, Told, IsPush
<1> QED BY <1>3, <1>4, <1>5, <1>6 DEF Each

(* A step that changes one exchange.                                       *)
LEMMA OneMoves ==
  ASSUME InvocationInv, NEW c \in Exchanges, Steady, \A d \in Exchanges \ {c} : Same(d),
         Host', ExchangeType', Each(c)'
  PROVE  InvocationInv'
<1>1. ASSUME NEW d \in Exchanges \ {c} PROVE Each(d)'
  BY <1>1, Undisturbed DEF InvocationInv, ExchangeType
<1> QED BY <1>1 DEF InvocationInv

LEMMA InitInvocation == Init => InvocationInv
<1> SUFFICES ASSUME Init PROVE InvocationInv
  OBVIOUS
<1> USE InvocationAssumption DEF Init
<1>1. HostType
  BY DEF HostType, Records
<1>2. ExchangeType
  BY DEF ExchangeType, Views, Routes, NoView, PCs
<1>3. Host
  BY <1>1 DEF Host, AckedIsHandled, Owned, Sourced, Unpublished
<1>4. ASSUME NEW c \in Exchanges PROVE Each(c)
  BY <1>4 DEF Each, Asked, Routed, Reached, Told
<1> QED BY <1>1, <1>2, <1>3, <1>4 DEF InvocationInv

(* Deploys, deletes and publications.                                      *)
LEMMA RegistryKeeps ==
  ASSUME InvocationInv, NEW f \in Functions, Registry(f)
  PROVE  InvocationInv'
<1> USE InvocationAssumption
<1>1. UNCHANGED <<message, handled, pc, request, carries, view, seen, answer>>
  BY DEF Registry, Declare, Bind, Activate, FailBuild, MarkDeleting, RemovePool, FinishDelete, pubusb, exchange
<1>2. Steady
  <2>1. registrations' = registrations
        \/ \E t \in Triggers : registrations' = Append(registrations, [function |-> f, trigger |-> t])
    BY DEF Registry, Declare, Bind, Activate, FailBuild, MarkDeleting, RemovePool, FinishDelete, registry
  <2>2. registrations \in Seq([function : Functions, trigger : Triggers])
    BY DEF InvocationInv, Host, HostType
  <2>3. ASSUME NEW t \in Triggers, registrations' = Append(registrations, [function |-> f, trigger |-> t])
        PROVE  \A n \in DOMAIN registrations : n \in DOMAIN registrations' /\ registrations'[n] = registrations[n]
    <3> DEFINE new == [function |-> f, trigger |-> t]
    <3>1. new \in [function : Functions, trigger : Triggers] /\ registrations' = Append(registrations, new)
      BY <2>3
    <3> HIDE DEF new
    <3> QED BY <2>2, <3>1, AppendProperties, LenProperties
  <2>4. \A n \in DOMAIN registrations : n \in DOMAIN registrations' /\ registrations'[n] = registrations[n]
    BY <2>1, <2>3
  <2> QED BY <1>1, <2>4 DEF Steady
<1>3. HostType'
  <2> USE DEF InvocationInv, Host, HostType, pubusb, exchange
  <2>1. ASSUME NEW t \in Triggers, Declare(f, t) PROVE HostType'
    BY <2>1 DEF Declare, Records
  <2>2. CASE Bind(f)
    BY <2>2 DEF Bind, registry
  <2>3. CASE Activate(f)
    <3>1. record[f].state = "building" /\ record' = [record EXCEPT ![f].state = "ready"]
      BY <2>3 DEF Activate
    <3>2. record' \in [Functions -> Records] /\ record[f].registration \in 1..MaxDeploys
      BY <3>1, Marked
    <3> QED BY <2>3, <3>2 DEF Activate
  <2>4. CASE FailBuild(f)
    <3>1. /\ record[f].state = "building"
          /\ \E s \in {"ready", "failed"} : record' = [record EXCEPT ![f].state = s]
      BY <2>4 DEF FailBuild
    <3>2. record' \in [Functions -> Records]
      BY <3>1, Marked
    <3> QED BY <2>4, <3>2 DEF FailBuild
  <2>5. CASE MarkDeleting(f)
    <3>1. record[f].state \in {"ready", "failed"} /\ record' = [record EXCEPT ![f].state = "deleting"]
      BY <2>5 DEF MarkDeleting
    <3>2. record' \in [Functions -> Records]
      BY <3>1, Marked
    <3> QED BY <2>5, <3>2 DEF MarkDeleting
  <2>6. CASE RemovePool(f)
    BY <2>6 DEF RemovePool
  <2>7. CASE FinishDelete(f)
    BY <2>7 DEF FinishDelete, Records
  <2> QED BY <2>1, <2>2, <2>3, <2>4, <2>5, <2>6, <2>7 DEF Registry
<1>4. ASSUME NEW g \in Functions PROVE Owned(g)'
  <2>1. Owned(g) /\ record[g] \in Records /\ record'[g] \in Records
    BY <1>3 DEF InvocationInv, Host, HostType
  <2> USE DEF InvocationInv, Host, HostType, pubusb, exchange
  <2>2. ASSUME NEW t \in Triggers, Declare(f, t) PROVE Owned(g)'
    <3>1. CASE g = f
      <4>1. /\ record'[g].registration = Len(registrations) + 1 /\ record'[g].trigger = t
            /\ Len(registrations) + 1 \in DOMAIN registrations'
            /\ registrations'[Len(registrations) + 1] = [function |-> g, trigger |-> t]
            /\ UNCHANGED <<pools, subscribed>>
        BY <2>2, <3>1 DEF Declare
      <4>2. MadeFor(record[g].registration, g)' /\ registrations'[record'[g].registration].trigger = record'[g].trigger
        BY <4>1 DEF MadeFor
      <4> QED BY <1>2, <2>1, <4>1, <4>2, OwnersStay DEF Owned
    <3>2. CASE g # f
      <4>1. record'[g] = record[g] /\ UNCHANGED <<pools, subscribed>>
        BY <2>2, <3>2 DEF Declare
      <4>2. /\ record[g] # NoRecord => record[g].registration \in DOMAIN registrations
            /\ \A n \in DOMAIN registrations : registrations'[n] = registrations[n]
        BY <1>2, <2>1 DEF Owned, MadeFor, Steady
      <4> QED BY <1>2, <2>1, <4>1, <4>2, OwnersStay DEF Owned
    <3> QED BY <3>1, <3>2
  <2>3. ASSUME ~ (\E t \in Triggers : Declare(f, t)) PROVE Owned(g)'
    <3>1. registrations' = registrations
      BY <2>3 DEF Registry, Bind, Activate, FailBuild, MarkDeleting, RemovePool, FinishDelete, registry
    <3>2. \/ record'[g] = NoRecord
          \/ /\ record[g] # NoRecord
             /\ record'[g].registration = record[g].registration /\ record'[g].trigger = record[g].trigger
          \/ record'[g] = record[g]
      <4>1. \/ record' = record \/ record' = [record EXCEPT ![f] = NoRecord]
            \/ \E s \in {"building", "ready", "failed", "deleting"} :
                 record[f].state # "none" /\ record' = [record EXCEPT ![f].state = s]
        BY <2>3 DEF Registry, Bind, Activate, FailBuild, MarkDeleting, RemovePool, FinishDelete, registry, NoRecord
      <4>2. CASE \E s \in {"building", "ready", "failed", "deleting"} :
                   record[f].state # "none" /\ record' = [record EXCEPT ![f].state = s]
        BY <4>2, Marked
      <4> QED BY <4>1, <4>2
    <3>3. \/ pools'[g] \in {0, pools[g]}
          \/ record[g] # NoRecord /\ pools'[g] = record[g].registration
      BY <2>3 DEF Registry, Bind, Activate, FailBuild, MarkDeleting, RemovePool, FinishDelete, registry, NoRecord
    <3>4. \/ subscribed'[g] \in {None, subscribed[g]}
          \/ record[g].trigger \in Topics /\ subscribed'[g] = record[g].trigger
      BY <2>3 DEF Registry, Bind, Activate, FailBuild, MarkDeleting, RemovePool, FinishDelete
    <3>5. record[g].trigger \in Topics => record[g].trigger \in TopicsOf(g)
      BY <2>1 DEF Owned, MadeFor, TopicsOf, NoRecord
    <3>6. UNCHANGED TopicsOf(g) /\ \A n : MadeFor(n, g) <=> MadeFor(n, g)'
      BY <3>1 DEF TopicsOf, MadeFor
    <3> QED BY <2>1, <3>1, <3>2, <3>3, <3>4, <3>5, <3>6 DEF Owned
  <2> QED BY <2>2, <2>3
<1>5. Host'
  <2>1. ASSUME NEW m \in Messages PROVE Sourced(m)'
    BY <1>1, <1>2, OwnersStay DEF InvocationInv, Host, Sourced
  <2> QED BY <1>1, <1>3, <1>4, <2>1 DEF InvocationInv, Host, AckedIsHandled
<1>6. ExchangeType'
  BY <1>1 DEF InvocationInv, ExchangeType
<1>7. ASSUME NEW c \in Exchanges PROVE Each(c)'
  <2>1. Same(c)
    BY <1>1 DEF Same
  <2> QED BY <1>2, <2>1, Undisturbed DEF InvocationInv, ExchangeType
<1> QED BY <1>5, <1>6, <1>7 DEF InvocationInv

LEMMA PublishKeeps ==
  ASSUME InvocationInv, NEW m \in Messages, NEW f \in Functions, NEW e \in Envelopes, Publish(m, f, e)
  PROVE  InvocationInv'
<1> DEFINE new == [state |-> "pending", to |-> f, topic |-> subscribed[f], envelope |-> e]
<1>1. /\ message[m].state = "none" /\ subscribed[f] # None
      /\ message' = [message EXCEPT ![m] = new]
      /\ UNCHANGED <<registrations, record, pools, subscribed, handled, pc, request, carries, view, seen, answer>>
  BY DEF Publish, registry, exchange
<1>2. HostType'
  BY <1>1 DEF InvocationInv, Host, HostType, Published
<1>3. Host'
  <2>1. AckedIsHandled' /\ \A g \in Functions : Owned(g)'
    BY <1>1 DEF InvocationInv, Host, HostType, AckedIsHandled, Owned, MadeFor, TopicsOf
  <2>2. subscribed[f] \in TopicsOf(f)
    BY <1>1 DEF InvocationInv, Host, Owned
  <2>3. ASSUME NEW k \in Messages PROVE Sourced(k)'
    BY <1>1, <2>2 DEF InvocationInv, Host, HostType, Sourced, TopicsOf
  <2> QED BY <1>2, <2>1, <2>3 DEF Host
<1>4. ExchangeType'
  BY <1>1 DEF InvocationInv, ExchangeType
<1>5. ASSUME NEW c \in Exchanges PROVE Each(c)'
  <2>1. Same(c) /\ Steady
    BY <1>1 DEF Same, Steady, InvocationInv, Host, HostType
  <2> QED BY <2>1, Undisturbed DEF InvocationInv, ExchangeType
<1> QED BY <1>3, <1>4, <1>5 DEF InvocationInv

(* Requests come in.                                                       *)
LEMMA ArriveKeeps ==
  ASSUME InvocationInv, NEW c \in Clients, NEW r \in ClientRequests, Arrive(c, r)
  PROVE  InvocationInv'
<1> c \in Exchanges
  BY DEF Exchanges
<1>1. /\ pc[c] = "idle" /\ pc' = [pc EXCEPT ![c] = "arrived"]
      /\ request' = [request EXCEPT ![c] = r]
      /\ UNCHANGED <<registrations, record, pools, subscribed, message, handled, carries, view, seen, answer>>
  BY DEF Arrive, registry, pubusb
<1>2. Host' /\ Steady
  BY <1>1, HostStays DEF InvocationInv, Host, HostType
<1>3. ExchangeType' /\ \A d \in Exchanges \ {c} : Same(d)
  BY <1>1 DEF Same, InvocationInv, ExchangeType, PCs
<1>4. Each(c)'
  <2>1. carries'[c] = None /\ pc'[c] = "arrived" /\ request'[c] = r /\ seen'[c] = NotSeen
    BY <1>1 DEF InvocationInv, ExchangeType, Each, Asked, Reached
  <2> QED BY <2>1 DEF Each, Asked, Routed, Reached, Told
<1> QED BY <1>2, <1>3, <1>4, OneMoves

LEMMA DeliverKeeps ==
  ASSUME InvocationInv, NEW c \in Deliveries, NEW m \in Messages, Deliver(c, m)
  PROVE  InvocationInv'
<1> c \in Exchanges
  BY DEF Exchanges
<1> DEFINE r == PushRequest(message[m].to)
<1>1. /\ pc[c] = "idle" /\ pc' = [pc EXCEPT ![c] = "arrived"]
      /\ message[m].state = "pending"
      /\ request' = [request EXCEPT ![c] = r]
      /\ carries' = [carries EXCEPT ![c] = m]
      /\ UNCHANGED <<registrations, record, pools, subscribed, message, handled, view, seen, answer>>
  BY DEF Deliver, Outstanding, registry, pubusb
<1> HIDE DEF r
<1>2. Host' /\ Steady
  BY <1>1, HostStays DEF InvocationInv, Host, HostType
<1>3. ExchangeType' /\ \A d \in Exchanges \ {c} : Same(d)
  BY <1>1 DEF Same, InvocationInv, ExchangeType, PCs
<1>4. Each(c)'
  <2>1. /\ carries'[c] = m /\ pc'[c] = "arrived" /\ request'[c] = r /\ seen'[c] = NotSeen
        /\ message' = message /\ message[m].state = "pending" /\ m # None
    BY <1>1, InvocationAssumption DEF InvocationInv, ExchangeType, Each, Asked, Reached
  <2>2. r = PushRequest(message'[m].to)
    BY <2>1 DEF r
  <2> QED BY <2>1, <2>2 DEF Each, Asked, Routed, Reached, Told
<1> QED BY <1>2, <1>3, <1>4, OneMoves
-----------------------------------------------------------------------------
(* The requests there are, and where they lead.                            *)
LEMMA ShortSequences ==
  ASSUME NEW S, NEW a \in S, NEW b \in S, NEW d \in S
  PROVE  <<a>> \in Seq(S) /\ <<a, b>> \in Seq(S) /\ <<a, b, d>> \in Seq(S)
OBVIOUS

LEMMA ClientRequestIs ==
  ASSUME NEW r \in ClientRequests
  PROVE  /\ r.host \in Seq(Words) /\ r.path \in Seq(Words)
         /\ r.headers \in [Headers -> Seq(Seq(Tokens))]
         /\ Resolve(r.host, r.path) \in Routes
<1>1. r \in Requests
  BY RequestAssumption
<1>2. /\ r.host \in Seq(Words) /\ r.path \in Seq(Words)
      /\ r.headers \in [Headers -> Seq(Seq(Tokens))]
  BY <1>1 DEF Requests
<1> QED BY <1>2 DEF Routes

LEMMA RouteOfWords ==
  ASSUME NEW host \in Seq(Words), NEW path \in Seq(Words)
  PROVE  Resolve(host, path) \in Routes
BY DEF Routes

LEMMA PushRequestIs ==
  ASSUME NEW f \in Functions
  PROVE  /\ PushRequest(f).host = <<"listener">> /\ PushRequest(f).path = <<"_cf", "push", f>>
         /\ Resolve(PushRequest(f).host, PushRequest(f).path) = [kind |-> "push", name |-> f]
         /\ [kind |-> "push", name |-> f] \in Routes
<1>1. PushRequest(f).host = <<"listener">> /\ PushRequest(f).path = <<"_cf", "push", f>>
  BY DEF PushRequest, NoRequest
<1>2. Resolve(<<"listener">>, <<"_cf", "push", f>>) = [kind |-> "push", name |-> f]
  BY DEF Resolve, HostName, PushRoute
<1>3. <<"listener">> \in Seq(Words) /\ <<"_cf", "push", f>> \in Seq(Words)
  <2>1. "listener" \in Words /\ "_cf" \in Words /\ "push" \in Words /\ f \in Words
    BY RequestAssumption
  <2> QED BY <2>1, ShortSequences
<1>4. Resolve(<<"listener">>, <<"_cf", "push", f>>) \in Routes
  BY <1>3, RouteOfWords
<1> QED BY <1>1, <1>2, <1>4

LEMMA RequestIs ==
  ASSUME InvocationInv, NEW c \in Exchanges, pc[c] # "idle"
  PROVE  /\ RouteOf(c) \in Routes
         /\ RouteOf(c).kind # "none" => RouteOf(c).name \in Functions
         /\ carries[c] # None =>
              /\ carries[c] \in Messages /\ message[carries[c]] \in Published
              /\ RouteOf(c) = [kind |-> "push", name |-> message[carries[c]].to]
<1>1. CASE carries[c] = None
  <2>1. request[c] \in ClientRequests
    BY <1>1 DEF InvocationInv, Each, Asked
  <2> QED BY <1>1, <2>1, ClientRequestIs, RouteIs DEF RouteOf
<1>2. CASE carries[c] # None
  <2>1. carries[c] \in Messages /\ message[carries[c]].state # "none"
        /\ request[c] = PushRequest(message[carries[c]].to)
    BY <1>2 DEF InvocationInv, ExchangeType, Each, Asked
  <2>2. message[carries[c]] \in Published
    BY <2>1 DEF InvocationInv, Host, HostType, Unpublished
  <2>3. message[carries[c]].to \in Functions
    BY <2>2 DEF Published
  <2> QED BY <2>1, <2>2, <2>3, PushRequestIs DEF RouteOf
<1> QED BY <1>1, <1>2

LEMMA RefusalIs ==
  ASSUME NEW c \in Exchanges
  PROVE  /\ Refusal(c) \in {0, 400, 404, 503}
         /\ Refusal(c) = 0 =>
              /\ RouteOf(c).kind # "none" /\ record[RouteOf(c).name].state = "ready"
              /\ RouteOf(c).kind = "push" =>
                   carries[c] # None /\ Parses(Envelope(c)) /\ record[RouteOf(c).name].trigger # "http"
BY DEF Refusal

(* The handler, step by step                                               *)
LEMMA AdmitKeeps ==
  ASSUME InvocationInv, NEW c \in Exchanges, Admit(c)
  PROVE  InvocationInv'
<1>1. /\ pc[c] = "arrived" /\ seen[c] = NotSeen
      /\ UNCHANGED <<registrations, record, pools, subscribed, message, handled, request, carries, seen>>
  BY DEF Admit, registry, pubusb, InvocationInv, Each, Reached
<1>2. RouteOf(c) \in Routes /\ (RouteOf(c).kind # "none" => RouteOf(c).name \in Functions)
      /\ (carries[c] # None => RouteOf(c) = [kind |-> "push", name |-> message[carries[c]].to])
  BY <1>1, RequestIs
<1>3. Host' /\ Steady
  BY <1>1, HostStays DEF InvocationInv, Host, HostType
<1>4. CASE Refusal(c) # 0
  <2>1. /\ pc' = [pc EXCEPT ![c] = "answered"] /\ view' = view
        /\ answer' = [answer EXCEPT ![c] = Status(Refusal(c))]
    BY <1>4 DEF Admit, Answer
  <2>2. ExchangeType' /\ \A d \in Exchanges \ {c} : Same(d)
    BY <1>1, <2>1 DEF InvocationInv, ExchangeType, Same, PCs
  <2>3. Each(c)'
    <3>1. pc'[c] = "answered" /\ answer'[c].status \in {400, 404, 503} /\ seen'[c] = NotSeen
      BY <1>1, <1>4, <2>1, RefusalIs DEF InvocationInv, ExchangeType, Status
    <3>2. Asked(c)'
      BY <1>1, <3>1 DEF InvocationInv, Each, Asked
    <3> QED BY <3>1, <3>2 DEF Each, Routed, Reached, Told, Codes
  <2> QED BY <1>3, <2>2, <2>3, OneMoves
<1>5. CASE Refusal(c) = 0
  <2>1. /\ pc' = [pc EXCEPT ![c] = "admitted"] /\ answer' = answer
        /\ view' = [view EXCEPT ![c].route = RouteOf(c), ![c].trigger = record[RouteOf(c).name].trigger]
    BY <1>5 DEF Admit
  <2>2. /\ RouteOf(c).kind # "none" /\ record[RouteOf(c).name].state = "ready"
        /\ RouteOf(c).kind = "push" =>
             carries[c] # None /\ Parses(Envelope(c)) /\ record[RouteOf(c).name].trigger # "http"
    BY <1>5, RefusalIs
  <2>3. /\ record[RouteOf(c).name].trigger \in Triggers
        /\ RouteOf(c).kind = "push" => record[RouteOf(c).name].trigger \in TopicsOf(RouteOf(c).name)
    <3>1. /\ record[RouteOf(c).name] \in Records /\ record[RouteOf(c).name] # NoRecord
          /\ Owned(RouteOf(c).name)
      BY <1>2, <2>2 DEF InvocationInv, Host, HostType, NoRecord
    <3> QED BY <2>2, <3>1 DEF Records, Owned, MadeFor, TopicsOf
  <2>4. view[c] \in Views
    BY DEF InvocationInv, ExchangeType
  <2>5. view'[c] \in Views /\ view'[c].route = RouteOf(c) /\ view'[c].trigger \in Triggers
    BY <1>2, <2>1, <2>3, <2>4 DEF InvocationInv, ExchangeType, Views
  <2>6. ExchangeType' /\ \A d \in Exchanges \ {c} : Same(d)
    BY <1>1, <2>1, <2>5 DEF InvocationInv, ExchangeType, Same, PCs
  <2>7. Each(c)'
    <3>1. pc'[c] = "admitted" /\ seen'[c] = NotSeen
      BY <1>1, <2>1 DEF InvocationInv, ExchangeType
    <3>2. Asked(c)'
      BY <1>1, <3>1 DEF InvocationInv, Each, Asked
    <3>3. Routed(c)'
      <4>1. RouteOf(c)' = RouteOf(c) /\ Envelope(c)' = Envelope(c) /\ carries' = carries
        BY <1>1 DEF RouteOf, Envelope
      <4>2. IsPush(c)' <=> RouteOf(c).kind = "push"
        BY <2>5 DEF IsPush
      <4>3. view'[c].trigger = record[RouteOf(c).name].trigger /\ registrations' = registrations
        BY <1>1, <2>1, <2>4 DEF InvocationInv, ExchangeType, Views
      <4>4. IsPush(c)' => view'[c].trigger \in TopicsOf(RouteOf(c).name)
        BY <2>3, <4>2, <4>3
      <4> QED BY <1>2, <2>2, <2>5, <3>1, <4>1, <4>2, <4>3, <4>4 DEF Routed, TopicsOf
    <3> QED BY <3>1, <3>2, <3>3 DEF Each, Reached, Told
  <2> QED BY <1>3, <2>6, <2>7, OneMoves
<1> QED BY <1>4, <1>5

(* An answer that no instance has given, but 2xx: a step of this form      *)
(* keeps the invariant.                                                    *)
LEMMA RefusedKeeps ==
  ASSUME InvocationInv, NEW c \in Exchanges, pc[c] \in {"admitted", "acquiring"},
         NEW s \in Codes \ {204}, Answer(c, Status(s)),
         UNCHANGED <<registry, pubusb, request, carries, view, seen>>
  PROVE  InvocationInv'
<1>1. /\ UNCHANGED <<registrations, record, pools, subscribed, message, handled, request, carries, view, seen>>
      /\ pc' = [pc EXCEPT ![c] = "answered"] /\ answer' = [answer EXCEPT ![c] = Status(s)]
      /\ seen[c] = NotSeen
  BY DEF registry, pubusb, Answer, InvocationInv, Each, Reached
<1>2. Host' /\ Steady
  BY <1>1, HostStays DEF InvocationInv, Host, HostType
<1>3. ExchangeType' /\ \A d \in Exchanges \ {c} : Same(d)
  BY <1>1 DEF InvocationInv, ExchangeType, Same, PCs
<1>4. Each(c)'
  <2>1. pc'[c] = "answered" /\ answer'[c].status = s /\ s # 204 /\ seen'[c] = NotSeen
    BY <1>1 DEF InvocationInv, ExchangeType, Status
  <2>2. Asked(c)'
    BY <1>1, <2>1 DEF InvocationInv, Each, Asked
  <2> QED BY <2>1, <2>2 DEF Each, Routed, Reached, Told
<1> QED BY <1>2, <1>3, <1>4, OneMoves

LEMMA LookupKeeps ==
  ASSUME InvocationInv, NEW c \in Exchanges, Lookup(c) \/ NotAcquired(c)
  PROVE  InvocationInv'
<1> DEFINE pool == pools[view[c].route.name]
<1>1. CASE NotAcquired(c) \/ (Lookup(c) /\ pool = 0)
  <2>1. PICK s \in {429, 502, 503} : Answer(c, Status(s))
    BY <1>1 DEF NotAcquired, Lookup
  <2>2. pc[c] \in {"admitted", "acquiring"} /\ UNCHANGED <<registry, pubusb, request, carries, view, seen>>
    BY <1>1 DEF NotAcquired, Lookup
  <2>3. s \in Codes \ {204}
    BY DEF Codes
  <2> QED BY <2>1, <2>2, <2>3, RefusedKeeps
<1>2. CASE Lookup(c) /\ pool # 0
  <2>1. /\ pc[c] = "admitted" /\ pc' = [pc EXCEPT ![c] = "acquiring"]
        /\ view' = [view EXCEPT ![c].pool = pool]
        /\ UNCHANGED <<registrations, record, pools, subscribed, message, handled, request, carries, seen, answer>>
    BY <1>2 DEF Lookup, registry, pubusb
  <2>2. view[c].route = RouteOf(c) /\ view[c].route.kind # "none" /\ view[c].route.name \in Functions
    BY <2>1, RequestIs DEF InvocationInv, Each, Routed
  <2>3. pool \in 0..MaxDeploys /\ MadeFor(pool, view[c].route.name)
    BY <1>2, <2>2 DEF InvocationInv, Host, HostType, Owned
  <2>4. /\ view'[c] \in Views /\ view'[c].pool # 0 /\ MadeFor(view'[c].pool, view'[c].route.name)
        /\ view'[c].route = view[c].route /\ view'[c].trigger = view[c].trigger
    <3>1. view[c] \in Views
      BY DEF InvocationInv, ExchangeType
    <3> HIDE DEF pool
    <3>2. view'[c] = [view[c] EXCEPT !.pool = pool]
      BY <2>1 DEF InvocationInv, ExchangeType
    <3> QED BY <1>2, <2>3, <3>1, <3>2 DEF Views
  <2> HIDE DEF pool
  <2>5. Host' /\ Steady
    BY <2>1, HostStays DEF InvocationInv, Host, HostType
  <2>6. ExchangeType' /\ \A d \in Exchanges \ {c} : Same(d)
    BY <2>1, <2>4 DEF InvocationInv, ExchangeType, Same, PCs
  <2>7. Each(c)'
    <3>1. pc'[c] = "acquiring" /\ seen'[c] = NotSeen /\ seen[c] = NotSeen
      BY <2>1 DEF InvocationInv, ExchangeType, Each, Reached
    <3>2. Asked(c)'
      BY <2>1, <3>1 DEF InvocationInv, Each, Asked
    <3>3. Routed(c)'
      BY <2>1, <2>4, <3>1 DEF InvocationInv, Each, Routed, RouteOf, IsPush, Envelope, MadeFor, TopicsOf
    <3> QED BY <3>1, <3>2, <3>3 DEF Each, Reached, Told
  <2> QED BY <2>5, <2>6, <2>7, OneMoves
<1> QED BY <1>1, <1>2

LEMMA CloudEventIs ==
  ASSUME NEW e \in Envelopes, Parses(e), NEW m \in Messages, NEW t \in Triggers
  PROVE  LET event == ToCloudEvent(m, e, t)
         IN /\ event \in Events /\ event.source = t /\ event.data = e.data
            /\ event.id = IF e.id = "absent" THEN None ELSE m
            /\ event.attempt # "absent" => event.attempt = e.attempt
<1>1. CASE e = [id |-> "messageId", data |-> "base64", attempt |-> "absent"]
  BY <1>1 DEF ToCloudEvent, IdOf, Events
<1>2. CASE e = [id |-> "message_id", data |-> "base64", attempt |-> "small"]
  BY <1>2 DEF ToCloudEvent, IdOf, Events
<1>3. CASE e = [id |-> "messageId", data |-> "null", attempt |-> "over u32"]
  BY <1>3 DEF ToCloudEvent, IdOf, Events
<1>4. CASE e = [id |-> "absent", data |-> "base64", attempt |-> "absent"]
  BY <1>4 DEF ToCloudEvent, IdOf, Events
<1>5. ASSUME e = [id |-> "messageId", data |-> "garbled", attempt |-> "absent"] PROVE FALSE
  BY <1>5 DEF Parses
<1> QED BY <1>1, <1>2, <1>3, <1>4, <1>5 DEF Envelopes

(* The request is sent to an instance: what it sees is Faithful, by where  *)
(* it was routed, and Stamped, by what rewrite_request() does.             *)
LEMMA ForwardKeeps ==
  ASSUME InvocationInv, NEW c \in Exchanges, Forward(c)
  PROVE  InvocationInv'
<1> DEFINE shown ==
       [function |-> registrations[view[c].pool].function,
        path |-> ForwardedPath(c),
        headers |-> IF IsPush(c) THEN RewriteRequest(NoHeaders, c, <<>>)
                    ELSE RewriteRequest(request[c].headers, c, request[c].host),
        event |-> IF IsPush(c) THEN ToCloudEvent(carries[c], Envelope(c), view[c].trigger) ELSE None]
<1>1. /\ pc[c] = "acquiring" /\ pc' = [pc EXCEPT ![c] = "sent"]
      /\ seen' = [seen EXCEPT ![c] = shown]
      /\ UNCHANGED <<registrations, record, pools, subscribed, message, handled, request, carries, view, answer>>
  BY DEF Forward, registry, pubusb
<1>2. /\ view[c].route = RouteOf(c) /\ RouteOf(c).kind # "none" /\ RouteOf(c).name \in Functions
      /\ IsPush(c) <=> carries[c] # None
      /\ IsPush(c) => Parses(Envelope(c)) /\ view[c].trigger \in TopicsOf(RouteOf(c).name)
      /\ view[c].pool # 0 /\ registrations[view[c].pool].function = RouteOf(c).name
  BY <1>1, RequestIs DEF InvocationInv, Each, Routed, MadeFor
<1>3. ASSUME IsPush(c) PROVE Faithful(c)' /\ Stamped(c)' /\ shown.event \in Events \cup {None}
  <2> DEFINE m == carries[c]
  <2>1. /\ m \in Messages /\ m # None /\ message[m] \in Published
        /\ RouteOf(c) = [kind |-> "push", name |-> message[m].to]
        /\ request[c] = PushRequest(message[m].to)
    BY <1>1, <1>2, <1>3, RequestIs DEF InvocationInv, Each, Asked
  <2>2. Envelope(c) = message[m].envelope /\ Envelope(c) \in Envelopes /\ Parses(Envelope(c))
        /\ {view[c].trigger, message[m].topic} \subseteq TopicsOf(message[m].to)
    <3>1. message[m].topic \in TopicsOf(message[m].to)
      BY <2>1 DEF InvocationInv, Host, Sourced, Published
    <3> QED BY <1>2, <1>3, <2>1, <3>1 DEF Envelope, Published
  <2>8. view[c].trigger \in Triggers
    BY <2>2, RegistrationIs DEF InvocationInv, Host, TopicsOf
  <2>3. /\ shown.function = message[m].to
        /\ shown.event = ToCloudEvent(m, Envelope(c), view[c].trigger)
        /\ shown.headers = RewriteRequest(NoHeaders, c, <<>>)
    BY <1>2, <1>3, <2>1
  <2>4. /\ shown.event \in Events /\ shown.event.data = Envelope(c).data
        /\ shown.event.id = IF Envelope(c).id = "absent" THEN None ELSE m
        /\ shown.event.source = view[c].trigger
        /\ shown.event.attempt # "absent" => shown.event.attempt = Envelope(c).attempt
    <3> HIDE DEF shown
    <3> QED BY <2>1, <2>2, <2>8, <2>3, CloudEventIs
  <2>5. /\ shown.headers[ExecutionId] = <<<<c>>>>
        /\ Len(shown.headers[ForwardedFor]) = 1
        /\ shown.headers[ForwardedFor][1][Len(shown.headers[ForwardedFor][1])] = "client"
        /\ \A h \in HopByHop : shown.headers[h] = <<>>
    <3>1. NoHeaders \in [Headers -> Seq(Seq(Tokens))] /\ "client" \in Tokens
      BY RequestAssumption DEF NoHeaders
    <3> HIDE DEF shown
    <3> QED BY <2>3, <3>1, HeadersAreOurs
  <2>6. request[c].headers["connection"] = <<>> /\ request[c].headers["x-custom"] = <<>>
    BY <2>1 DEF PushRequest, NoRequest, NoHeaders, Headers, HopByHop
  <2> HIDE DEF shown
  <2>7. Faithful(c)' /\ Stamped(c)' /\ seen'[c] = shown
    <3>1. seen'[c] = shown
      BY <1>1 DEF InvocationInv, ExchangeType
    <3>2. TokensOf(request[c].headers["connection"]) = {}
      BY <2>6 DEF TokensOf
    <3>3. Faithful(c)'
      <4>1. TopicsOf(message[m].to)' = TopicsOf(message[m].to) /\ message' = message /\ carries'[c] = m
        BY <1>1 DEF TopicsOf
      <4> QED BY <2>1, <2>2, <2>3, <2>4, <3>1, <4>1 DEF Faithful
    <3>4. Stamped(c)'
      BY <1>1, <2>5, <2>6, <3>1, <3>2 DEF Stamped
    <3> QED BY <3>1, <3>3, <3>4
  <2> QED BY <2>4, <2>7
<1>4. ASSUME ~IsPush(c) PROVE Faithful(c)' /\ Stamped(c)' /\ shown.event \in Events \cup {None}
  <2>1. carries[c] = None /\ request[c] \in ClientRequests /\ RouteOf(c).kind \in {"host", "path"}
    <3>1. carries[c] = None /\ request[c] \in ClientRequests
      BY <1>1, <1>2, <1>4 DEF InvocationInv, Each, Asked
    <3>2. RouteOf(c).kind \in {"none", "host", "path", "push"}
      BY <3>1, ClientRequestIs, RouteIs DEF RouteOf
    <3> QED BY <1>2, <1>4, <3>1, <3>2 DEF IsPush
  <2>2. /\ shown.function = RouteOf(c).name /\ shown.event = None
        /\ shown.path = IF RouteOf(c).kind = "path" THEN RouteOf(c).rest ELSE request[c].path
        /\ shown.headers = RewriteRequest(request[c].headers, c, request[c].host)
    BY <1>2, <1>4, <2>1 DEF ForwardedPath
  <2>3. LET route == RouteOf(c)
            byHost == \E f \in Functions : request[c].host = <<f, Suffix>>
        IN /\ route.kind = "host" <=> byHost
           /\ route.kind = "host" => request[c].host = <<route.name, Suffix>>
           /\ route.kind = "path" =>
                /\ request[c].path \in {<<route.name>> \o route.rest, <<route.name>>}
                /\ request[c].path = <<route.name>> => route.rest = RootPath
    BY <2>1, ClientRequestIs, RouteIs DEF RouteOf
  <2>4. LET hs == request[c].headers
        IN /\ shown.headers[ExecutionId] = <<<<c>>>>
           /\ Len(shown.headers[ForwardedFor]) = 1
           /\ shown.headers[ForwardedFor][1][Len(shown.headers[ForwardedFor][1])] = "client"
           /\ \A h \in HopByHop : shown.headers[h] = <<>>
           /\ "x-custom" \in TokensOf(hs["connection"]) => shown.headers["x-custom"] = <<>>
           /\ hs["x-custom"] # <<>> => shown.headers["x-custom"] # <<>> \/ hs["connection"] # <<>>
    <3>1. request[c].headers \in [Headers -> Seq(Seq(Tokens))]
      BY <2>1, ClientRequestIs
    <3>4. "client" \in Tokens
      BY RequestAssumption
    <3> HIDE DEF shown
    <3> DEFINE hs == request[c].headers
               host == request[c].host
               out == RewriteRequest(hs, c, host)
    <3>2. hs \in [Headers -> Seq(Seq(Tokens))] /\ shown.headers = out
      BY <2>2, <3>1
    <3> HIDE DEF hs, host
    <3>3. /\ out[ExecutionId] = <<<<c>>>>
          /\ Len(out[ForwardedFor]) = 1 /\ out[ForwardedFor][1][Len(out[ForwardedFor][1])] = "client"
          /\ \A h \in HopByHop : out[h] = <<>>
          /\ "x-custom" \in TokensOf(hs["connection"]) => out["x-custom"] = <<>>
          /\ hs["x-custom"] # <<>> => out["x-custom"] # <<>> \/ hs["connection"] # <<>>
      BY <3>2, <3>4, HeadersAreOurs
    <3> HIDE DEF out
    <3> QED BY <3>2, <3>3 DEF hs
  <2> HIDE DEF shown
  <2>5. seen'[c] = shown
    BY <1>1 DEF InvocationInv, ExchangeType
  <2>6. Faithful(c)'
    BY <1>1, <2>1, <2>2, <2>3, <2>5 DEF Faithful
  <2>7. Stamped(c)'
    BY <1>1, <2>4, <2>5 DEF Stamped
  <2> QED BY <2>2, <2>5, <2>6, <2>7
<1> HIDE DEF shown
<1>5. Faithful(c)' /\ Stamped(c)' /\ seen'[c] = shown /\ shown.event \in Events \cup {None}
  <2>1. seen'[c] = shown
    BY <1>1 DEF InvocationInv, ExchangeType
  <2> QED BY <1>3, <1>4, <2>1
<1>6. Host' /\ Steady
  BY <1>1, HostStays DEF InvocationInv, Host, HostType
<1>7. ExchangeType' /\ \A d \in Exchanges \ {c} : Same(d)
  BY <1>1 DEF InvocationInv, ExchangeType, Same, PCs
<1>8. Each(c)'
  <2>1. pc'[c] = "sent"
    BY <1>1 DEF InvocationInv, ExchangeType
  <2>2. Asked(c)'
    BY <1>1, <2>1 DEF InvocationInv, Each, Asked
  <2>3. Routed(c)'
    BY <1>1, <2>1 DEF InvocationInv, Each, Routed, RouteOf, IsPush, Envelope, MadeFor, TopicsOf
  <2>4. Reached(c)'
    BY <1>5, <2>1 DEF Reached
  <2> QED BY <2>1, <2>2, <2>3, <2>4 DEF Each, Told
<1> QED BY <1>6, <1>7, <1>8, OneMoves

(* What an exchange with a message is told once it was sent is the code of *)
(* a failure, or the instance's own: 204 follows its 200 alone, and then   *)
(* the message has been handled.                                           *)
LEMMA SentIs ==
  ASSUME InvocationInv, NEW c \in Exchanges, pc[c] = "sent"
  PROVE  /\ IsPush(c) <=> carries[c] # None
         /\ IsPush(c) => carries[c] \in Messages
         /\ seen[c].headers[ExecutionId] = <<<<c>>>>
<1>1. Routed(c) /\ Reached(c) /\ carries[c] \in Messages \cup {None}
  BY DEF InvocationInv, ExchangeType, Each
<1>2. IsPush(c) <=> carries[c] # None
  BY <1>1 DEF Routed
<1>3. seen[c].headers[ExecutionId] = <<<<c>>>>
  BY <1>1 DEF Reached, Stamped
<1> QED BY <1>1, <1>2, <1>3

LEMMA AnswerKeeps ==
  ASSUME InvocationInv, NEW c \in Exchanges, pc[c] = "sent", NEW a, Answer(c, a),
         UNCHANGED <<registry, subscribed, message, request, carries, view, seen>>,
         handled \subseteq handled', handled' \subseteq Messages,
         IsPush(c) => a.status \in Codes /\ (a.status = 204 => carries[c] \in handled'),
         ~IsPush(c) => a.headers[ExecutionId] = <<<<c>>>>
  PROVE  InvocationInv'
<1>1. /\ UNCHANGED <<registrations, record, pools, subscribed, message, request, carries, view, seen>>
      /\ pc' = [pc EXCEPT ![c] = "answered"] /\ answer' = [answer EXCEPT ![c] = a]
  BY DEF registry, Answer
<1>2. Host' /\ Steady
  BY <1>1, HostStays DEF InvocationInv, Host, HostType
<1>3. ExchangeType' /\ \A d \in Exchanges \ {c} : Same(d)
  BY <1>1 DEF InvocationInv, ExchangeType, Same, PCs
<1>4. Each(c)'
  <2>1. pc'[c] = "answered" /\ answer'[c] = a
    BY <1>1 DEF InvocationInv, ExchangeType
  <2>2. Asked(c)'
    BY <1>1, <2>1 DEF InvocationInv, Each, Asked
  <2>3. Told(c)'
    BY <1>1, <2>1, SentIs DEF Told, IsPush
  <2> QED BY <2>1, <2>2, <2>3 DEF Each, Routed, Reached
<1> QED BY <1>2, <1>3, <1>4, OneMoves

LEMMA InstanceAnswersKeeps ==
  ASSUME InvocationInv, NEW c \in Exchanges, NEW status \in {200, 500}, NEW hs \in ResponseHeaders,
         InstanceAnswers(c, status, hs)
  PROVE  InvocationInv'
<1>1. pc[c] = "sent" /\ UNCHANGED <<registry, subscribed, message, request, carries, view, seen>>
  BY DEF InstanceAnswers
<1>2. handled \subseteq Messages
  BY DEF InvocationInv, Host, HostType
<1>3. CASE IsPush(c)
  <2> DEFINE a == Status(PushStatus(status))
  <2>1. /\ Answer(c, a)
        /\ handled' = IF status = 200 THEN handled \cup {carries[c]} ELSE handled
        /\ carries[c] \in Messages
    BY <1>1, <1>3, SentIs DEF InstanceAnswers
  <2>2. a.status \in {204, 500} /\ (a.status = 204 => status = 200)
    BY DEF Status, PushStatus
  <2> HIDE DEF a
  <2> QED BY <1>1, <1>2, <1>3, <2>1, <2>2, AnswerKeeps DEF Codes
<1>4. CASE ~IsPush(c)
  <2> DEFINE a == [status |-> status, headers |-> RewriteResponse(hs, c)]
  <2>1. Answer(c, a) /\ handled' = handled
    BY <1>4 DEF InstanceAnswers
  <2>2. a.headers[ExecutionId] = <<<<c>>>>
    BY DEF RewriteResponse, StripHopByHop, Headers
  <2> HIDE DEF a
  <2> QED BY <1>1, <1>2, <1>4, <2>1, <2>2, AnswerKeeps
<1> QED BY <1>3, <1>4

LEMMA ForwardFailsKeeps ==
  ASSUME InvocationInv, NEW c \in Exchanges, NEW failure \in {"timeout", "refused", "reset"},
         ForwardFails(c, failure)
  PROVE  InvocationInv'
<1> DEFINE a == IF IsPush(c) THEN Status(MapOutcome(failure))
                ELSE [status |-> MapOutcome(failure),
                      headers |-> [NoHeaders EXCEPT ![ExecutionId] = <<<<c>>>>]]
<1>1. /\ pc[c] = "sent" /\ UNCHANGED <<registry, subscribed, message, request, carries, view, seen>>
      /\ handled' = handled /\ Answer(c, a)
  BY DEF ForwardFails, pubusb
<1>2. handled \subseteq Messages
  BY DEF InvocationInv, Host, HostType
<1>3. IsPush(c) => a.status \in Codes \ {204}
  BY DEF Status, MapOutcome, Codes
<1>4. ~IsPush(c) => a.headers[ExecutionId] = <<<<c>>>>
  BY DEF NoHeaders, Headers
<1> HIDE DEF a
<1> QED BY <1>1, <1>2, <1>3, <1>4, AnswerKeeps

(* open-pubusb takes 204 alone for an acknowledgement.                     *)
LEMMA AckCodes ==
  ASSUME NEW s \in Codes, s \div 100 = 2
  PROVE  s = 204
BY DEF Codes

LEMMA ReturnKeeps ==
  ASSUME InvocationInv, NEW c \in Exchanges, Return(c) \/ Abandon(c)
  PROVE  InvocationInv'
<1> DEFINE acks == pc[c] = "answered" /\ carries[c] # None /\ answer[c].status \div 100 = 2
<1>1. /\ UNCHANGED <<registrations, record, pools, subscribed, handled>>
      /\ Over(c)
      /\ message' = message \/ (acks /\ message' = [message EXCEPT ![carries[c]].state = "acked"])
  BY DEF Return, Abandon, registry, pubusb
<1>2. acks => /\ carries[c] \in handled /\ carries[c] \in Messages
              /\ message[carries[c]] \in Published
  <2> SUFFICES ASSUME acks
               PROVE  carries[c] \in handled /\ carries[c] \in Messages /\ message[carries[c]] \in Published
    OBVIOUS
  <2>1. carries[c] \in Messages /\ message[carries[c]] \in Published
    BY RequestIs
  <2>2. answer[c].status \in Codes /\ (answer[c].status = 204 => carries[c] \in handled)
    BY DEF InvocationInv, Each, Told
  <2> QED BY <2>1, <2>2, AckCodes
<1> HIDE DEF acks
<1>3. Host' /\ Steady
  <2>1. CASE message' = message
    BY <1>1, <2>1, HostStays DEF InvocationInv, Host, HostType
  <2>2. CASE acks /\ message' = [message EXCEPT ![carries[c]].state = "acked"]
    <3>1. message'[carries[c]] = [message[carries[c]] EXCEPT !.state = "acked"]
      BY <1>2, <2>2 DEF InvocationInv, Host, HostType
    <3>2. /\ message'[carries[c]] \in Published
          /\ message'[carries[c]].state = "acked"
          /\ message'[carries[c]].to = message[carries[c]].to
          /\ message'[carries[c]].topic = message[carries[c]].topic
          /\ message'[carries[c]].envelope = message[carries[c]].envelope
      BY <1>2, <2>2, <3>1 DEF Published
    <3>3. \A m \in Messages \ {carries[c]} : message'[m] = message[m]
      BY <2>2 DEF InvocationInv, Host, HostType
    <3>4. HostType'
      BY <1>1, <1>2, <2>2, <3>2, <3>3 DEF InvocationInv, Host, HostType
    <3>5. AckedIsHandled' /\ Steady
      BY <1>1, <1>2, <3>2, <3>3 DEF InvocationInv, Host, AckedIsHandled, Steady
    <3>6. \A f \in Functions : Owned(f)'
      BY <1>1 DEF InvocationInv, Host, Owned, MadeFor, TopicsOf
    <3>7. ASSUME NEW m \in Messages PROVE Sourced(m)'
      <4>1. message[carries[c]].state # "none"
        BY <1>2, <2>2 DEF Published
      <4> QED BY <1>1, <1>2, <2>2, <3>2, <3>3, <4>1 DEF InvocationInv, Host, Sourced, TopicsOf
    <3> QED BY <3>4, <3>5, <3>6, <3>7 DEF Host
  <2> QED BY <1>1, <2>1, <2>2
<1>4. ExchangeType' /\ \A d \in Exchanges \ {c} : Same(d)
  BY <1>1, InvocationAssumption DEF Over, InvocationInv, ExchangeType, Same, PCs, Views, Routes, NoView
<1>5. Each(c)'
  <2>1. pc'[c] = "idle" /\ carries'[c] = None /\ seen'[c] = NotSeen
    BY <1>1 DEF Over, InvocationInv, ExchangeType
  <2> QED BY <2>1 DEF Each, Asked, Routed, Reached, Told
<1> QED BY <1>3, <1>4, <1>5, OneMoves

LEMMA InvocationStuttering == InvocationInv /\ UNCHANGED vars => InvocationInv'
<1> SUFFICES ASSUME InvocationInv, UNCHANGED vars PROVE InvocationInv'
  OBVIOUS
<1>1. Host' /\ ExchangeType'
  BY HostStays DEF vars, InvocationInv, Host, HostType, ExchangeType
<1>2. ASSUME NEW c \in Exchanges PROVE Each(c)'
  <2>1. Same(c) /\ Steady
    BY DEF vars, Same, Steady
  <2> QED BY <2>1, Undisturbed DEF InvocationInv, ExchangeType
<1> QED BY <1>1, <1>2 DEF InvocationInv

LEMMA InvocationInvariant == Spec => []InvocationInv
<1>1. InvocationInv /\ [Next]_vars => InvocationInv'
  <2> SUFFICES ASSUME InvocationInv, [Next]_vars PROVE InvocationInv'
    OBVIOUS
  <2>1. ASSUME NEW c \in Exchanges, Handle(c) PROVE InvocationInv'
    BY <2>1, AdmitKeeps, LookupKeeps, ForwardKeeps, InstanceAnswersKeeps, ForwardFailsKeeps, ReturnKeeps
       DEF Handle
  <2> QED BY <2>1, RegistryKeeps, PublishKeeps, ArriveKeeps, DeliverKeeps, InvocationStuttering DEF Next
<1> QED BY <1>1, InitInvocation, PTL DEF Spec

(* The type invariant of Invocation: an exchange that asks a pool knows    *)
(* the function it is for, and only a pool that is there is asked.         *)
THEOREM TypesHold == Spec => []TypeOK
<1>1. InvocationInv => TypeOK
  <2> SUFFICES ASSUME InvocationInv, NEW c \in Exchanges
               PROVE  /\ pc[c] \in {"admitted", "acquiring", "sent"} => view[c].route.name \in Functions
                      /\ pc[c] \in {"acquiring", "sent"} => view[c].pool # 0
                      /\ pc[c] = "sent" => seen[c].event \in Events \cup {None}
    BY DEF InvocationInv, Host, HostType, ExchangeType, TypeOK
  <2> QED BY RequestIs DEF InvocationInv, Each, Routed, Reached
<1> QED BY <1>1, InvocationInvariant, PTL

(* forward() and handle_push() hand the caller's request or the message to *)
(* an instance of a pool made for the function it names, also when that    *)
(* has been deleted or registered anew since the lookup, with the host's   *)
(* marks; and the answer bears the same execution id.                      *)
THEOREM IntactExchanges == Spec => []ExchangesIntact
<1>1. InvocationInv => ExchangesIntact
  BY DEF InvocationInv, Each, Reached, Told, ExchangesIntact
<1> QED BY <1>1, InvocationInvariant, PTL

(* handle_push() answers 2xx only what an instance answered 2xx: no        *)
(* refusal, failure, redelivery or race with a deploy or a delete makes    *)
(* open-pubusb drop a message that no function has handled.                *)
THEOREM NothingLost == Spec => []AckedIsHandled
<1>1. InvocationInv => AckedIsHandled
  BY DEF InvocationInv, Host
<1> QED BY <1>1, InvocationInvariant, PTL
=============================================================================
