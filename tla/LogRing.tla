-------------------------------- MODULE LogRing --------------------------------
(***************************************************************************)
(* One function's log lines: the drains of its instances' streams, which   *)
(* push() into a LogRingBuffer, the LogStore that keeps the buffer under   *)
(* the function's name until delete(), and GET .../logs?tail&follow=true.  *)
(*                                                                         *)
(* push() takes the lock for the ring only and sends to the channel after  *)
(* it; the handler of a follower calls tail() and subscribe() one after    *)
(* the other.                                                              *)
(***************************************************************************)
EXTENDS Integers, Sequences, FiniteSets, SequencesExt

CONSTANTS
  Drains,       \* one per stdout or stderr of an instance
  MaxLines,     \* bound on the lines of a drain
  MaxBuffers,   \* bound on the buffers there have ever been
  Capacity,     \* log.function_ring_buffer_lines
  Channel,      \* FOLLOW_CHANNEL_CAPACITY
  Tails         \* values of ?tail

ASSUME RingAssumption ==
  /\ MaxLines \in Nat /\ MaxBuffers \in Nat \ {0}
  /\ Capacity \in Nat /\ Channel \in Nat \ {0}
  /\ Tails \subseteq Nat

VARIABLES
  store,      \* the buffer LogStore has, 0 for none
  buffers,    \* number of buffers made
  ring,       \* LogRingBuffer.lines
  inserted,   \* every line the ring has ever had, in its order
  sent,       \* what was sent to the channel, in its order
  drain,      \* where each drain is
  follower    \* one follower

vars == <<store, buffers, ring, inserted, sent, drain, follower>>
bufferVars == <<ring, inserted, sent>>

Buffers == 1..MaxBuffers
Lines == Drains \X (1..MaxLines)
Size == IF Capacity = 0 THEN 1 ELSE Capacity

NewDrain == [at |-> "new", buffer |-> 0, lines |-> 0]

(* tailed, known: how many lines the ring and the channel had had, and     *)
(* pushing: those between the two, at tail() and at subscribe().           *)
NoFollower == [at |-> "none", buffer |-> 0, snapshot |-> <<>>, live |-> <<>>, next |-> 0,
               lagged |-> {}, tailed |-> 0, known |-> 0, pushing |-> {}]

TypeOK ==
  /\ store \in 0..buffers /\ buffers \in 0..MaxBuffers
  /\ \A b \in Buffers :
       /\ ring[b] \in Seq(Lines) /\ Len(ring[b]) <= Size
       /\ IsSuffix(ring[b], inserted[b])
       /\ ToSet(sent[b]) \subseteq ToSet(inserted[b])
  /\ drain \in [Drains -> [at : {"new", "reading", "pushing", "ended"},
                           buffer : 0..MaxBuffers, lines : 0..MaxLines]]
  /\ follower.at \in {"none", "found", "tailed", "live", "closed"}
  /\ follower.buffer \in 0..buffers

Init ==
  /\ store = 0 /\ buffers = 0
  /\ ring = [b \in Buffers |-> <<>>]
  /\ inserted = [b \in Buffers |-> <<>>]
  /\ sent = [b \in Buffers |-> <<>>]
  /\ drain = [d \in Drains |-> NewDrain]
  /\ follower = NoFollower
-----------------------------------------------------------------------------
(* LogStore::buffer_for.                                                   *)
BufferFor(b) ==
  IF store # 0 THEN b = store /\ UNCHANGED <<store, buffers>>
  ELSE /\ buffers < MaxBuffers /\ b = buffers + 1
       /\ store' = b /\ buffers' = b

(* The task looks the buffer up once, before its first line.               *)
DrainStarts(d) ==
  /\ drain[d].at = "new"
  /\ \E b \in Buffers :
       /\ BufferFor(b)
       /\ drain' = [drain EXCEPT ![d].at = "reading", ![d].buffer = b]
  /\ UNCHANGED <<bufferVars, follower>>

Line(d) == <<d, drain[d].lines>>

PushedLate(lines, line) ==
  IF Len(lines) > Size THEN Append(Tail(lines), line) ELSE Append(lines, line)
Pushed(lines, line) ==
  IF Len(lines) >= Size THEN Append(Tail(lines), line) ELSE Append(lines, line)

(* push(), in the lock.                                                    *)
Insert(d) ==
  /\ drain[d].at = "reading" /\ drain[d].lines < MaxLines
  /\ drain' = [drain EXCEPT ![d].at = "pushing", ![d].lines = @ + 1]
  /\ LET b == drain[d].buffer IN
       /\ ring' = [ring EXCEPT ![b] = Pushed(@, Line(d)')]
       /\ inserted' = [inserted EXCEPT ![b] = Append(@, Line(d)')]
  /\ UNCHANGED <<store, buffers, sent, follower>>

(* push(), after it.                                                       *)
Send(d) ==
  /\ drain[d].at = "pushing"
  /\ sent' = [sent EXCEPT ![drain[d].buffer] = Append(@, Line(d))]
  /\ drain' = [drain EXCEPT ![d].at = "reading"]
  /\ UNCHANGED <<store, buffers, ring, inserted, follower>>

DrainEnds(d) ==
  /\ drain[d].at = "reading"
  /\ drain' = [drain EXCEPT ![d].at = "ended"]
  /\ UNCHANGED <<store, buffers, bufferVars, follower>>

(* LogStore::remove, in delete(). Whoever has the buffer keeps it.         *)
RemoveBuffer ==
  /\ store # 0
  /\ store' = 0
  /\ UNCHANGED <<buffers, bufferVars, drain, follower>>
-----------------------------------------------------------------------------
(* get_function_logs(): log_buffer(), tail(), subscribe().                 *)
Find ==
  /\ follower.at = "none"
  /\ \E b \in Buffers :
       /\ BufferFor(b)
       /\ follower' = [NoFollower EXCEPT !.at = "found", !.buffer = b]
  /\ UNCHANGED <<bufferVars, drain>>

TailOfBackwards(lines, n) == SubSeq(Reverse(lines), 1, IF Len(lines) > n THEN n ELSE Len(lines))
TailOf(lines, n) == SubSeq(lines, IF Len(lines) > n THEN Len(lines) - n + 1 ELSE 1, Len(lines))

ReadTail ==
  /\ follower.at = "found"
  /\ LET b == follower.buffer IN
       \E n \in Tails :
         follower' = [follower EXCEPT !.at = "tailed", !.snapshot = TailOf(ring[b], n),
                                      !.tailed = Len(inserted[b])]
  /\ UNCHANGED <<store, buffers, bufferVars, drain>>

Pushing(b) == {Line(d) : d \in {e \in Drains : drain[e].at = "pushing" /\ drain[e].buffer = b}}
JoinsEarlier == IF sent[follower.buffer] = <<>> THEN 1 ELSE Len(sent[follower.buffer])
Joins == Len(sent[follower.buffer]) + 1

Subscribe ==
  /\ follower.at = "tailed"
  /\ follower' = [follower EXCEPT !.at = "live", !.next = Joins,
                                  !.known = Len(sent[follower.buffer]),
                                  !.pushing = Pushing(follower.buffer)]
  /\ UNCHANGED <<store, buffers, bufferVars, drain>>

(* recv(): a receiver that has fallen behind by more than the channel has  *)
(* goes on at the oldest line there is; Closed comes when the channel is   *)
(* empty and its sender, which the buffer has, was dropped. The stream has *)
(* the receiver only.                                                      *)
Oldest(b) == IF Len(sent[b]) > Channel THEN Len(sent[b]) - Channel + 1 ELSE 1

Dropped(b) == store # b /\ \A d \in Drains : drain[d].buffer = b => drain[d].at = "ended"
ClosedNever(b) == FALSE
Closed(b) == Dropped(b)

Recv ==
  LET b == follower.buffer IN
  /\ follower.at = "live"
  /\ \/ /\ follower.next < Oldest(b)
        /\ follower' = [follower EXCEPT !.next = Oldest(b),
                                        !.lagged = @ \cup (follower.next..(Oldest(b) - 1))]
     \/ /\ follower.next \in Oldest(b)..Len(sent[b])
        /\ follower' = [follower EXCEPT !.next = @ + 1, !.live = Append(@, sent[b][follower.next])]
     \/ /\ follower.next > Len(sent[b]) /\ Closed(b)
        /\ follower' = [follower EXCEPT !.at = "closed"]
  /\ UNCHANGED <<store, buffers, bufferVars, drain>>
-----------------------------------------------------------------------------
Next ==
  \/ \E d \in Drains : DrainStarts(d) \/ Insert(d) \/ Send(d) \/ DrainEnds(d)
  \/ RemoveBuffer \/ Find \/ ReadTail \/ Subscribe \/ Recv

Spec == Init /\ [][Next]_vars
FairSpec == Spec /\ WF_vars(ReadTail \/ Subscribe \/ Recv)
-----------------------------------------------------------------------------
Following == follower.at \in {"live", "closed"}
Got == ToSet(follower.snapshot) \cup ToSet(follower.live)

(* A line that has been pushed reaches the follower, or will, but one that *)
(* was older than its tail, one the channel dropped as it fell behind, and *)
(* one pushed after tail() and before subscribe().                         *)
NothingMissed ==
  Following =>
    LET b == follower.buffer IN
    \A i \in 1..Len(inserted[b]), j \in 1..Len(sent[b]) :
      inserted[b][i] = sent[b][j] =>
        \/ sent[b][j] \in Got
        \/ j >= follower.next \/ j \in follower.lagged
        \/ i > follower.tailed /\ j <= follower.known
        \/ i <= follower.tailed - Len(follower.snapshot) /\ j <= follower.known

(* It gets a line twice only if the line's push() was under way at the     *)
(* subscription.                                                           *)
NothingRepeated ==
  Following =>
    /\ IsInjective(follower.snapshot) /\ IsInjective(follower.live)
    /\ ToSet(follower.snapshot) \cap ToSet(follower.live) \subseteq follower.pushing

FollowerSees == NothingMissed /\ NothingRepeated

Ordered(part, all) ==
  \A i, j \in 1..Len(part) : i < j =>
    \E k, l \in 1..Len(all) : k < l /\ part[i] = all[k] /\ part[j] = all[l]

Stream == follower.snapshot \o follower.live

(* It gets the tail in the order of the ring and the rest in that of the   *)
(* channel, which are not the same, as push() inserts and sends apart; yet *)
(* over both no line of a drain comes after a later one of that drain.     *)
FollowerInOrder ==
  Following =>
    /\ Ordered(follower.snapshot, inserted[follower.buffer])
    /\ Ordered(follower.live, sent[follower.buffer])
    /\ \A i, j \in 1..Len(Stream) :
         i < j /\ Stream[i][1] = Stream[j][1] => Stream[i][2] <= Stream[j][2]

(* The stream of a deleted function ends with its last drain, though the   *)
(* client stays.                                                           *)
FollowerEnds ==
  follower.at = "live" /\ Dropped(follower.buffer) ~> follower.at = "closed"
=============================================================================
