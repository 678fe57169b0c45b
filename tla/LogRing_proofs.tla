----------------------------- MODULE LogRing_proofs -----------------------------
(***************************************************************************)
(* Proofs about LogRing: its type invariant, with a ring that is a suffix  *)
(* of all it has had, and what a follower sees.                            *)
(*                                                                         *)
(* A line is inserted once and sent once, and in between its drain is at   *)
(* it (Journal). A snapshot is a slice of what was inserted, and what came *)
(* from the channel a part of what was sent since the subscription (Seen), *)
(* neither of which is changed by what is appended afterwards.             *)
(***************************************************************************)
EXTENDS LogRing, SequenceTheorems, TLAPS

DrainsAt == [at : {"new", "reading", "pushing", "ended"}, buffer : 0..MaxBuffers, lines : 0..MaxLines]
Followers == [at : {"none", "found", "tailed", "live", "closed"}, buffer : 0..MaxBuffers,
              snapshot : Seq(Lines), live : Seq(Lines), next : Nat, lagged : SUBSET Nat,
              tailed : Nat, known : Nat, pushing : SUBSET Lines]

RingType ==
  /\ store \in 0..buffers /\ buffers \in 0..MaxBuffers
  /\ ring \in [Buffers -> Seq(Lines)]
  /\ inserted \in [Buffers -> Seq(Lines)]
  /\ sent \in [Buffers -> Seq(Lines)]
  /\ drain \in [Drains -> DrainsAt]
  /\ \A d \in Drains : drain[d].at # "new" => drain[d].buffer \in Buffers
  /\ follower \in Followers /\ follower.buffer <= buffers
  /\ follower.at # "none" => follower.buffer \in Buffers

(* `lines` are the last of `all`, up to position `end`.                    *)
Slice(lines, all, end) ==
  /\ Len(lines) <= end /\ end <= Len(all)
  /\ \A i \in 1..Len(lines) : lines[i] = all[end - Len(lines) + i]

Rings == \A b \in Buffers : Len(ring[b]) <= Size /\ Slice(ring[b], inserted[b], Len(inserted[b]))

(* The lines of one drain are in its order.                                *)
InTurn(lines) ==
  \A i, j \in 1..Len(lines) : i < j /\ lines[i][1] = lines[j][1] => lines[i][2] < lines[j][2]

Journal ==
  \A b \in Buffers :
    /\ IsInjective(inserted[b]) /\ IsInjective(sent[b])
    /\ InTurn(inserted[b]) /\ InTurn(sent[b])
    /\ ToSet(inserted[b]) = ToSet(sent[b]) \cup Pushing(b)
    /\ ToSet(sent[b]) \cap Pushing(b) = {}
    /\ \A x \in ToSet(inserted[b]) :
         drain[x[1]].at # "new" /\ drain[x[1]].buffer = b /\ x[2] <= drain[x[1]].lines

(* What came from the channel is in the channel's order; and of what was   *)
(* being pushed at the subscription, no drain had sent a later line.       *)
InPlace(f, out) ==
  \A i, j \in 1..Len(f.live) : i < j =>
    \E k, l \in (f.known + 1)..(f.next - 1) : k < l /\ f.live[i] = out[k] /\ f.live[j] = out[l]

Due(f, in, out) ==
  /\ f.pushing \subseteq ToSet(in)
  /\ \A x \in f.pushing : \A j \in (f.known + 1)..Len(out) : x[1] = out[j][1] => x[2] <= out[j][2]

(* What a follower has had, of `in` that was inserted and `out` that was   *)
(* sent.                                                                   *)
Sees(f, in, out) ==
  /\ f.at \in {"found", "tailed"} => f.live = <<>>
  /\ f.at \in {"tailed", "live", "closed"} => Slice(f.snapshot, in, f.tailed)
  /\ f.at \in {"live", "closed"} =>
       /\ f.known < f.next /\ f.next <= Len(out) + 1
       /\ IsInjective(f.live)
       /\ \A i \in 1..Len(f.live) : \E j \in (f.known + 1)..(f.next - 1) : f.live[i] = out[j]
       /\ \A j \in (f.known + 1)..(f.next - 1) :
            j \in f.lagged \/ \E i \in 1..Len(f.live) : f.live[i] = out[j]
       /\ \A i \in 1..Len(f.snapshot) :
            f.snapshot[i] \in f.pushing \/ \E j \in 1..f.known : f.snapshot[i] = out[j]
       /\ InPlace(f, out) /\ Due(f, in, out)

Seen == follower.at # "none" => Sees(follower, inserted[follower.buffer], sent[follower.buffer])

RingInv == RingType /\ Rings /\ Journal /\ Seen
-----------------------------------------------------------------------------
(* Sequences of lines.                                                     *)
LEMMA SeqIs ==
  ASSUME NEW s \in Seq(Lines)
  PROVE  /\ Len(s) \in Nat /\ DOMAIN s = 1..Len(s)
         /\ \A i \in 1..Len(s) : s[i] \in Lines
         /\ \A x : x \in ToSet(s) <=> \E i \in 1..Len(s) : s[i] = x
<1>1. Len(s) \in Nat /\ DOMAIN s = 1..Len(s) /\ \A i \in 1..Len(s) : s[i] \in Lines
  BY LenProperties, ElementOfSeq
<1> QED BY <1>1 DEF ToSet

LEMMA AppendIs ==
  ASSUME NEW s \in Seq(Lines), NEW x \in Lines
  PROVE  LET t == Append(s, x)
         IN /\ t \in Seq(Lines) /\ Len(t) = Len(s) + 1 /\ t[Len(s) + 1] = x
            /\ \A i \in 1..Len(s) : t[i] = s[i]
            /\ ToSet(t) = ToSet(s) \cup {x}
            /\ IsInjective(s) /\ x \notin ToSet(s) => IsInjective(t)
<1> DEFINE t == Append(s, x)
<1>1. /\ t \in Seq(Lines) /\ Len(t) = Len(s) + 1 /\ t[Len(s) + 1] = x
      /\ \A i \in 1..Len(s) : t[i] = s[i]
  BY AppendProperties
<1>2. /\ Len(s) \in Nat /\ DOMAIN s = 1..Len(s) /\ DOMAIN t = 1..(Len(s) + 1)
      /\ \A y : y \in ToSet(s) <=> \E i \in 1..Len(s) : s[i] = y
      /\ \A y : y \in ToSet(t) <=> \E i \in 1..(Len(s) + 1) : t[i] = y
  <2> HIDE DEF t
  <2> QED BY <1>1, SeqIs
<1> HIDE DEF t
<1>3. ToSet(t) = ToSet(s) \cup {x}
  <2>1. \A y : y \in ToSet(t) <=> y \in ToSet(s) \/ y = x
    BY <1>1, <1>2
  <2> QED BY <2>1
<1>4. IsInjective(s) /\ x \notin ToSet(s) => IsInjective(t)
  BY <1>1, <1>2 DEF IsInjective
<1> QED BY <1>1, <1>3, <1>4 DEF t

LEMMA AppendInTurn ==
  ASSUME NEW s \in Seq(Lines), NEW x \in Lines, InTurn(s),
         \A y \in ToSet(s) : y[1] = x[1] => y[2] < x[2]
  PROVE  InTurn(Append(s, x))
<1> DEFINE t == Append(s, x)
<1>1. /\ Len(t) = Len(s) + 1 /\ t[Len(s) + 1] = x /\ \A i \in 1..Len(s) : t[i] = s[i]
      /\ Len(s) \in Nat /\ \A i \in 1..Len(s) : s[i] \in ToSet(s)
  BY AppendIs, SeqIs
<1> HIDE DEF t
<1>2. ASSUME NEW i \in 1..Len(t), NEW j \in 1..Len(t), i < j, t[i][1] = t[j][1]
      PROVE  t[i][2] < t[j][2]
  <2>1. i \in 1..Len(s)
    BY <1>1, <1>2
  <2>2. CASE j = Len(s) + 1
    BY <1>1, <1>2, <2>1, <2>2
  <2>3. CASE j # Len(s) + 1
    <3>1. j \in 1..Len(s)
      BY <1>1, <2>3
    <3> QED BY <1>1, <1>2, <2>1, <3>1 DEF InTurn
  <2> QED BY <2>2, <2>3
<1>3. InTurn(t)
  BY <1>2 DEF InTurn
<1> QED BY <1>3 DEF t

LEMMA TailIs ==
  ASSUME NEW s \in Seq(Lines), Len(s) >= 1
  PROVE  /\ Tail(s) \in Seq(Lines) /\ Len(Tail(s)) = Len(s) - 1
         /\ \A i \in 1..(Len(s) - 1) : Tail(s)[i] = s[i + 1]
<1>1. s # <<>>
  BY EmptySeq
<1>2. Tail(s) \in Seq(Lines) /\ Len(Tail(s)) = Len(s) - 1
  BY <1>1, HeadTailProperties
<1>3. \A i \in 1..Len(Tail(s)) : Tail(s)[i] = s[i + 1]
  BY <1>1, HeadTailProperties
<1> QED BY <1>2, <1>3

(* The last lines a ring has, as tail() returns them.                      *)
LEMMA TailOfIs ==
  ASSUME NEW s \in Seq(Lines), NEW n \in Nat
  PROVE  /\ TailOf(s, n) \in Seq(Lines) /\ Len(TailOf(s, n)) <= Len(s)
         /\ \A i \in 1..Len(TailOf(s, n)) : TailOf(s, n)[i] = s[Len(s) - Len(TailOf(s, n)) + i]
<1> DEFINE m == IF Len(s) > n THEN Len(s) - n + 1 ELSE 1
<1>1. Len(s) \in Nat /\ m \in Nat /\ m >= 1 /\ m <= Len(s) + 1
  BY SeqIs
<1> HIDE DEF m
<1>2. /\ SubSeq(s, m, Len(s)) \in Seq(Lines)
      /\ Len(SubSeq(s, m, Len(s))) = IF m <= Len(s) THEN Len(s) - m + 1 ELSE 0
  BY <1>1
<1>3. \A i \in 1..(Len(s) - m + 1) : SubSeq(s, m, Len(s))[i] = s[m + i - 1]
  BY <1>1
<1>4. Len(SubSeq(s, m, Len(s))) = Len(s) - m + 1
  BY <1>1, <1>2
<1>5. TailOf(s, n) = SubSeq(s, m, Len(s))
  BY DEF TailOf, m
<1> DEFINE t == SubSeq(s, m, Len(s))
<1> HIDE DEF t
<1>6. t \in Seq(Lines) /\ Len(t) = Len(s) - m + 1 /\ \A i \in 1..(Len(s) - m + 1) : t[i] = s[m + i - 1]
  BY <1>2, <1>3, <1>4 DEF t
<1>7. Len(t) <= Len(s) /\ \A i \in 1..Len(t) : t[i] = s[Len(s) - Len(t) + i]
  <2>1. \A i \in 1..Len(t) : i \in 1..(Len(s) - m + 1) /\ m + i - 1 = Len(s) - Len(t) + i
    BY <1>1, <1>6
  <2> QED BY <1>1, <1>6, <2>1
<1> QED BY <1>5, <1>6, <1>7 DEF t

(* A slice stays one when lines are appended to the whole, and is part of  *)
(* it.                                                                     *)
LEMMA SliceStays ==
  ASSUME NEW s \in Seq(Lines), NEW all \in Seq(Lines), NEW x \in Lines, NEW end \in Nat,
         Slice(s, all, end)
  PROVE  Slice(s, Append(all, x), end)
BY AppendIs, SeqIs DEF Slice

LEMMA SliceIs ==
  ASSUME NEW s \in Seq(Lines), NEW all \in Seq(Lines), NEW end \in Nat, Slice(s, all, end)
  PROVE  ToSet(s) \subseteq ToSet(all) /\ (IsInjective(all) => IsInjective(s))
<1>1. Len(s) \in Nat /\ Len(all) \in Nat /\ DOMAIN s = 1..Len(s) /\ DOMAIN all = 1..Len(all)
  BY SeqIs
<1>2. \A i \in 1..Len(s) : end - Len(s) + i \in 1..Len(all) /\ s[i] = all[end - Len(s) + i]
  BY <1>1 DEF Slice
<1>3. ToSet(s) \subseteq ToSet(all)
  BY <1>1, <1>2 DEF ToSet
<1>4. ASSUME IsInjective(all) PROVE IsInjective(s)
  <2>1. ASSUME NEW i \in 1..Len(s), NEW j \in 1..Len(s), s[i] = s[j] PROVE i = j
    <3>1. end - Len(s) + i = end - Len(s) + j
      BY <1>1, <1>2, <1>4, <2>1 DEF IsInjective
    <3> QED BY <1>1, <3>1
  <2> QED BY <1>1, <2>1 DEF IsInjective
<1> QED BY <1>3, <1>4

LEMMA SliceOfSlice ==
  ASSUME NEW s \in Seq(Lines), NEW mid \in Seq(Lines), NEW all \in Seq(Lines),
         Slice(s, mid, Len(mid)), Slice(mid, all, Len(all))
  PROVE  Slice(s, all, Len(all))
<1>1. Len(s) \in Nat /\ Len(mid) \in Nat /\ Len(all) \in Nat /\ Len(s) <= Len(mid) /\ Len(mid) <= Len(all)
  BY SeqIs DEF Slice
<1>2. ASSUME NEW i \in 1..Len(s) PROVE s[i] = all[Len(all) - Len(s) + i]
  <2>1. Len(mid) - Len(s) + i \in 1..Len(mid) /\ s[i] = mid[Len(mid) - Len(s) + i]
    BY <1>1 DEF Slice
  <2>2. mid[Len(mid) - Len(s) + i] = all[Len(all) - Len(mid) + (Len(mid) - Len(s) + i)]
    BY <2>1 DEF Slice
  <2>3. Len(all) - Len(mid) + (Len(mid) - Len(s) + i) = Len(all) - Len(s) + i
    BY <1>1
  <2> QED BY <2>1, <2>2, <2>3
<1> QED BY <1>1, <1>2 DEF Slice

(* push() drops the oldest line of a full ring, so that it stays the end   *)
(* of what was inserted.                                                   *)
LEMMA PushedIs ==
  ASSUME NEW s \in Seq(Lines), NEW all \in Seq(Lines), NEW x \in Lines,
         Len(s) <= Size, Slice(s, all, Len(all))
  PROVE  /\ Pushed(s, x) \in Seq(Lines) /\ Len(Pushed(s, x)) <= Size
         /\ Slice(Pushed(s, x), Append(all, x), Len(Append(all, x)))
<1>1. Size \in Nat /\ Size >= 1
  BY RingAssumption DEF Size
<1>2. /\ Len(s) \in Nat /\ Len(all) \in Nat /\ Len(s) <= Len(all)
      /\ \A i \in 1..Len(s) : s[i] = all[Len(all) - Len(s) + i]
  BY SeqIs DEF Slice
<1> DEFINE whole == Append(all, x)
<1>3. /\ whole \in Seq(Lines) /\ Len(whole) = Len(all) + 1 /\ whole[Len(all) + 1] = x
      /\ \A i \in 1..Len(all) : whole[i] = all[i]
  BY AppendIs
<1> HIDE DEF whole
<1>4. CASE Len(s) >= Size
  <2> DEFINE t == Tail(s)
             u == Append(t, x)
  <2>1. t \in Seq(Lines) /\ Len(t) = Len(s) - 1 /\ \A i \in 1..(Len(s) - 1) : t[i] = s[i + 1]
    BY <1>1, <1>2, <1>4, TailIs
  <2> HIDE DEF t
  <2>2. u \in Seq(Lines) /\ Len(u) = Len(s) /\ u[Len(s)] = x /\ \A i \in 1..(Len(s) - 1) : u[i] = s[i + 1]
    <3>1. u \in Seq(Lines) /\ Len(u) = Len(t) + 1 /\ u[Len(t) + 1] = x /\ \A i \in 1..Len(t) : u[i] = t[i]
      BY <2>1, AppendIs
    <3> QED BY <1>2, <2>1, <3>1
  <2> HIDE DEF u
  <2>3. ASSUME NEW i \in 1..Len(u) PROVE u[i] = whole[Len(whole) - Len(u) + i]
    <3>1. CASE i = Len(s)
      BY <1>2, <1>3, <2>2, <3>1
    <3>2. CASE i # Len(s)
      <4>1. i + 1 \in 1..Len(s) /\ u[i] = s[i + 1] /\ Len(all) - Len(s) + (i + 1) \in 1..Len(all)
        BY <1>2, <2>2, <3>2
      <4>2. s[i + 1] = all[Len(all) - Len(s) + (i + 1)]
        BY <1>2, <4>1
      <4>3. Len(whole) - Len(u) + i = Len(all) - Len(s) + (i + 1)
        BY <1>2, <1>3, <2>2
      <4>4. whole[Len(all) - Len(s) + (i + 1)] = all[Len(all) - Len(s) + (i + 1)]
        BY <1>3, <4>1
      <4> QED BY <4>1, <4>2, <4>3, <4>4
    <3> QED BY <3>1, <3>2
  <2>4. Slice(u, whole, Len(whole))
    BY <1>2, <1>3, <2>2, <2>3 DEF Slice
  <2>5. Pushed(s, x) = u
    BY <1>4 DEF Pushed, u, t
  <2> QED BY <2>2, <2>4, <2>5 DEF whole
<1>5. CASE ~(Len(s) >= Size)
  <2> DEFINE u == Append(s, x)
  <2>1. /\ u \in Seq(Lines) /\ Len(u) = Len(s) + 1 /\ u[Len(s) + 1] = x
        /\ \A i \in 1..Len(s) : u[i] = s[i]
    BY AppendIs
  <2> HIDE DEF u
  <2>2. ASSUME NEW i \in 1..Len(u) PROVE u[i] = whole[Len(whole) - Len(u) + i]
    <3>1. CASE i = Len(s) + 1
      BY <1>2, <1>3, <2>1, <3>1
    <3>2. CASE i # Len(s) + 1
      <4>1. i \in 1..Len(s) /\ u[i] = s[i] /\ Len(all) - Len(s) + i \in 1..Len(all)
        BY <1>2, <2>1, <3>2
      <4> QED BY <1>2, <1>3, <2>1, <4>1
    <3> QED BY <3>1, <3>2
  <2>3. Slice(u, whole, Len(whole))
    BY <1>2, <1>3, <2>1, <2>2 DEF Slice
  <2>4. Pushed(s, x) = u
    BY <1>5 DEF Pushed, u
  <2> QED BY <1>1, <1>2, <1>5, <2>1, <2>3, <2>4 DEF whole
<1> QED BY <1>4, <1>5

LEMMA InitRing == Init => RingInv
<1> SUFFICES ASSUME Init PROVE RingInv
  OBVIOUS
<1>1. <<>> \in Seq(Lines) /\ Len(<<>>) = 0 /\ DOMAIN <<>> = {}
  BY EmptySeq, LenProperties
<1>2. RingType
  <2>1. NoFollower \in Followers /\ NoFollower.buffer = 0 /\ NoFollower.at = "none"
    BY <1>1, RingAssumption DEF NoFollower, Followers
  <2>2. NewDrain \in DrainsAt /\ NewDrain.at = "new"
    BY RingAssumption DEF NewDrain, DrainsAt
  <2> QED BY <1>1, <2>1, <2>2, RingAssumption DEF Init, RingType
<1>3. Rings
  <2>1. Size \in Nat
    BY RingAssumption DEF Size
  <2> QED BY <1>1, <2>1 DEF Init, Rings, Slice
<1>4. Journal
  <2>1. \A b \in Buffers : Pushing(b) = {}
    BY DEF Init, NewDrain, Pushing
  <2>2. IsInjective(<<>>) /\ ToSet(<<>>) = {} /\ InTurn(<<>>)
    BY <1>1 DEF IsInjective, ToSet, InTurn
  <2> QED BY <2>1, <2>2 DEF Init, Journal
<1>5. Seen
  BY DEF Init, Seen, NoFollower
<1> QED BY <1>2, <1>3, <1>4, <1>5 DEF RingInv
-----------------------------------------------------------------------------
(* What a follower has seen is not undone by what comes later.             *)
LEMMA SeesStays ==
  ASSUME NEW f \in Followers, NEW in \in Seq(Lines), NEW out \in Seq(Lines), NEW x \in Lines,
         Sees(f, in, out)
  PROVE  /\ Sees(f, Append(in, x), out)
         /\ (\A y \in f.pushing : y[1] = x[1] => y[2] <= x[2]) => Sees(f, in, Append(out, x))
<1>1. f.tailed \in Nat /\ f.snapshot \in Seq(Lines) /\ f.live \in Seq(Lines) /\ f.known \in Nat /\ f.next \in Nat
  BY DEF Followers
<1>2. Sees(f, Append(in, x), out)
  <2>1. f.at \in {"tailed", "live", "closed"} => Slice(f.snapshot, Append(in, x), f.tailed)
    BY <1>1, SliceStays DEF Sees
  <2>2. f.at \in {"live", "closed"} => Due(f, Append(in, x), out)
    <3>1. ToSet(in) \subseteq ToSet(Append(in, x))
      BY AppendIs
    <3> QED BY <3>1 DEF Sees, Due
  <2> QED BY <2>1, <2>2 DEF Sees
<1>3. ASSUME \A y \in f.pushing : y[1] = x[1] => y[2] <= x[2]
      PROVE  Sees(f, in, Append(out, x))
  <2> DEFINE more == Append(out, x)
  <2>1. /\ Len(out) \in Nat /\ Len(more) = Len(out) + 1 /\ \A j \in 1..Len(out) : more[j] = out[j]
        /\ more[Len(out) + 1] = x
    BY AppendIs, SeqIs
  <2> HIDE DEF more
  <2>2. ASSUME f.at \in {"live", "closed"}
        PROVE  /\ f.known < f.next /\ f.next <= Len(more) + 1
               /\ \A i \in 1..Len(f.live) : \E j \in (f.known + 1)..(f.next - 1) : f.live[i] = more[j]
               /\ \A j \in (f.known + 1)..(f.next - 1) :
                    j \in f.lagged \/ \E i \in 1..Len(f.live) : f.live[i] = more[j]
               /\ \A i \in 1..Len(f.snapshot) :
                    f.snapshot[i] \in f.pushing \/ \E j \in 1..f.known : f.snapshot[i] = more[j]
               /\ InPlace(f, more) /\ Due(f, in, more)
    <3>1. /\ f.known < f.next /\ f.next <= Len(out) + 1
          /\ \A i \in 1..Len(f.live) : \E j \in (f.known + 1)..(f.next - 1) : f.live[i] = out[j]
          /\ \A j \in (f.known + 1)..(f.next - 1) :
               j \in f.lagged \/ \E i \in 1..Len(f.live) : f.live[i] = out[j]
          /\ \A i \in 1..Len(f.snapshot) :
               f.snapshot[i] \in f.pushing \/ \E j \in 1..f.known : f.snapshot[i] = out[j]
          /\ InPlace(f, out) /\ Due(f, in, out)
      BY <2>2 DEF Sees
    <3>2. /\ \A j \in (f.known + 1)..(f.next - 1) : more[j] = out[j]
          /\ \A j \in 1..f.known : more[j] = out[j]
      <4>1. \A j \in (f.known + 1)..(f.next - 1) : j \in 1..Len(out)
        BY <1>1, <2>1, <3>1
      <4>2. \A j \in 1..f.known : j \in 1..Len(out)
        BY <1>1, <2>1, <3>1
      <4> QED BY <2>1, <4>1, <4>2
    <3>3. f.next <= Len(more) + 1
      BY <1>1, <2>1, <3>1
    <3>4. \A i \in 1..Len(f.live) : \E j \in (f.known + 1)..(f.next - 1) : f.live[i] = more[j]
      BY <3>1, <3>2
    <3>5. InPlace(f, more)
      BY <3>1, <3>2 DEF InPlace
    <3>6. Due(f, in, more)
      <4> SUFFICES ASSUME NEW y \in f.pushing, NEW j \in (f.known + 1)..Len(more), y[1] = more[j][1]
                   PROVE  y[2] <= more[j][2]
        BY <3>1 DEF Due
      <4>1. CASE j = Len(out) + 1
        BY <1>3, <2>1, <4>1
      <4>2. CASE j # Len(out) + 1
        <5>1. j \in 1..Len(out) /\ j \in (f.known + 1)..Len(out)
          BY <1>1, <2>1, <4>2
        <5> QED BY <2>1, <3>1, <5>1 DEF Due
      <4> QED BY <4>1, <4>2
    <3> QED BY <3>1, <3>2, <3>3, <3>4, <3>5, <3>6
  <2> QED BY <2>2 DEF Sees, more
<1> QED BY <1>2, <1>3

(* The types of what the steps work on.                                    *)
LEMMA RingTypes ==
  ASSUME RingInv
  PROVE  /\ MaxBuffers \in Nat /\ MaxLines \in Nat
         /\ \A b \in Buffers : ring[b] \in Seq(Lines) /\ inserted[b] \in Seq(Lines) /\ sent[b] \in Seq(Lines)
         /\ \A d \in Drains : drain[d] \in DrainsAt /\ drain[d].lines \in 0..MaxLines
         /\ follower \in Followers
BY RingAssumption DEF RingInv, RingType, DrainsAt

(* BufferFor gives the buffer there is, or the next one.                   *)
LEMMA BufferForIs ==
  ASSUME RingInv, NEW b \in Buffers, BufferFor(b)
  PROVE  /\ store' \in 0..buffers' /\ buffers' \in buffers..MaxBuffers /\ b <= buffers'
         /\ buffers \in Nat
BY RingAssumption DEF RingInv, RingType, BufferFor, Buffers

(* A step of a drain outside push(), of the store, or of the follower.     *)
LEMMA OthersKeep ==
  ASSUME RingInv,
         store' \in 0..buffers', buffers' \in buffers..MaxBuffers,
         UNCHANGED <<ring, inserted, sent>>,
         drain' \in [Drains -> DrainsAt],
         \A d \in Drains :
           /\ drain'[d].at = "pushing" <=> drain[d].at = "pushing"
           /\ drain[d].at # "new" =>
                drain'[d].at # "new" /\ drain'[d].buffer = drain[d].buffer /\ drain'[d].lines = drain[d].lines
           /\ drain'[d].at # "new" => drain'[d].buffer \in Buffers,
         follower' \in Followers, follower'.buffer <= buffers',
         follower'.at # "none" => follower'.buffer \in Buffers,
         Seen'
  PROVE  RingInv'
<1>1. RingType'
  BY RingAssumption DEF RingInv, RingType
<1>2. Rings'
  BY DEF RingInv, Rings
<1>3. ASSUME NEW b \in Buffers PROVE Pushing(b)' = Pushing(b)
  BY DEF Pushing, Line
<1>4. Journal'
  <2>1. ASSUME NEW b \in Buffers, NEW x \in ToSet(inserted[b])
        PROVE  drain'[x[1]].at # "new" /\ drain'[x[1]].buffer = b /\ x[2] <= drain'[x[1]].lines
    <3>1. x \in Lines /\ x[1] \in Drains
      <4>1. \E i \in 1..Len(inserted[b]) : inserted[b][i] = x
        BY RingTypes, SeqIs
      <4> QED BY <4>1, RingTypes, SeqIs DEF Lines
    <3>2. drain[x[1]].at # "new" /\ drain[x[1]].buffer = b /\ x[2] <= drain[x[1]].lines
      BY DEF RingInv, Journal
    <3> QED BY <3>1, <3>2
  <2> QED BY <1>3, <2>1 DEF RingInv, Journal
<1> QED BY <1>1, <1>2, <1>4 DEF RingInv

LEMMA DrainKeeps ==
  ASSUME RingInv, NEW d \in Drains, DrainStarts(d) \/ DrainEnds(d)
  PROVE  RingInv'
<1>1. /\ UNCHANGED <<ring, inserted, sent, follower>> /\ follower \in Followers
      /\ drain \in [Drains -> DrainsAt] /\ \A e \in Drains : drain[e] \in DrainsAt
      /\ \A e \in Drains : drain[e].at # "new" => drain[e].buffer \in Buffers
      /\ store \in 0..buffers /\ buffers \in 0..MaxBuffers /\ follower.buffer <= buffers
      /\ follower.at # "none" => follower.buffer \in Buffers
      /\ follower.buffer \in Nat
  BY RingTypes DEF DrainStarts, DrainEnds, bufferVars, RingInv, RingType, Followers
<1>2. Seen'
  BY <1>1 DEF RingInv, Seen
<1>3. CASE DrainStarts(d)
  <2>1. PICK b \in Buffers : BufferFor(b) /\ drain' = [drain EXCEPT ![d].at = "reading", ![d].buffer = b]
    BY <1>3 DEF DrainStarts
  <2>2. drain[d].at = "new"
    BY <1>3 DEF DrainStarts
  <2>3. /\ drain' \in [Drains -> DrainsAt] /\ drain'[d].at = "reading" /\ drain'[d].buffer = b
        /\ \A e \in Drains \ {d} : drain'[e] = drain[e]
    <3> DEFINE r == [drain[d] EXCEPT !.at = "reading", !.buffer = b]
    <3>1. r \in DrainsAt /\ r.at = "reading" /\ r.buffer = b
      <4>1. drain[d] \in DrainsAt /\ b \in 0..MaxBuffers
        BY <1>1, RingAssumption DEF Buffers
      <4> QED BY <4>1 DEF DrainsAt
    <3>2. drain' = [drain EXCEPT ![d] = r]
      BY <2>1
    <3> HIDE DEF r
    <3> QED BY <1>1, <3>1, <3>2
  <2> QED BY <1>1, <1>2, <2>1, <2>2, <2>3, BufferForIs, OthersKeep
<1>4. CASE DrainEnds(d)
  <2>1. /\ drain[d].at = "reading" /\ drain' = [drain EXCEPT ![d].at = "ended"]
        /\ store' = store /\ buffers' = buffers
    BY <1>4 DEF DrainEnds
  <2>2. /\ drain' \in [Drains -> DrainsAt] /\ drain'[d].at = "ended"
        /\ drain'[d].buffer = drain[d].buffer /\ drain'[d].lines = drain[d].lines
        /\ \A e \in Drains \ {d} : drain'[e] = drain[e]
    BY <1>1, <2>1 DEF DrainsAt
  <2> QED BY <1>1, <1>2, <2>1, <2>2, OthersKeep
<1> QED BY <1>3, <1>4

(* push() in the lock: the line is new, and its drain is at it now.        *)
LEMMA InsertKeeps ==
  ASSUME RingInv, NEW d \in Drains, Insert(d)
  PROVE  RingInv'
<1>1. /\ drain[d].at = "reading" /\ drain[d].lines < MaxLines
      /\ UNCHANGED <<store, buffers, sent, follower>>
  BY DEF Insert
<1>2. /\ drain[d] \in DrainsAt /\ drain[d].buffer \in Buffers /\ drain[d].lines \in Nat
      /\ drain \in [Drains -> DrainsAt] /\ <<d, drain[d].lines + 1>> \in Lines
  BY <1>1, RingTypes DEF RingInv, RingType, Lines
<1>3. PICK b \in Buffers, x \in Lines, r \in DrainsAt :
        /\ b = drain[d].buffer /\ x = <<d, drain[d].lines + 1>>
        /\ drain' = [drain EXCEPT ![d] = r]
        /\ r.at = "pushing" /\ r.buffer = drain[d].buffer /\ r.lines = drain[d].lines + 1
  <2> DEFINE e == [drain[d] EXCEPT !.at = "pushing", !.lines = drain[d].lines + 1]
  <2>1. drain[d].lines + 1 \in 0..MaxLines
    BY <1>1, <1>2, RingTypes
  <2>2. ASSUME NEW f \in DrainsAt, NEW n \in 0..MaxLines
        PROVE  /\ [f EXCEPT !.at = "pushing", !.lines = n] \in DrainsAt
               /\ [f EXCEPT !.at = "pushing", !.lines = n].at = "pushing"
               /\ [f EXCEPT !.at = "pushing", !.lines = n].buffer = f.buffer
               /\ [f EXCEPT !.at = "pushing", !.lines = n].lines = n
    BY DEF DrainsAt
  <2>3. /\ e \in DrainsAt /\ e.at = "pushing"
        /\ e.buffer = drain[d].buffer /\ e.lines = drain[d].lines + 1
    BY <1>2, <2>1, <2>2, Zenon
  <2>4. drain' = [drain EXCEPT ![d] = e]
    BY DEF Insert
  <2> HIDE DEF e
  <2> QED BY <1>2, <2>3, <2>4
<1>0. r.at = "pushing" /\ r.buffer = b /\ r.lines = drain[d].lines + 1
  BY <1>3
<1>4. drain' \in [Drains -> DrainsAt] /\ drain'[d] = r /\ \A e \in Drains \ {d} : drain'[e] = drain[e]
  BY <1>2, <1>3
<1>6. Line(d)' = x
  BY <1>0, <1>3, <1>4 DEF Line
<1>7. /\ ring' = [ring EXCEPT ![b] = Pushed(ring[b], x)]
      /\ inserted' = [inserted EXCEPT ![b] = Append(inserted[b], x)]
  BY <1>3, <1>6 DEF Insert
<1>8. /\ ring \in [Buffers -> Seq(Lines)] /\ inserted \in [Buffers -> Seq(Lines)]
      /\ ring[b] \in Seq(Lines) /\ inserted[b] \in Seq(Lines) /\ sent[b] \in Seq(Lines)
  BY DEF RingInv, RingType
<1>9. /\ ring'[b] = Pushed(ring[b], x) /\ inserted'[b] = Append(inserted[b], x)
      /\ \A c \in Buffers \ {b} : ring'[c] = ring[c] /\ inserted'[c] = inserted[c]
  BY <1>7, <1>8
<1>10. /\ Pushed(ring[b], x) \in Seq(Lines) /\ Len(Pushed(ring[b], x)) <= Size
       /\ Slice(Pushed(ring[b], x), Append(inserted[b], x), Len(Append(inserted[b], x)))
  BY <1>8, PushedIs DEF RingInv, Rings
<1>11. /\ Append(inserted[b], x) \in Seq(Lines) /\ ToSet(inserted'[b]) = ToSet(inserted[b]) \cup {x}
       /\ IsInjective(inserted[b]) /\ x \notin ToSet(inserted[b]) => IsInjective(inserted'[b])
  <2>1. LET t == Append(inserted[b], x)
        IN /\ t \in Seq(Lines) /\ ToSet(t) = ToSet(inserted[b]) \cup {x}
           /\ IsInjective(inserted[b]) /\ x \notin ToSet(inserted[b]) => IsInjective(t)
    BY <1>8, AppendIs
  <2> QED BY <1>9, <2>1
<1>12. RingType'
  <2>1. ring' \in [Buffers -> Seq(Lines)] /\ inserted' \in [Buffers -> Seq(Lines)]
    BY <1>7, <1>8, <1>10, <1>11
  <2>2. \A e \in Drains : drain'[e].at # "new" => drain'[e].buffer \in Buffers
    BY <1>0, <1>3, <1>4 DEF RingInv, RingType
  <2> QED BY <1>1, <1>4, <2>1, <2>2 DEF RingInv, RingType
<1>13. Rings'
  BY <1>9, <1>10 DEF RingInv, Rings
<1>14. Journal'
  <2>1. x \notin ToSet(inserted[b])
    BY <1>2, <1>3 DEF RingInv, Journal
  <2>2. Pushing(b)' = Pushing(b) \cup {x} /\ \A c \in Buffers \ {b} : Pushing(c)' = Pushing(c)
    <3>1. Line(d)' = x /\ \A e \in Drains \ {d} : Line(e)' = Line(e)
      BY <1>4, <1>6 DEF Line
    <3> HIDE DEF Line
    <3>2. \A c \in Buffers : {e \in Drains : drain'[e].at = "pushing" /\ drain'[e].buffer = c} =
             {e \in Drains : drain[e].at = "pushing" /\ drain[e].buffer = c} \cup (IF c = b THEN {d} ELSE {})
      BY <1>0, <1>1, <1>3, <1>4
    <3>3. d \notin {e \in Drains : drain[e].at = "pushing" /\ drain[e].buffer = b}
      BY <1>1
    <3> QED BY <1>1, <3>1, <3>2, <3>3 DEF Pushing
  <2>3. ASSUME NEW c \in Buffers, NEW y \in ToSet(inserted'[c])
        PROVE  drain'[y[1]].at # "new" /\ drain'[y[1]].buffer = c /\ y[2] <= drain'[y[1]].lines
    <3>1. CASE c = b /\ y = x
      BY <1>0, <1>2, <1>3, <1>4, <3>1
    <3>2. CASE ~(c = b /\ y = x)
      <4>1. y \in ToSet(inserted[c])
        BY <1>9, <1>11, <2>3, <3>2
      <4>2. y[1] \in Drains /\ y[2] \in Nat
        <5>1. \E i \in 1..Len(inserted[c]) : inserted[c][i] = y
          BY <4>1, RingTypes, SeqIs
        <5> QED BY <5>1, RingTypes, SeqIs DEF Lines
      <4>3. drain[y[1]].at # "new" /\ drain[y[1]].buffer = c /\ y[2] <= drain[y[1]].lines
        BY <4>1 DEF RingInv, Journal
      <4>4. CASE y[1] = d
        BY <1>0, <1>2, <1>3, <1>4, <4>2, <4>3, <4>4
      <4>5. CASE y[1] # d
        BY <1>4, <4>2, <4>3, <4>5
      <4> QED BY <4>4, <4>5
    <3> QED BY <3>1, <3>2
  <2>5. InTurn(inserted'[b])
    <3>1. ASSUME NEW y \in ToSet(inserted[b]), y[1] = x[1] PROVE y[2] < x[2]
      <4>1. y[2] <= drain[d].lines /\ y \in Lines /\ x[1] = d /\ x[2] = drain[d].lines + 1
        <5>1. \E i \in 1..Len(inserted[b]) : inserted[b][i] = y
          BY RingTypes, SeqIs
        <5> QED BY <1>3, <3>1, <5>1, RingTypes, SeqIs DEF RingInv, Journal
      <4> QED BY <1>2, <4>1 DEF Lines
    <3>2. InTurn(inserted[b])
      BY DEF RingInv, Journal
    <3> QED BY <1>8, <1>9, <3>1, <3>2, AppendInTurn
  <2>4. ASSUME NEW c \in Buffers
        PROVE  /\ IsInjective(inserted'[c]) /\ IsInjective(sent[c])
               /\ InTurn(inserted'[c]) /\ InTurn(sent[c])
               /\ ToSet(inserted'[c]) = ToSet(sent[c]) \cup Pushing(c)'
               /\ ToSet(sent[c]) \cap Pushing(c)' = {}
    <3>1. /\ IsInjective(inserted[c]) /\ IsInjective(sent[c])
          /\ InTurn(inserted[c]) /\ InTurn(sent[c])
          /\ ToSet(inserted[c]) = ToSet(sent[c]) \cup Pushing(c)
          /\ ToSet(sent[c]) \cap Pushing(c) = {}
      BY DEF RingInv, Journal
    <3>2. CASE c = b
      BY <1>11, <2>1, <2>2, <2>5, <3>1, <3>2
    <3>3. CASE c # b
      BY <1>9, <2>2, <3>1, <3>3
    <3> QED BY <3>2, <3>3
  <2> QED BY <1>1, <2>3, <2>4 DEF Journal
<1>15. Seen'
  <2> SUFFICES ASSUME follower.at # "none"
               PROVE  Sees(follower, inserted'[follower.buffer], sent[follower.buffer])
    BY <1>1 DEF Seen
  <2>1. /\ Sees(follower, inserted[follower.buffer], sent[follower.buffer])
        /\ follower.buffer \in Buffers
    BY DEF RingInv, Seen, RingType
  <2>2. CASE follower.buffer = b
    <3>1. Sees(follower, Append(inserted[b], x), sent[b])
      BY <1>8, <2>1, <2>2, SeesStays, RingTypes
    <3> QED BY <1>9, <2>2, <3>1
  <2>3. CASE follower.buffer # b
    BY <1>9, <2>1, <2>3
  <2> QED BY <2>2, <2>3
<1> QED BY <1>12, <1>13, <1>14, <1>15 DEF RingInv

(* push() after it.                                                        *)
LEMMA SendKeeps ==
  ASSUME RingInv, NEW d \in Drains, Send(d)
  PROVE  RingInv'
<1>1. /\ drain[d].at = "pushing" /\ UNCHANGED <<store, buffers, ring, inserted, follower>>
  BY DEF Send
<1>2. /\ drain[d] \in DrainsAt /\ drain[d].buffer \in Buffers /\ drain \in [Drains -> DrainsAt]
  BY <1>1, RingTypes DEF RingInv, RingType
<1>3. PICK b \in Buffers, x \in {Line(d)}, r \in DrainsAt :
        /\ b = drain[d].buffer /\ x = Line(d)
        /\ r = [at |-> "reading", buffer |-> drain[d].buffer, lines |-> drain[d].lines]
  <2>1. [at |-> "reading", buffer |-> drain[d].buffer, lines |-> drain[d].lines] \in DrainsAt
    BY <1>2 DEF DrainsAt
  <2> QED BY <1>2, <2>1
<1>0. r.at = "reading" /\ r.buffer = b /\ r.lines = drain[d].lines
  BY <1>3
<1>4. drain' \in [Drains -> DrainsAt] /\ drain'[d] = r /\ \A e \in Drains \ {d} : drain'[e] = drain[e]
  <2>1. drain' = [drain EXCEPT ![d] = [drain[d] EXCEPT !.at = "reading"]]
    BY DEF Send
  <2>2. [drain[d] EXCEPT !.at = "reading"] = r
    BY <1>2, <1>3 DEF DrainsAt
  <2>3. drain' = [drain EXCEPT ![d] = r]
    BY <2>1, <2>2, Zenon
  <2> HIDE <2>1, <2>2
  <2> QED BY <1>2, <2>3
<1>5. /\ sent' = [sent EXCEPT ![b] = Append(sent[b], x)]
      /\ sent \in [Buffers -> Seq(Lines)] /\ sent[b] \in Seq(Lines) /\ inserted[b] \in Seq(Lines)
  BY <1>3 DEF Send, RingInv, RingType
<1>6. x \in Pushing(b) /\ x \in ToSet(inserted[b]) /\ x \notin ToSet(sent[b])
  <2>1. x \in Pushing(b)
    BY <1>1, <1>3 DEF Pushing
  <2> QED BY <2>1 DEF RingInv, Journal
<1>7. x \in Lines
  <2>1. \E i \in 1..Len(inserted[b]) : inserted[b][i] = x
    BY <1>5, <1>6, SeqIs
  <2> QED BY <1>5, <2>1, SeqIs
<1>8. sent'[b] = Append(sent[b], x) /\ \A c \in Buffers \ {b} : sent'[c] = sent[c]
  BY <1>5
<1>9. /\ Append(sent[b], x) \in Seq(Lines) /\ ToSet(sent'[b]) = ToSet(sent[b]) \cup {x}
      /\ IsInjective(sent[b]) => IsInjective(sent'[b])
  <2>1. LET t == Append(sent[b], x)
        IN /\ t \in Seq(Lines) /\ ToSet(t) = ToSet(sent[b]) \cup {x}
           /\ IsInjective(sent[b]) /\ x \notin ToSet(sent[b]) => IsInjective(t)
    BY <1>5, <1>7, AppendIs
  <2> QED BY <1>6, <1>8, <2>1
<1>10. RingType'
  <2>1. sent' \in [Buffers -> Seq(Lines)]
    BY <1>5, <1>9
  <2>2. \A e \in Drains : drain'[e].at # "new" => drain'[e].buffer \in Buffers
    BY <1>0, <1>3, <1>4 DEF RingInv, RingType
  <2> QED BY <1>1, <1>4, <2>1, <2>2 DEF RingInv, RingType
<1>11. Rings'
  BY <1>1 DEF RingInv, Rings
<1>12. Journal'
  <2>1. Pushing(b)' = Pushing(b) \ {x} /\ \A c \in Buffers \ {b} : Pushing(c)' = Pushing(c)
    <3>1. \A e \in Drains : Line(e)' = Line(e)
      BY <1>0, <1>4 DEF Line
    <3>2. \A e \in Drains \ {d} : Line(e) # x
      BY <1>3 DEF Line
    <3> HIDE DEF Line
    <3>3. \A c \in Buffers : {e \in Drains : drain'[e].at = "pushing" /\ drain'[e].buffer = c} =
             {e \in Drains : drain[e].at = "pushing" /\ drain[e].buffer = c} \ {d}
      BY <1>0, <1>1, <1>4
    <3>4. \A c \in Buffers \ {b} : d \notin {e \in Drains : drain[e].at = "pushing" /\ drain[e].buffer = c}
      BY <1>3
    <3>5. Line(d) = x
      BY <1>3
    <3> QED BY <3>1, <3>2, <3>3, <3>4, <3>5 DEF Pushing
  <2>2. ASSUME NEW c \in Buffers, NEW y \in ToSet(inserted[c])
        PROVE  drain'[y[1]].at # "new" /\ drain'[y[1]].buffer = c /\ y[2] <= drain'[y[1]].lines
    <3>1. y[1] \in Drains
      <4>1. \E i \in 1..Len(inserted[c]) : inserted[c][i] = y
        BY RingTypes, SeqIs
      <4> QED BY <4>1, RingTypes, SeqIs DEF Lines
    <3>2. drain[y[1]].at # "new" /\ drain[y[1]].buffer = c /\ y[2] <= drain[y[1]].lines
      BY DEF RingInv, Journal
    <3>3. CASE y[1] = d
      BY <1>0, <1>3, <1>4, <3>2, <3>3
    <3>4. CASE y[1] # d
      BY <1>4, <3>1, <3>2, <3>4
    <3> QED BY <3>3, <3>4
  <2>4. InTurn(sent'[b])
    <3>1. ASSUME NEW y \in ToSet(sent[b]), y[1] = x[1] PROVE y[2] < x[2]
      <4>1. y \in ToSet(inserted[b]) /\ y # x
        BY <1>6 DEF RingInv, Journal
      <4>2. y \in Lines /\ x = <<d, drain[d].lines>>
        <5>1. \E i \in 1..Len(inserted[b]) : inserted[b][i] = y
          BY <4>1, RingTypes, SeqIs
        <5> QED BY <1>3, <5>1, RingTypes, SeqIs DEF Line
      <4>3. y[2] <= drain[d].lines
        BY <3>1, <4>1, <4>2 DEF RingInv, Journal
      <4>4. y[2] # drain[d].lines
        BY <3>1, <4>1, <4>2 DEF Lines
      <4> QED BY <1>2, <4>2, <4>3, <4>4 DEF Lines, DrainsAt
    <3>2. InTurn(sent[b])
      BY DEF RingInv, Journal
    <3> QED BY <1>5, <1>7, <1>8, <3>1, <3>2, AppendInTurn
  <2>3. ASSUME NEW c \in Buffers
        PROVE  /\ IsInjective(inserted[c]) /\ IsInjective(sent'[c])
               /\ InTurn(inserted[c]) /\ InTurn(sent'[c])
               /\ ToSet(inserted[c]) = ToSet(sent'[c]) \cup Pushing(c)'
               /\ ToSet(sent'[c]) \cap Pushing(c)' = {}
    <3>1. /\ IsInjective(inserted[c]) /\ IsInjective(sent[c])
          /\ InTurn(inserted[c]) /\ InTurn(sent[c])
          /\ ToSet(inserted[c]) = ToSet(sent[c]) \cup Pushing(c)
          /\ ToSet(sent[c]) \cap Pushing(c) = {}
      BY DEF RingInv, Journal
    <3>2. CASE c = b
      BY <1>6, <1>9, <2>1, <2>4, <3>1, <3>2
    <3>3. CASE c # b
      BY <1>8, <2>1, <3>1, <3>3
    <3> QED BY <3>2, <3>3
  <2> QED BY <1>1, <2>2, <2>3 DEF Journal
<1>13. Seen'
  <2> SUFFICES ASSUME follower.at # "none"
               PROVE  Sees(follower, inserted[follower.buffer], sent'[follower.buffer])
    BY <1>1 DEF Seen
  <2>1. /\ Sees(follower, inserted[follower.buffer], sent[follower.buffer])
        /\ follower.buffer \in Buffers
    BY DEF RingInv, Seen, RingType
  <2>2. CASE follower.buffer = b
    <3>1. CASE follower.at \in {"live", "closed"}
      <4>1. ASSUME NEW y \in follower.pushing, y[1] = x[1] PROVE y[2] <= x[2]
        <5>1. y \in ToSet(inserted[b]) /\ x = <<d, drain[d].lines>>
          BY <1>3, <2>1, <2>2, <3>1 DEF Sees, Due, Line
        <5> QED BY <4>1, <5>1 DEF RingInv, Journal
      <4>2. Sees(follower, inserted[b], Append(sent[b], x))
        BY <1>5, <1>7, <2>1, <2>2, <4>1, SeesStays, RingTypes
      <4> QED BY <1>8, <2>2, <4>2
    <3>2. CASE follower.at \notin {"live", "closed"}
      BY <2>1, <3>2 DEF Sees
    <3> QED BY <3>1, <3>2
  <2>3. CASE follower.buffer # b
    BY <1>8, <2>1, <2>3
  <2> QED BY <2>2, <2>3
<1> QED BY <1>10, <1>11, <1>12, <1>13 DEF RingInv
-----------------------------------------------------------------------------
(* A step of the follower.                                                 *)
LEMMA FollowerKeeps ==
  ASSUME RingInv, store' \in 0..buffers', buffers' \in buffers..MaxBuffers,
         UNCHANGED <<ring, inserted, sent, drain>>,
         NEW f \in Followers, follower' = f, f.buffer \in Buffers, f.buffer <= buffers',
         Sees(f, inserted[f.buffer], sent[f.buffer])
  PROVE  RingInv'
<1>1. Seen'
  BY DEF Seen
<1>2. drain' \in [Drains -> DrainsAt] /\ \A d \in Drains : drain[d].at # "new" => drain[d].buffer \in Buffers
  BY DEF RingInv, RingType
<1> QED BY <1>1, <1>2, OthersKeep

LEMMA FindKeeps == ASSUME RingInv, Find PROVE RingInv'
<1>1. PICK b \in Buffers : BufferFor(b) /\ follower' = [NoFollower EXCEPT !.at = "found", !.buffer = b]
  BY DEF Find
<1>2. UNCHANGED <<ring, inserted, sent, drain>>
  BY DEF Find, bufferVars
<1>3. /\ store' \in 0..buffers' /\ buffers' \in buffers..MaxBuffers /\ b <= buffers'
  BY <1>1, BufferForIs
<1> DEFINE f == [NoFollower EXCEPT !.at = "found", !.buffer = b]
<1>4. f \in Followers /\ f.at = "found" /\ f.buffer = b /\ f.live = <<>>
  <2>1. <<>> \in Seq(Lines) /\ b \in 0..MaxBuffers
    BY EmptySeq, RingTypes DEF Buffers
  <2> QED BY <2>1 DEF Followers, NoFollower
<1> HIDE DEF f
<1>5. Sees(f, inserted[f.buffer], sent[f.buffer])
  BY <1>4 DEF Sees
<1>6. follower' = f
  BY <1>1 DEF f
<1> HIDE <1>1
<1> QED BY <1>2, <1>3, <1>4, <1>5, <1>6, FollowerKeeps

(* The follower, from the moment it has a buffer.                          *)
LEMMA FollowerIs ==
  ASSUME RingInv, follower.at # "none"
  PROVE  /\ follower \in Followers /\ follower.buffer \in Buffers /\ follower.buffer <= buffers
         /\ follower.snapshot \in Seq(Lines) /\ follower.live \in Seq(Lines)
         /\ follower.next \in Nat /\ follower.known \in Nat /\ follower.tailed \in Nat
         /\ follower.lagged \subseteq Nat /\ follower.pushing \subseteq Lines
         /\ Sees(follower, inserted[follower.buffer], sent[follower.buffer])
         /\ ring[follower.buffer] \in Seq(Lines) /\ inserted[follower.buffer] \in Seq(Lines)
         /\ sent[follower.buffer] \in Seq(Lines)
         /\ store \in 0..buffers /\ buffers \in buffers..MaxBuffers
<1>1. follower \in Followers /\ follower.buffer \in Buffers /\ follower.buffer <= buffers
  BY DEF RingInv, RingType
<1>2. /\ follower.snapshot \in Seq(Lines) /\ follower.live \in Seq(Lines)
      /\ follower.next \in Nat /\ follower.known \in Nat /\ follower.tailed \in Nat
      /\ follower.lagged \subseteq Nat /\ follower.pushing \subseteq Lines
  BY <1>1 DEF Followers
<1>3. store \in 0..buffers /\ buffers \in buffers..MaxBuffers
  BY RingTypes DEF RingInv, RingType
<1> QED BY <1>1, <1>2, <1>3, RingTypes DEF RingInv, Seen

LEMMA ReadTailKeeps == ASSUME RingInv, ReadTail PROVE RingInv'
<1>1. /\ follower.at = "found"
      /\ UNCHANGED <<store, buffers, ring, inserted, sent, drain>>
  BY DEF ReadTail, bufferVars
<1>2. PICK b \in Buffers : b = follower.buffer
  BY <1>1, FollowerIs
<1>3. PICK n \in Nat :
        follower' = [follower EXCEPT !.at = "tailed", !.snapshot = TailOf(ring[b], n),
                                     !.tailed = Len(inserted[b])]
  BY <1>2, RingAssumption DEF ReadTail
<1>4. /\ TailOf(ring[b], n) \in Seq(Lines) /\ Len(TailOf(ring[b], n)) <= Len(ring[b])
      /\ \A i \in 1..Len(TailOf(ring[b], n)) :
           TailOf(ring[b], n)[i] = ring[b][Len(ring[b]) - Len(TailOf(ring[b], n)) + i]
  BY RingTypes, TailOfIs
<1>5. PICK t \in Seq(Lines) : t = TailOf(ring[b], n)
  BY <1>4
<1>6. Len(t) \in Nat /\ Len(ring[b]) \in Nat /\ Len(inserted[b]) \in Nat
  BY RingTypes, SeqIs
<1>7. Slice(t, ring[b], Len(ring[b])) /\ Slice(ring[b], inserted[b], Len(inserted[b]))
  <2>1. Slice(t, ring[b], Len(ring[b]))
    BY <1>4, <1>5, <1>6 DEF Slice
  <2> QED BY <2>1 DEF RingInv, Rings
<1>8. Slice(t, inserted[b], Len(inserted[b]))
  BY <1>7, RingTypes, SliceOfSlice
<1> DEFINE f == [follower EXCEPT !.at = "tailed", !.snapshot = t, !.tailed = Len(inserted[b])]
<1>9. /\ f \in Followers /\ f.at = "tailed" /\ f.buffer = b /\ f.snapshot = t /\ f.tailed = Len(inserted[b])
      /\ f.live = follower.live
  BY <1>1, <1>2, <1>6, FollowerIs DEF Followers
<1>10. follower' = f
  BY <1>3, <1>5
<1> HIDE DEF f
<1>11. Sees(f, inserted[f.buffer], sent[f.buffer])
  <2>1. follower.live = <<>>
    BY <1>1, FollowerIs DEF Sees
  <2> QED BY <1>8, <1>9, <2>1 DEF Sees
<1>12. f.buffer \in Buffers /\ f.buffer <= buffers
  BY <1>1, <1>2, <1>9, FollowerIs
<1> HIDE <1>3
<1> QED BY <1>1, <1>9, <1>10, <1>11, <1>12, FollowerIs, FollowerKeeps

LEMMA SubscribeKeeps == ASSUME RingInv, Subscribe PROVE RingInv'
<1>1. /\ follower.at = "tailed"
      /\ UNCHANGED <<store, buffers, ring, inserted, sent, drain>>
  BY DEF Subscribe, bufferVars
<1>2. PICK b \in Buffers, n \in Nat : b = follower.buffer /\ n = Len(sent[b])
  BY <1>1, FollowerIs, SeqIs
<1>3. Pushing(b) \subseteq Lines
  <2>1. \A x \in Pushing(b) : x \in ToSet(inserted[b])
    BY DEF RingInv, Journal
  <2>2. \A x \in ToSet(inserted[b]) : \E i \in 1..Len(inserted[b]) : inserted[b][i] = x
    BY RingTypes, SeqIs
  <2> QED BY <2>1, <2>2, RingTypes, SeqIs
<1>3a. PICK m \in Nat, P \in SUBSET Lines : m = n + 1 /\ P = Pushing(b)
  BY <1>3
<1> DEFINE f == [follower EXCEPT !.at = "live", !.next = m, !.known = n, !.pushing = P]
<1>4. follower' = f
  BY <1>2, <1>3a DEF Subscribe, Joins
<1>5. /\ f \in Followers /\ f.at = "live" /\ f.buffer = b /\ f.next = n + 1 /\ f.known = n
      /\ f.pushing = Pushing(b) /\ f.snapshot = follower.snapshot /\ f.live = follower.live
      /\ f.tailed = follower.tailed
  <2>1. follower \in Followers
    BY <1>1, FollowerIs
  <2>2. /\ f \in Followers /\ f.at = "live" /\ f.buffer = follower.buffer /\ f.next = m /\ f.known = n
        /\ f.pushing = P /\ f.snapshot = follower.snapshot /\ f.live = follower.live
        /\ f.tailed = follower.tailed
    BY <2>1 DEF Followers
  <2> HIDE DEF f
  <2> QED BY <1>2, <1>3a, <2>2
<1> HIDE DEF f
<1>6. follower.live = <<>> /\ Len(<<>>) = 0 /\ IsInjective(<<>>)
  BY <1>1, FollowerIs, EmptySeq, LenProperties DEF Sees, IsInjective
<1>7. ASSUME NEW i \in 1..Len(f.snapshot)
      PROVE  f.snapshot[i] \in f.pushing \/ \E j \in 1..n : f.snapshot[i] = sent[b][j]
  <2>1. Slice(f.snapshot, inserted[b], f.tailed)
    BY <1>1, <1>2, <1>5, FollowerIs DEF Sees
  <2>2. f.snapshot \in Seq(Lines) /\ f.tailed \in Nat /\ inserted[b] \in Seq(Lines) /\ sent[b] \in Seq(Lines)
    BY <1>1, <1>5, FollowerIs, RingTypes
  <2>3. f.snapshot[i] \in ToSet(inserted[b])
    BY <2>1, <2>2, SliceIs, SeqIs
  <2>4. f.snapshot[i] \in Pushing(b) \/ f.snapshot[i] \in ToSet(sent[b])
    BY <2>3 DEF RingInv, Journal
  <2>5. \A x \in ToSet(sent[b]) : \E j \in 1..Len(sent[b]) : sent[b][j] = x
    BY <2>2, SeqIs
  <2> QED BY <1>2, <1>5, <2>4, <2>5
<1>8. Sees(f, inserted[b], sent[b])
  <2>1. Slice(f.snapshot, inserted[b], f.tailed)
    BY <1>1, <1>2, <1>5, FollowerIs DEF Sees
  <2>2. \A j \in (n + 1)..(n + 1 - 1) : FALSE
    OBVIOUS
  <2>3. f.live = <<>> /\ \A i \in 1..Len(f.live) : FALSE
    BY <1>5, <1>6
  <2>4. n < n + 1 /\ n + 1 <= Len(sent[b]) + 1 /\ IsInjective(f.live)
    BY <1>2, <1>6, <2>3
  <2>5. InPlace(f, sent[b])
    BY <2>3 DEF InPlace
  <2>6. Due(f, inserted[b], sent[b])
    <3>1. Pushing(b) \subseteq ToSet(inserted[b])
      BY DEF RingInv, Journal
    <3>2. \A j \in (n + 1)..Len(sent[b]) : FALSE
      BY <1>2
    <3> QED BY <1>5, <3>1, <3>2 DEF Due
  <2> QED BY <1>5, <1>7, <2>1, <2>2, <2>3, <2>4, <2>5, <2>6 DEF Sees
<1>9. b \in Buffers /\ b <= buffers
  BY <1>1, <1>2, FollowerIs
<1> QED BY <1>1, <1>4, <1>5, <1>8, <1>9, FollowerIs, FollowerKeeps

LEMMA RecvKeeps == ASSUME RingInv, Recv PROVE RingInv'
<1>1. /\ follower.at = "live"
      /\ UNCHANGED <<store, buffers, ring, inserted, sent, drain>>
  BY DEF Recv, bufferVars
<1>2. PICK b \in Buffers, n \in Nat, next \in Nat, known \in Nat, oldest \in Nat :
        /\ b = follower.buffer /\ n = Len(sent[b]) /\ next = follower.next /\ known = follower.known
        /\ oldest = Oldest(b) /\ (oldest <= n \/ oldest = 1)
  <2>1. follower.buffer \in Buffers /\ follower.next \in Nat /\ follower.known \in Nat
    BY <1>1, FollowerIs
  <2>2. Len(sent[follower.buffer]) \in Nat
    BY <2>1, RingTypes, SeqIs
  <2>3. /\ Oldest(follower.buffer) \in Nat
        /\ Oldest(follower.buffer) <= Len(sent[follower.buffer]) \/ Oldest(follower.buffer) = 1
    BY <2>2, RingAssumption DEF Oldest
  <2> QED BY <2>1, <2>2, <2>3
<1>3. /\ follower \in Followers /\ follower.live \in Seq(Lines) /\ follower.lagged \subseteq Nat
      /\ sent[b] \in Seq(Lines) /\ b <= buffers
  BY <1>1, <1>2, FollowerIs
<1>4. /\ Slice(follower.snapshot, inserted[b], follower.tailed)
      /\ known < next /\ next <= n + 1
      /\ IsInjective(follower.live)
      /\ \A i \in 1..Len(follower.live) : \E j \in (known + 1)..(next - 1) : follower.live[i] = sent[b][j]
      /\ \A j \in (known + 1)..(next - 1) :
           j \in follower.lagged \/ \E i \in 1..Len(follower.live) : follower.live[i] = sent[b][j]
      /\ \A i \in 1..Len(follower.snapshot) :
           follower.snapshot[i] \in follower.pushing \/ \E j \in 1..known : follower.snapshot[i] = sent[b][j]
      /\ \A i, j \in 1..Len(follower.live) : i < j =>
           \E k, l \in (known + 1)..(next - 1) :
             k < l /\ follower.live[i] = sent[b][k] /\ follower.live[j] = sent[b][l]
      /\ Due(follower, inserted[b], sent[b])
  BY <1>1, <1>2, FollowerIs DEF Sees, InPlace
<1>5. ASSUME NEW f \in Followers, follower' = f, f.buffer = b, Sees(f, inserted[b], sent[b])
      PROVE  RingInv'
  BY <1>1, <1>2, <1>3, <1>5, FollowerIs, FollowerKeeps
<1>6. CASE next < oldest /\ follower' = [follower EXCEPT !.next = oldest, !.lagged = @ \cup (next..(oldest - 1))]
  <2>1. PICK L \in SUBSET Nat : L = follower.lagged \cup (next..(oldest - 1))
    <3>1. \A j \in next..(oldest - 1) : j \in Nat
      OBVIOUS
    <3> QED BY <1>3, <3>1
  <2> DEFINE f == [follower EXCEPT !.next = oldest, !.lagged = L]
  <2>2. /\ f \in Followers /\ f.at = "live" /\ f.buffer = b /\ f.next = oldest /\ f.known = known
        /\ f.pushing = follower.pushing /\ f.snapshot = follower.snapshot /\ f.live = follower.live
        /\ f.tailed = follower.tailed /\ f.lagged = L
    BY <1>1, <1>2, <1>3 DEF Followers
  <2>3. follower' = f
    BY <1>6, <2>1
  <2> HIDE DEF f
  <2>4. known < oldest /\ oldest <= n + 1
    BY <1>2, <1>4, <1>6
  <2>5. \A i \in 1..Len(f.live) : \E j \in (known + 1)..(oldest - 1) : f.live[i] = sent[b][j]
    BY <1>4, <1>6, <2>2
  <2>6. \A j \in (known + 1)..(oldest - 1) : j \in L \/ \E i \in 1..Len(f.live) : f.live[i] = sent[b][j]
    <3>1. \A j \in (known + 1)..(oldest - 1) : j \in (known + 1)..(next - 1) \/ j \in next..(oldest - 1)
      OBVIOUS
    <3> QED BY <1>4, <2>1, <2>2, <3>1
  <2>8. InPlace(f, sent[b])
    <3> SUFFICES ASSUME NEW i \in 1..Len(follower.live), NEW j \in 1..Len(follower.live), i < j
                 PROVE  \E k, l \in (known + 1)..(oldest - 1) :
                          k < l /\ follower.live[i] = sent[b][k] /\ follower.live[j] = sent[b][l]
      BY <2>2 DEF InPlace
    <3>1. PICK k \in (known + 1)..(next - 1), l \in (known + 1)..(next - 1) :
            k < l /\ follower.live[i] = sent[b][k] /\ follower.live[j] = sent[b][l]
      BY <1>4
    <3>2. k \in (known + 1)..(oldest - 1) /\ l \in (known + 1)..(oldest - 1)
      BY <1>6
    <3> QED BY <3>1, <3>2
  <2>9. Due(f, inserted[b], sent[b])
    BY <1>2, <1>4, <2>2 DEF Due
  <2>7. Sees(f, inserted[b], sent[b])
    <3>1. /\ f.known < f.next /\ f.next <= Len(sent[b]) + 1 /\ IsInjective(f.live)
          /\ \A i \in 1..Len(f.live) : \E j \in (f.known + 1)..(f.next - 1) : f.live[i] = sent[b][j]
          /\ \A j \in (f.known + 1)..(f.next - 1) :
               j \in f.lagged \/ \E i \in 1..Len(f.live) : f.live[i] = sent[b][j]
      <4>1. f.known < f.next /\ f.next <= Len(sent[b]) + 1 /\ IsInjective(f.live)
        BY <1>2, <1>4, <2>2, <2>4
      <4>2. \A i \in 1..Len(f.live) : \E j \in (f.known + 1)..(f.next - 1) : f.live[i] = sent[b][j]
        BY <2>2, <2>5
      <4>3. \A j \in (f.known + 1)..(f.next - 1) :
              j \in f.lagged \/ \E i \in 1..Len(f.live) : f.live[i] = sent[b][j]
        BY <2>2, <2>6
      <4> QED BY <4>1, <4>2, <4>3
    <3>2. /\ Slice(f.snapshot, inserted[b], f.tailed)
          /\ \A i \in 1..Len(f.snapshot) :
               f.snapshot[i] \in f.pushing \/ \E j \in 1..f.known : f.snapshot[i] = sent[b][j]
      BY <1>4, <2>2
    <3> QED BY <2>2, <2>8, <2>9, <3>1, <3>2, Zenon DEF Sees
  <2> QED BY <1>5, <2>2, <2>3, <2>7
<1>7. CASE /\ next \in oldest..n
           /\ follower' = [follower EXCEPT !.next = next + 1, !.live = Append(follower.live, sent[b][next])]
  <2>0. next \in 1..n
    BY <1>2, <1>4, <1>7
  <2>1. PICK m \in Nat, x \in Lines : m = next + 1 /\ x = sent[b][next]
    BY <1>2, <1>3, <2>0, SeqIs
  <2>2. PICK t \in Seq(Lines) : t = Append(follower.live, x)
    BY <1>3, AppendIs
  <2> DEFINE f == [follower EXCEPT !.next = m, !.live = t]
  <2>3. /\ f \in Followers /\ f.at = "live" /\ f.buffer = b /\ f.next = m /\ f.known = known
        /\ f.pushing = follower.pushing /\ f.snapshot = follower.snapshot /\ f.live = t
        /\ f.tailed = follower.tailed /\ f.lagged = follower.lagged
    BY <1>1, <1>2, <1>3 DEF Followers
  <2>4. follower' = f
    BY <1>7, <2>1, <2>2
  <2> HIDE DEF f
  <2>5. /\ Len(t) = Len(follower.live) + 1 /\ t[Len(follower.live) + 1] = x
        /\ \A i \in 1..Len(follower.live) : t[i] = follower.live[i]
        /\ IsInjective(follower.live) /\ x \notin ToSet(follower.live) => IsInjective(t)
    BY <1>3, <2>2, AppendIs
  <2>6. Len(follower.live) \in Nat /\ DOMAIN sent[b] = 1..n
    BY <1>2, <1>3, SeqIs
  <2>7. x \notin ToSet(follower.live)
    <3> SUFFICES ASSUME x \in ToSet(follower.live) PROVE FALSE
      OBVIOUS
    <3>1. PICK i \in 1..Len(follower.live) : follower.live[i] = x
      BY <1>3, SeqIs
    <3>2. PICK j \in (known + 1)..(next - 1) : follower.live[i] = sent[b][j]
      BY <1>4
    <3>3. j \in 1..n /\ j # next
      BY <1>4, <2>0
    <3> QED BY <2>0, <2>1, <2>6, <3>1, <3>2, <3>3 DEF RingInv, Journal, IsInjective
  <2>8. \A i \in 1..Len(t) : \E j \in (known + 1)..(m - 1) : t[i] = sent[b][j]
    <3> SUFFICES ASSUME NEW i \in 1..Len(t) PROVE \E j \in (known + 1)..(m - 1) : t[i] = sent[b][j]
      OBVIOUS
    <3>1. CASE i = Len(follower.live) + 1
      <4>1. next \in (known + 1)..(m - 1) /\ t[i] = sent[b][next]
        BY <1>4, <2>1, <2>5, <3>1
      <4> QED BY <4>1
    <3>2. CASE i # Len(follower.live) + 1
      <4>1. i \in 1..Len(follower.live) /\ t[i] = follower.live[i]
        BY <2>5, <2>6, <3>2
      <4>2. PICK j \in (known + 1)..(next - 1) : follower.live[i] = sent[b][j]
        BY <1>4, <4>1
      <4>3. j \in (known + 1)..(m - 1)
        BY <2>1
      <4> QED BY <4>1, <4>2, <4>3
    <3> QED BY <3>1, <3>2
  <2>9. \A j \in (known + 1)..(m - 1) : j \in follower.lagged \/ \E i \in 1..Len(t) : t[i] = sent[b][j]
    <3> SUFFICES ASSUME NEW j \in (known + 1)..(m - 1), j \notin follower.lagged
                 PROVE  \E i \in 1..Len(t) : t[i] = sent[b][j]
      OBVIOUS
    <3>1. CASE j = next
      <4>1. Len(follower.live) + 1 \in 1..Len(t) /\ t[Len(follower.live) + 1] = sent[b][j]
        BY <2>1, <2>5, <2>6, <3>1
      <4> QED BY <4>1
    <3>2. CASE j # next
      <4>1. j \in (known + 1)..(next - 1)
        BY <2>1, <3>2
      <4>2. PICK i \in 1..Len(follower.live) : follower.live[i] = sent[b][j]
        BY <1>4, <4>1
      <4>3. i \in 1..Len(t) /\ t[i] = follower.live[i]
        BY <2>5, <2>6
      <4> QED BY <4>2, <4>3
    <3> QED BY <3>1, <3>2
  <2>10. known < m /\ m <= n + 1 /\ IsInjective(t)
    BY <1>4, <2>0, <2>1, <2>5, <2>7
  <2>11. Sees(f, inserted[b], sent[b])
    <3>1. /\ f.known < f.next /\ f.next <= Len(sent[b]) + 1 /\ IsInjective(f.live)
          /\ \A i \in 1..Len(f.live) : \E j \in (f.known + 1)..(f.next - 1) : f.live[i] = sent[b][j]
          /\ \A j \in (f.known + 1)..(f.next - 1) :
               j \in f.lagged \/ \E i \in 1..Len(f.live) : f.live[i] = sent[b][j]
      <4>1. f.known = known /\ f.next = m /\ f.live = t /\ f.lagged = follower.lagged /\ Len(sent[b]) = n
        BY <1>2, <2>3
      <4> QED BY <2>8, <2>9, <2>10, <4>1
    <3>2. /\ Slice(f.snapshot, inserted[b], f.tailed)
          /\ \A i \in 1..Len(f.snapshot) :
               f.snapshot[i] \in f.pushing \/ \E j \in 1..f.known : f.snapshot[i] = sent[b][j]
      BY <1>4, <2>3
    <3>3. InPlace(f, sent[b])
      <4> SUFFICES ASSUME NEW i \in 1..Len(t), NEW j \in 1..Len(t), i < j
                   PROVE  \E k, l \in (known + 1)..(m - 1) : k < l /\ t[i] = sent[b][k] /\ t[j] = sent[b][l]
        BY <2>3 DEF InPlace
      <4>1. i \in 1..Len(follower.live) /\ t[i] = follower.live[i]
        BY <2>5, <2>6
      <4>2. CASE j = Len(follower.live) + 1
        <5>1. PICK k \in (known + 1)..(next - 1) : follower.live[i] = sent[b][k]
          BY <1>4, <4>1
        <5>2. k \in (known + 1)..(m - 1) /\ next \in (known + 1)..(m - 1) /\ k < next /\ t[j] = sent[b][next]
          BY <1>4, <2>1, <2>5, <4>2
        <5> QED BY <4>1, <5>1, <5>2
      <4>3. CASE j # Len(follower.live) + 1
        <5>1. j \in 1..Len(follower.live) /\ t[j] = follower.live[j]
          BY <2>5, <2>6, <4>3
        <5>2. PICK k \in (known + 1)..(next - 1), l \in (known + 1)..(next - 1) :
                k < l /\ follower.live[i] = sent[b][k] /\ follower.live[j] = sent[b][l]
          BY <1>4, <4>1, <5>1
        <5>3. k \in (known + 1)..(m - 1) /\ l \in (known + 1)..(m - 1)
          BY <2>1
        <5> QED BY <4>1, <5>1, <5>2, <5>3
      <4> QED BY <4>2, <4>3
    <3>4. Due(f, inserted[b], sent[b])
      BY <1>2, <1>4, <2>3 DEF Due
    <3> QED BY <2>3, <3>1, <3>2, <3>3, <3>4, Zenon DEF Sees
  <2> QED BY <1>5, <2>3, <2>4, <2>11
<1>8. CASE follower' = [follower EXCEPT !.at = "closed"]
  <2> DEFINE f == [follower EXCEPT !.at = "closed"]
  <2>2. /\ f \in Followers /\ f.at = "closed" /\ f.buffer = b /\ f.next = next /\ f.known = known
        /\ f.pushing = follower.pushing /\ f.snapshot = follower.snapshot /\ f.live = follower.live
        /\ f.tailed = follower.tailed /\ f.lagged = follower.lagged
    BY <1>1, <1>2, <1>3 DEF Followers
  <2>3. follower' = f
    BY <1>8
  <2> HIDE DEF f
  <2>4. Sees(f, inserted[b], sent[b])
    BY <1>2, <1>4, <2>2 DEF Sees, InPlace, Due
  <2> QED BY <1>5, <2>2, <2>3, <2>4
<1> QED BY <1>2, <1>6, <1>7, <1>8 DEF Recv

LEMMA RingInvariant == Spec => []RingInv
<1>1. RingInv /\ [Next]_vars => RingInv'
  <2> SUFFICES ASSUME RingInv, [Next]_vars PROVE RingInv'
    OBVIOUS
  <2>1. CASE UNCHANGED vars
    <3>1. RingType' /\ Rings' /\ Seen'
      BY <2>1 DEF vars, RingInv, RingType, Rings, Seen
    <3>2. Journal'
      BY <2>1 DEF vars, RingInv, Journal, Pushing, Line
    <3> QED BY <3>1, <3>2 DEF RingInv
  <2>2. CASE RemoveBuffer
    <3>1. store' = 0 /\ UNCHANGED <<buffers, ring, inserted, sent, drain, follower>>
      BY <2>2 DEF RemoveBuffer, bufferVars
    <3>2. buffers \in 0..MaxBuffers /\ store' \in 0..buffers' /\ buffers' \in buffers..MaxBuffers
      BY <3>1, RingTypes DEF RingInv, RingType
    <3>3. drain' \in [Drains -> DrainsAt] /\ \A d \in Drains : drain[d].at # "new" => drain[d].buffer \in Buffers
      BY <3>1 DEF RingInv, RingType
    <3>4. Seen' /\ follower \in Followers /\ follower.buffer <= buffers
          /\ (follower.at # "none" => follower.buffer \in Buffers)
      BY <3>1 DEF RingInv, RingType, Seen
    <3> QED BY <3>1, <3>2, <3>3, <3>4, OthersKeep
  <2> QED BY <2>1, <2>2, DrainKeeps, InsertKeeps, SendKeeps, FindKeeps, ReadTailKeeps, SubscribeKeeps,
             RecvKeeps DEF Next
<1> QED BY <1>1, InitRing, PTL DEF Spec

(* A slice that ends where the whole ends is a suffix of it.               *)
LEMMA SuffixIs ==
  ASSUME NEW s \in Seq(Lines), NEW all \in Seq(Lines), Slice(s, all, Len(all))
  PROVE  IsSuffix(s, all)
<1>1. Len(s) \in Nat /\ Len(all) \in Nat /\ Len(s) <= Len(all)
  BY SeqIs DEF Slice
<1>2. \A i \in 1..Len(s) : s[i] = all[Len(all) - Len(s) + i]
  BY DEF Slice
<1> DEFINE r == Reverse(s)
           q == Reverse(all)
           p == SubSeq(q, 1, Len(s))
<1>3. /\ r \in Seq(Lines) /\ Len(r) = Len(s)
      /\ \A i \in 1..Len(s) : r[i] = s[(Len(s) - i) + 1]
  <2>1. \A i \in 1..Len(s) : (Len(s) - i) + 1 \in 1..Len(s)
    BY <1>1
  <2> QED BY <1>1, <2>1, ElementOfSeq DEF Reverse
<1>4. /\ q \in Seq(Lines) /\ Len(q) = Len(all)
      /\ \A i \in 1..Len(all) : q[i] = all[(Len(all) - i) + 1]
  <2>1. \A i \in 1..Len(all) : (Len(all) - i) + 1 \in 1..Len(all)
    BY <1>1
  <2> QED BY <1>1, <2>1, ElementOfSeq DEF Reverse
<1> HIDE DEF r, q
<1>5. p \in Seq(Lines) /\ Len(p) = Len(s) /\ \A i \in 1..Len(s) : p[i] = q[i]
  BY <1>1, <1>4
<1> HIDE DEF p
<1>6. ASSUME NEW i \in 1..Len(s) PROVE r[i] = p[i]
  <2>1. (Len(s) - i) + 1 \in 1..Len(s) /\ i \in 1..Len(all)
    BY <1>1
  <2>2. s[(Len(s) - i) + 1] = all[Len(all) - Len(s) + ((Len(s) - i) + 1)]
    BY <1>2, <2>1
  <2>3. Len(all) - Len(s) + ((Len(s) - i) + 1) = (Len(all) - i) + 1
    BY <1>1
  <2> QED BY <1>3, <1>4, <1>5, <2>1, <2>2, <2>3
<1>7. r = p
  BY <1>1, <1>3, <1>5, <1>6, SeqEqual
<1>8. SubSeq(r, 1, Len(r)) = r
  BY <1>3, SubSeqFull
<1> QED BY <1>1, <1>3, <1>4, <1>7, <1>8 DEF IsSuffix, IsPrefix, r, q, p

(* The type invariant of LogRing: LogRingBuffer never has more than its    *)
(* capacity, and what it has are the latest lines it was given, whatever   *)
(* push() drops; nothing is sent that was not inserted.                    *)
THEOREM TypesHold == Spec => []TypeOK
<1>1. RingInv => TypeOK
  <2> SUFFICES ASSUME RingInv PROVE TypeOK
    OBVIOUS
  <2>1. /\ store \in 0..buffers /\ buffers \in 0..MaxBuffers
        /\ drain \in [Drains -> [at : {"new", "reading", "pushing", "ended"},
                                 buffer : 0..MaxBuffers, lines : 0..MaxLines]]
    BY DEF RingInv, RingType, DrainsAt
  <2>2. follower.at \in {"none", "found", "tailed", "live", "closed"} /\ follower.buffer \in 0..buffers
    BY RingTypes DEF RingInv, RingType, Followers
  <2>3. ASSUME NEW b \in Buffers
        PROVE  /\ ring[b] \in Seq(Lines) /\ Len(ring[b]) <= Size
               /\ IsSuffix(ring[b], inserted[b])
               /\ ToSet(sent[b]) \subseteq ToSet(inserted[b])
    <3>1. ring[b] \in Seq(Lines) /\ inserted[b] \in Seq(Lines)
      BY RingTypes
    <3>2. Len(ring[b]) <= Size /\ Slice(ring[b], inserted[b], Len(inserted[b]))
      BY DEF RingInv, Rings
    <3>3. ToSet(sent[b]) \subseteq ToSet(inserted[b])
      BY DEF RingInv, Journal
    <3> QED BY <3>1, <3>2, <3>3, SuffixIs
  <2> QED BY <2>1, <2>2, <2>3 DEF TypeOK
<1> QED BY <1>1, RingInvariant, PTL

(* get_function_logs() reads the tail and subscribes in two calls, while   *)
(* push() inserts and sends in two: a follower still sees every line that  *)
(* is pushed, and once, but for those between the two calls, what the      *)
(* channel dropped, and the lines whose push() was under way.              *)
THEOREM FollowerSeesAll == Spec => []FollowerSees
<1>1. RingInv => FollowerSees
  <2> SUFFICES ASSUME RingInv, Following PROVE NothingMissed /\ NothingRepeated
    BY DEF FollowerSees, NothingMissed, NothingRepeated
  <2>1. PICK b \in Buffers, f \in Followers : b = follower.buffer /\ f = follower
    BY FollowerIs DEF Following
  <2>2. /\ Slice(f.snapshot, inserted[b], f.tailed)
        /\ f.known < f.next /\ f.next <= Len(sent[b]) + 1 /\ IsInjective(f.live)
        /\ \A i \in 1..Len(f.live) : \E j \in (f.known + 1)..(f.next - 1) : f.live[i] = sent[b][j]
        /\ \A j \in (f.known + 1)..(f.next - 1) :
             j \in f.lagged \/ \E i \in 1..Len(f.live) : f.live[i] = sent[b][j]
        /\ \A i \in 1..Len(f.snapshot) :
             f.snapshot[i] \in f.pushing \/ \E j \in 1..f.known : f.snapshot[i] = sent[b][j]
    BY <2>1, FollowerIs DEF Following, Sees
  <2>3. /\ f.snapshot \in Seq(Lines) /\ f.live \in Seq(Lines) /\ f.next \in Nat /\ f.known \in Nat
        /\ f.tailed \in Nat
        /\ inserted[b] \in Seq(Lines) /\ sent[b] \in Seq(Lines)
    BY RingTypes DEF Followers
  <2>4. /\ Len(f.snapshot) \in Nat /\ Len(f.live) \in Nat /\ Len(sent[b]) \in Nat /\ Len(inserted[b]) \in Nat
        /\ DOMAIN sent[b] = 1..Len(sent[b])
        /\ \A x : x \in ToSet(f.snapshot) <=> \E i \in 1..Len(f.snapshot) : f.snapshot[i] = x
        /\ \A x : x \in ToSet(f.live) <=> \E i \in 1..Len(f.live) : f.live[i] = x
    BY <2>3, SeqIs
  <2>5. NothingMissed
    <3> SUFFICES ASSUME NEW i \in 1..Len(inserted[b]), NEW j \in 1..Len(sent[b]),
                        inserted[b][i] = sent[b][j]
                 PROVE  \/ sent[b][j] \in ToSet(f.snapshot) \/ sent[b][j] \in ToSet(f.live)
                        \/ j >= f.next \/ j \in f.lagged
                        \/ i > f.tailed /\ j <= f.known
                        \/ i <= f.tailed - Len(f.snapshot) /\ j <= f.known
      BY <2>1 DEF NothingMissed, Got
    <3>1. CASE j > f.known /\ j < f.next
      <4>1. j \in (f.known + 1)..(f.next - 1)
        BY <2>3, <2>4, <3>1
      <4> QED BY <2>2, <2>4, <4>1
    <3>2. CASE j <= f.known /\ i <= f.tailed /\ i > f.tailed - Len(f.snapshot)
      <4>1. i - (f.tailed - Len(f.snapshot)) \in 1..Len(f.snapshot)
        BY <2>3, <2>4, <3>2
      <4>2. f.tailed - Len(f.snapshot) + (i - (f.tailed - Len(f.snapshot))) = i
        BY <2>3, <2>4
      <4>3. f.snapshot[i - (f.tailed - Len(f.snapshot))] = inserted[b][i]
        BY <2>2, <4>1, <4>2 DEF Slice
      <4> QED BY <2>4, <4>1, <4>3
    <3> QED BY <2>3, <2>4, <3>1, <3>2
  <2>6. ASSUME NEW x \in ToSet(f.snapshot) \cap ToSet(f.live) PROVE x \in f.pushing
    <3>1. PICK i \in 1..Len(f.snapshot), k \in 1..Len(f.live) : f.snapshot[i] = x /\ f.live[k] = x
      BY <2>4
    <3>2. PICK j \in (f.known + 1)..(f.next - 1) : x = sent[b][j]
      BY <2>2, <3>1
    <3>3. ASSUME NEW m \in 1..f.known, x = sent[b][m] PROVE FALSE
      <4>1. IsInjective(sent[b])
        BY DEF RingInv, Journal
      <4>2. j \in DOMAIN sent[b] /\ m \in DOMAIN sent[b] /\ j # m
        <5>1. f.known \in Nat /\ f.next \in Nat /\ Len(sent[b]) \in Nat
              /\ f.known < f.next /\ f.next <= Len(sent[b]) + 1
          BY <2>2, <2>3, <2>4
        <5>2. j \in 1..Len(sent[b]) /\ m \in 1..Len(sent[b]) /\ j # m
          BY <5>1
        <5> QED BY <2>4, <5>2
      <4> QED BY <3>2, <3>3, <4>1, <4>2 DEF IsInjective
    <3> QED BY <2>2, <3>1, <3>3
  <2>7. IsInjective(f.snapshot)
    BY <2>2, <2>3, SliceIs DEF RingInv, Journal
  <2> QED BY <2>1, <2>2, <2>5, <2>6, <2>7 DEF NothingRepeated
<1> QED BY <1>1, RingInvariant, PTL

(* Where one sequence of lines follows another, it is enough that each is  *)
(* in order and that the lines of the first are none of the later ones.    *)
LEMMA ConcatInOrder ==
  ASSUME NEW s \in Seq(Lines), NEW t \in Seq(Lines),
         \A i, j \in 1..Len(s) : i < j /\ s[i][1] = s[j][1] => s[i][2] <= s[j][2],
         \A i, j \in 1..Len(t) : i < j /\ t[i][1] = t[j][1] => t[i][2] <= t[j][2],
         \A i \in 1..Len(s), j \in 1..Len(t) : s[i][1] = t[j][1] => s[i][2] <= t[j][2]
  PROVE  \A i, j \in 1..Len(s \o t) :
           i < j /\ (s \o t)[i][1] = (s \o t)[j][1] => (s \o t)[i][2] <= (s \o t)[j][2]
<1> DEFINE both == s \o t
           n == Len(s)
           m == Len(t)
<1>1. /\ n \in Nat /\ m \in Nat /\ Len(both) = n + m
      /\ \A k \in 1..(n + m) : both[k] = IF k <= n THEN s[k] ELSE t[k - n]
  BY SeqIs, ConcatProperties
<1> HIDE DEF both, n, m
<1>2. SUFFICES ASSUME NEW i \in 1..(n + m), NEW j \in 1..(n + m), i < j, both[i][1] = both[j][1]
               PROVE  both[i][2] <= both[j][2]
  BY <1>1 DEF both
<1>3. CASE j <= n
  <2>1. i \in 1..n /\ j \in 1..n /\ i <= n
    BY <1>1, <1>2, <1>3
  <2>2. both[i] = s[i] /\ both[j] = s[j]
    BY <1>1, <1>3, <2>1
  <2> QED BY <1>2, <2>1, <2>2 DEF n, m
<1>4. CASE i <= n /\ ~(j <= n)
  <2>1. i \in 1..n /\ j - n \in 1..m
    BY <1>1, <1>4
  <2>2. both[i] = s[i] /\ both[j] = t[j - n]
    BY <1>1, <1>4
  <2> QED BY <1>2, <2>1, <2>2 DEF n, m
<1>5. CASE ~(i <= n)
  <2>1. i - n \in 1..m /\ j - n \in 1..m /\ i - n < j - n /\ ~(j <= n)
    BY <1>1, <1>2, <1>5
  <2>2. both[i] = t[i - n] /\ both[j] = t[j - n]
    BY <1>1, <1>5, <2>1
  <2> QED BY <1>2, <2>1, <2>2 DEF n, m
<1> QED BY <1>3, <1>4, <1>5

(* A sequence of lines that is ordered as one in turn is in turn.          *)
LEMMA OrderedInTurn ==
  ASSUME NEW s \in Seq(Lines), NEW all \in Seq(Lines), Ordered(s, all), InTurn(all)
  PROVE  \A i, j \in 1..Len(s) : i < j /\ s[i][1] = s[j][1] => s[i][2] <= s[j][2]
<1> SUFFICES ASSUME NEW i \in 1..Len(s), NEW j \in 1..Len(s), i < j, s[i][1] = s[j][1]
             PROVE  s[i][2] <= s[j][2]
  OBVIOUS
<1>1. PICK k \in 1..Len(all), l \in 1..Len(all) : k < l /\ s[i] = all[k] /\ s[j] = all[l]
  BY DEF Ordered
<1>2. s[i][2] < s[j][2]
  BY <1>1 DEF InTurn
<1>3. s[i] \in Lines /\ s[j] \in Lines
  BY SeqIs
<1>4. s[i][2] \in 1..MaxLines /\ s[j][2] \in 1..MaxLines
  BY <1>3 DEF Lines
<1> QED BY <1>2, <1>4, RingAssumption

(* A slice is ordered as what it is a slice of.                            *)
LEMMA SliceOrdered ==
  ASSUME NEW s \in Seq(Lines), NEW all \in Seq(Lines), NEW end \in Nat, Slice(s, all, end)
  PROVE  Ordered(s, all)
<1>1. PICK n \in Nat, m \in Nat :
        /\ n = Len(s) /\ m = Len(all) /\ n <= end /\ end <= m
        /\ \A i \in 1..n : s[i] = all[end - n + i]
  BY SeqIs DEF Slice
<1>2. ASSUME NEW i \in 1..n, NEW j \in 1..n, i < j
      PROVE  end - n + i \in 1..m /\ end - n + j \in 1..m /\ end - n + i < end - n + j
  BY <1>1, <1>2
<1>3. ASSUME NEW i \in 1..n, NEW j \in 1..n, i < j
      PROVE  \E k, l \in 1..m : k < l /\ s[i] = all[k] /\ s[j] = all[l]
  BY <1>1, <1>2, <1>3
<1> QED BY <1>1, <1>3 DEF Ordered

(* The ring's order and the channel's differ, as two drains may insert in  *)
(* one order and send in the other. What a follower has of one drain is    *)
(* in that drain's order all the same, also across the switch from tail()  *)
(* to the channel: whatever was being pushed then was its drain's latest.  *)
THEOREM FollowerKeepsOrder == Spec => []FollowerInOrder
<1>1. RingInv => FollowerInOrder
  <2> SUFFICES ASSUME RingInv, Following PROVE FollowerInOrder
    BY DEF FollowerInOrder
  <2>1. PICK b \in Buffers, f \in Followers : b = follower.buffer /\ f = follower
    BY FollowerIs DEF Following
  <2>2. /\ Slice(f.snapshot, inserted[b], f.tailed)
        /\ f.known < f.next /\ f.next <= Len(sent[b]) + 1
        /\ \A i \in 1..Len(f.live) : \E j \in (f.known + 1)..(f.next - 1) : f.live[i] = sent[b][j]
        /\ \A i \in 1..Len(f.snapshot) :
             f.snapshot[i] \in f.pushing \/ \E j \in 1..f.known : f.snapshot[i] = sent[b][j]
        /\ InPlace(f, sent[b]) /\ Due(f, inserted[b], sent[b])
    BY <2>1, FollowerIs DEF Following, Sees
  <2>3. /\ f.snapshot \in Seq(Lines) /\ f.live \in Seq(Lines) /\ f.next \in Nat /\ f.known \in Nat
        /\ f.tailed \in Nat /\ f.pushing \subseteq Lines
        /\ inserted[b] \in Seq(Lines) /\ sent[b] \in Seq(Lines)
    BY RingTypes DEF Followers
  <2>4. /\ Len(f.snapshot) \in Nat /\ Len(f.live) \in Nat /\ Len(sent[b]) \in Nat /\ Len(inserted[b]) \in Nat
        /\ \A i \in 1..Len(f.snapshot) : f.snapshot[i] \in Lines
        /\ \A i \in 1..Len(f.live) : f.live[i] \in Lines
    BY <2>3, SeqIs
  <2>5. InTurn(inserted[b]) /\ InTurn(sent[b])
    BY DEF RingInv, Journal
  <2>6. Ordered(f.snapshot, inserted[b])
    BY <2>2, <2>3, SliceOrdered
  <2>7. Ordered(f.live, sent[b])
    <3>1. PICK n \in Nat, k0 \in Nat, k1 \in Nat :
            n = Len(sent[b]) /\ k0 = f.known + 1 /\ k1 = f.next - 1 /\ 1 <= k0 /\ k1 <= n
      <4>1. f.known + 1 \in Nat /\ f.next - 1 \in Nat /\ 1 <= f.known + 1 /\ f.next - 1 <= Len(sent[b])
        BY <2>2, <2>3, <2>4
      <4> QED BY <2>4, <4>1
    <3>2. \A k \in k0..k1 : k \in 1..n
      BY <3>1
    <3> QED BY <2>2, <3>1, <3>2 DEF InPlace, Ordered
  <2>8. ASSUME NEW i \in 1..Len(f.snapshot), NEW j \in 1..Len(f.live), f.snapshot[i][1] = f.live[j][1]
        PROVE  f.snapshot[i][2] <= f.live[j][2]
    <3>1. PICK l \in (f.known + 1)..(f.next - 1) : f.live[j] = sent[b][l]
      BY <2>2
    <3>2. l \in (f.known + 1)..Len(sent[b]) /\ l \in 1..Len(sent[b])
      BY <2>2, <2>3, <2>4
    <3>3. CASE f.snapshot[i] \in f.pushing
      BY <2>2, <2>8, <3>1, <3>2, <3>3 DEF Due
    <3>4. ASSUME NEW k \in 1..f.known, f.snapshot[i] = sent[b][k] PROVE f.snapshot[i][2] <= f.live[j][2]
      <4>1. k \in 1..Len(sent[b]) /\ k < l
        BY <2>2, <2>3, <2>4
      <4>2. f.snapshot[i][2] < f.live[j][2]
        BY <2>5, <2>8, <3>1, <3>2, <3>4, <4>1 DEF InTurn
      <4>3. f.snapshot[i][2] \in Nat /\ f.live[j][2] \in Nat
        BY <2>4 DEF Lines
      <4> QED BY <4>2, <4>3
    <3> QED BY <2>2, <3>3, <3>4
  <2>9. Stream = f.snapshot \o f.live
    BY <2>1 DEF Stream
  <2>10. \A i, j \in 1..Len(Stream) :
           i < j /\ Stream[i][1] = Stream[j][1] => Stream[i][2] <= Stream[j][2]
    <3>1. \A i, j \in 1..Len(f.snapshot) :
            i < j /\ f.snapshot[i][1] = f.snapshot[j][1] => f.snapshot[i][2] <= f.snapshot[j][2]
      BY <2>3, <2>5, <2>6, OrderedInTurn
    <3>2. \A i, j \in 1..Len(f.live) :
            i < j /\ f.live[i][1] = f.live[j][1] => f.live[i][2] <= f.live[j][2]
      BY <2>3, <2>5, <2>7, OrderedInTurn
    <3> QED BY <2>3, <2>8, <2>9, <3>1, <3>2, ConcatInOrder
  <2> QED BY <2>1, <2>6, <2>7, <2>10 DEF FollowerInOrder
<1> QED BY <1>1, RingInvariant, PTL
=============================================================================
