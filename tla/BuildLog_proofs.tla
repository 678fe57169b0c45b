---------------------------- MODULE BuildLog_proofs ----------------------------
(***************************************************************************)
(* Proofs about BuildLog: its type invariant, and that a stream of a       *)
(* build's log that ended of itself has given the client the whole log.    *)
(*                                                                         *)
(* The argument is by positions. Whatever stands at position i of the file *)
(* is a hole or the i-th line of some attempt, so two texts of one attempt *)
(* agree wherever both have a line, and only their lengths are left to     *)
(* compare: the file of an attempt is truncated before its first line and  *)
(* not again before the next attempt (ReachedIsThere), and nothing is      *)
(* added by a closed writer after an empty read (EmptyIsEnd).              *)
(***************************************************************************)
EXTENDS BuildLog, SequenceTheorems, TLAPS

Entry == Lines \cup {Hole}
Followers == [at : {"none", "read", "empty", "done"}, of : 0..MaxAttempts, offset : Nat,
              got : Seq(Entry), seen : {"none", "Running", "ended"}]

LogType ==
  /\ attempt \in 0..MaxAttempts
  /\ step \in {"idle", "recorded", "building", "returned", "dropped"}
  /\ record \in [Attempts -> {"none", "Running", "ended"}]
  /\ writer \in [Attempts -> {"none", "inline", "detached", "closed", "drained"}]
  /\ pos \in [Attempts -> 0..MaxLines]
  /\ file \in Seq(Entry) /\ Len(file) <= MaxLines
  /\ follower \in Followers
  /\ follower.of <= attempt /\ follower.offset = Len(follower.got)

Opened(b) == b \in Attempts /\ writer[b] # "none"

(* What stands at a position was written there.                            *)
InPlace(lines) ==
  \A i \in 1..Len(lines) :
    lines[i] = Hole \/ (Opened(lines[i][1]) /\ lines[i][2] = i)

(* A build that is under way, up to the end of its record.                 *)
UnderWay ==
  /\ step \in {"recorded", "building", "returned"} => attempt > 0 /\ record[attempt] = "Running"
  /\ step = "recorded" => writer[attempt] = "none"
  /\ step = "returned" => writer[attempt] # "inline"
  /\ \A a \in Attempts : a > attempt => writer[a] = "none" /\ record[a] = "none"
  /\ \A a \in Attempts : a <= attempt => record[a] # "none"

SeenIsTrue ==
  follower.at # "none" =>
    follower.of > 0 /\ (follower.seen # "Running" => record[follower.of] = "ended")

(* What the stream has of the latest build the file still has.             *)
ReachedIsThere ==
  follower.of > 0 /\ follower.of = attempt /\ Own(attempt, follower.got)
    => Len(follower.got) <= Len(file)

(* After an empty read nothing is added but by others.                     *)
EmptyIsEnd ==
  /\ follower.at = "done" => follower.seen # "Running"
  /\ follower.at \in {"empty", "done"} /\ follower.seen # "Running" /\ follower.of = attempt
       /\ writer[attempt] = "closed" /\ Own(attempt, file)
     => Len(file) <= Len(follower.got)

LogInv ==
  /\ LogType /\ InPlace(file) /\ InPlace(follower.got) /\ UnderWay
  /\ SeenIsTrue /\ ReachedIsThere /\ EmptyIsEnd
-----------------------------------------------------------------------------
(* What the file is after a write.                                         *)
LEMMA WriteAtIs ==
  ASSUME NEW f \in Seq(Entry), NEW p \in Nat, NEW line \in Lines
  PROVE  LET g == WriteAt(f, p, line)
         IN /\ g \in Seq(Entry)
            /\ Len(g) = IF p < Len(f) THEN Len(f) ELSE p + 1
            /\ \A i \in 1..Len(g) :
                 g[i] = IF i = p + 1 THEN line ELSE IF i <= Len(f) THEN f[i] ELSE Hole
<1> DEFINE n == IF p < Len(f) THEN Len(f) ELSE p + 1
           g == WriteAt(f, p, line)
<1>1. Len(f) \in Nat /\ n \in Nat /\ \A i \in 1..Len(f) : f[i] \in Entry
  BY ElementOfSeq, LenProperties
<1>2. g \in [1..n -> Entry]
  BY <1>1 DEF WriteAt, Entry
<1>3. g \in Seq(Entry) /\ Len(g) = n
  <2> HIDE DEF g, n
  <2>1. g \in Seq(Entry)
    BY <1>1, <1>2, SeqDef
  <2>2. DOMAIN g = 1..Len(g) /\ Len(g) \in Nat
    BY <2>1, LenProperties
  <2> QED BY <1>1, <1>2, <2>1, <2>2
<1> QED BY <1>3 DEF WriteAt

LEMMA EmptyText == <<>> \in Seq(Entry) /\ Len(<<>>) = 0
BY EmptySeq

(* What is left of a text from a position on.                              *)
LEMMA RestIs ==
  ASSUME NEW s \in Seq(Entry), NEW m \in Nat
  PROVE  /\ SubSeq(s, m + 1, Len(s)) \in Seq(Entry)
         /\ Len(SubSeq(s, m + 1, Len(s))) = IF m < Len(s) THEN Len(s) - m ELSE 0
         /\ \A i \in 1..(Len(s) - m) : SubSeq(s, m + 1, Len(s))[i] = s[m + i]
         /\ SubSeq(s, m + 1, Len(s)) = <<>> => Len(s) <= m
         /\ Len(s) <= m => SubSeq(s, m + 1, Len(s)) = <<>>
<1>1. /\ SubSeq(s, m + 1, Len(s)) \in Seq(Entry)
      /\ Len(SubSeq(s, m + 1, Len(s))) = IF m < Len(s) THEN Len(s) - m ELSE 0
  OBVIOUS
<1>2. \A i \in 1..(Len(s) - m) : SubSeq(s, m + 1, Len(s))[i] = s[m + i]
  OBVIOUS
<1>3. SubSeq(s, m + 1, Len(s)) = <<>> => Len(s) <= m
  <2>1. Len(s) \in Nat /\ Len(<<>>) = 0
    BY LenProperties, EmptySeq
  <2>2. ASSUME SubSeq(s, m + 1, Len(s)) = <<>>, m < Len(s) PROVE FALSE
    <3>1. Len(SubSeq(s, m + 1, Len(s))) = 0
      BY <2>1, <2>2, Zenon
    <3>2. Len(SubSeq(s, m + 1, Len(s))) = Len(s) - m
      BY <1>1, <2>2
    <3> HIDE <1>1
    <3> QED BY <2>1, <2>2, <3>1, <3>2
  <2> QED BY <2>1, <2>2
<1>4. Len(s) <= m => SubSeq(s, m + 1, Len(s)) = <<>>
  BY <1>1, EmptySeq
<1> QED BY <1>1, <1>2, <1>3, <1>4

(* What one read adds to what the stream has.                              *)
LEMMA ReadIs ==
  ASSUME LogType, NewBytes # <<>>
  PROVE  /\ Len(follower.got) < Len(file)
         /\ Len(NewBytes) \in Nat
         /\ follower.got \o NewBytes \in Seq(Entry)
         /\ Len(follower.got \o NewBytes) = Len(file)
         /\ Len(file) = follower.offset + Len(NewBytes)
         /\ \A i \in 1..Len(file) :
              (follower.got \o NewBytes)[i] =
                IF i <= Len(follower.got) THEN follower.got[i] ELSE file[i]
<1> DEFINE got == follower.got
           m == Len(got)
           n == Len(file)
<1>1. got \in Seq(Entry) /\ file \in Seq(Entry) /\ m \in Nat /\ n \in Nat /\ follower.offset = m
  BY LenProperties DEF LogType, Followers
<1>2. /\ m < n /\ NewBytes \in Seq(Entry) /\ Len(NewBytes) = n - m
      /\ \A i \in 1..(n - m) : NewBytes[i] = file[m + i]
  <2>1. NewBytes = SubSeq(file, m + 1, n)
    BY <1>1 DEF NewBytes
  <2>2. /\ SubSeq(file, m + 1, n) \in Seq(Entry)
        /\ Len(SubSeq(file, m + 1, n)) = IF m < n THEN n - m ELSE 0
        /\ \A i \in 1..(n - m) : SubSeq(file, m + 1, n)[i] = file[m + i]
        /\ n <= m => SubSeq(file, m + 1, n) = <<>>
    <3> HIDE DEF m
    <3> QED BY <1>1, RestIs
  <2>3. m < n
    <3>1. n <= m => FALSE
      BY <2>1, <2>2, Zenon
    <3> QED BY <1>1, <3>1
  <2>4. NewBytes \in Seq(Entry) /\ Len(NewBytes) = n - m
    BY <2>1, <2>2, <2>3
  <2>5. \A i \in 1..(n - m) : NewBytes[i] = file[m + i]
    BY <2>1, <2>2, Zenon
  <2> QED BY <2>3, <2>4, <2>5
<1>3. /\ got \o NewBytes \in Seq(Entry)
      /\ Len(got \o NewBytes) = m + Len(NewBytes)
      /\ \A i \in 1..(m + Len(NewBytes)) :
           (got \o NewBytes)[i] = IF i <= m THEN got[i] ELSE NewBytes[i - m]
  BY <1>1, <1>2, ConcatProperties
<1> QED BY <1>1, <1>2, <1>3

(* A follower whose read was empty has as much as the file.                *)
LEMMA EmptyReadIs ==
  ASSUME LogType, NewBytes = <<>>
  PROVE  Len(file) <= Len(follower.got)
<1>1. file \in Seq(Entry) /\ Len(follower.got) \in Nat /\ follower.offset = Len(follower.got)
  BY LenProperties DEF LogType, Followers
<1>2. NewBytes = SubSeq(file, Len(follower.got) + 1, Len(file))
  BY <1>1 DEF NewBytes
<1> QED BY <1>1, <1>2, RestIs, Zenon
-----------------------------------------------------------------------------
(* A step that opens no less keeps the file and what the client has.       *)
LEMMA InPlaceStays ==
  ASSUME InPlace(file), InPlace(follower.got),
         \A b \in Attempts : writer[b] # "none" => writer'[b] # "none"
  PROVE  /\ file' = file => InPlace(file)'
         /\ follower'.got = follower.got => InPlace(follower.got)'
BY DEF InPlace, Opened

LEMMA InitLog == Init => LogInv
<1> SUFFICES ASSUME Init PROVE LogInv
  OBVIOUS
<1> USE LogAssumption, EmptyText DEF Init, NoFollower, Attempts
<1>1. LogType
  BY DEF LogType, Followers
<1>2. InPlace(file) /\ InPlace(follower.got) /\ ReachedIsThere
  BY DEF InPlace, ReachedIsThere
<1> QED BY <1>1, <1>2 DEF LogInv, UnderWay, SeenIsTrue, EmptyIsEnd

(* The steps of a build but those that change the file.                    *)
LEMMA BuildKeeps ==
  ASSUME LogInv,
         \/ PutBuild \/ RefuseBuild \/ BuildReturns \/ EndBuild \/ DropBuild
         \/ \E a \in Attempts : DrainEnds(a)
  PROVE  LogInv'
<1> USE LogAssumption DEF LogInv, LogType, Attempts, buildVars, fileVars
<1>1. CASE PutBuild
  <2>1. LogType'
    BY <1>1 DEF PutBuild, Followers
  <2>2. InPlace(file)' /\ InPlace(follower.got)'
    BY <1>1, InPlaceStays DEF PutBuild
  <2>3. UnderWay' /\ SeenIsTrue'
    BY <1>1 DEF PutBuild, UnderWay, SeenIsTrue, Followers
  <2>4. ReachedIsThere' /\ EmptyIsEnd'
    BY <1>1 DEF PutBuild, ReachedIsThere, EmptyIsEnd, Followers
  <2> QED BY <2>1, <2>2, <2>3, <2>4
<1>2. CASE RefuseBuild \/ BuildReturns \/ DropBuild \/ (\E a \in Attempts : DrainEnds(a))
  <2>1. LogType'
    <3>1. CASE RefuseBuild
      BY <3>1 DEF RefuseBuild, Followers
    <3>2. CASE BuildReturns \/ DropBuild
      <4>1. attempt \in Attempts /\ Closed(writer[attempt]) \in {"none", "inline", "detached", "closed", "drained"}
        BY <3>2 DEF BuildReturns, DropBuild, UnderWay, Closed
      <4>2. writer' \in [Attempts -> {"none", "inline", "detached", "closed", "drained"}]
        BY <3>2, <4>1 DEF BuildReturns, DropBuild
      <4> QED BY <3>2, <4>2 DEF BuildReturns, DropBuild, Followers
    <3>3. CASE \E a \in Attempts : DrainEnds(a)
      BY <3>3 DEF DrainEnds, Followers
    <3> QED BY <1>2, <3>1, <3>2, <3>3
  <2>2. InPlace(file)' /\ InPlace(follower.got)'
    BY <1>2, InPlaceStays DEF RefuseBuild, BuildReturns, DropBuild, DrainEnds, Closed
  <2>3. UnderWay' /\ SeenIsTrue'
    BY <1>2 DEF RefuseBuild, BuildReturns, DropBuild, DrainEnds, Closed, UnderWay, SeenIsTrue
  <2>4. ReachedIsThere'
    BY <1>2 DEF RefuseBuild, BuildReturns, DropBuild, DrainEnds, ReachedIsThere
  <2>5. EmptyIsEnd'
    <3>1. UNCHANGED <<attempt, record, file, follower>> /\ attempt \in Attempts
      BY <1>2 DEF RefuseBuild, BuildReturns, DropBuild, DrainEnds, UnderWay
    <3>2. writer'[attempt] = writer[attempt] \/ record[attempt] = "Running" \/ writer'[attempt] # "closed"
      BY <1>2, <3>1 DEF RefuseBuild, BuildReturns, DropBuild, DrainEnds, UnderWay
    <3> QED BY <3>1, <3>2 DEF SeenIsTrue, EmptyIsEnd, Own
  <2> QED BY <2>1, <2>2, <2>3, <2>4, <2>5
<1>3. CASE EndBuild
  <2>1. LogType'
    BY <1>3 DEF EndBuild, Followers
  <2>2. InPlace(file)' /\ InPlace(follower.got)'
    BY <1>3, InPlaceStays DEF EndBuild
  <2>3. UnderWay' /\ SeenIsTrue'
    BY <1>3 DEF EndBuild, UnderWay, SeenIsTrue, Followers
  <2>4. ReachedIsThere' /\ EmptyIsEnd'
    BY <1>3 DEF EndBuild, ReachedIsThere, EmptyIsEnd
  <2> QED BY <2>1, <2>2, <2>3, <2>4
<1> QED BY <1>1, <1>2, <1>3

(* The truncation: the latest attempt has no line yet, in the file or with *)
(* the client.                                                             *)
LEMMA CreateKeeps ==
  ASSUME LogInv, CreateLog
  PROVE  LogInv'
<1> USE LogAssumption, EmptyText
<1>1. /\ step = "recorded" /\ step' = "building" /\ file' = <<>>
      /\ UNCHANGED <<attempt, record, pos, follower>>
  BY DEF CreateLog
<1>2. PICK how \in Writers : writer' = [writer EXCEPT ![attempt] = how]
  BY DEF CreateLog
<1>3. /\ attempt \in Attempts /\ writer[attempt] = "none" /\ how \in {"inline", "detached"}
      /\ writer \in [Attempts -> {"none", "inline", "detached", "closed", "drained"}]
  BY <1>1 DEF LogInv, LogType, UnderWay, Attempts
<1>4. LogType'
  BY <1>1, <1>2, <1>3 DEF LogInv, LogType, Followers
<1>5. InPlace(file)' /\ InPlace(follower.got)'
  BY <1>1, <1>2, <1>3, InPlaceStays DEF LogInv, InPlace
<1>6. UnderWay' /\ SeenIsTrue' /\ EmptyIsEnd'
  BY <1>1, <1>2, <1>3 DEF LogInv, UnderWay, SeenIsTrue, EmptyIsEnd
<1>7. ReachedIsThere'
  <2>1. SUFFICES ASSUME Own(attempt, follower.got)
                 PROVE  Len(follower.got) <= 0
    BY <1>1 DEF ReachedIsThere
  <2>2. Len(follower.got) \in Nat
    BY LenProperties DEF LogInv, LogType, Followers
  <2>3. ASSUME NEW i \in 1..Len(follower.got) PROVE FALSE
    <3>1. follower.got[i][1] = attempt /\ attempt # 0
      BY <1>3, <2>1, <2>3 DEF Own, Attempts
    <3>2. follower.got[i] # Hole
      BY <3>1 DEF Hole
    <3> QED BY <1>3, <2>3, <3>1, <3>2 DEF LogInv, InPlace, Opened
  <2> QED BY <2>2, <2>3
<1> QED BY <1>4, <1>5, <1>6, <1>7 DEF LogInv

(* A write adds to the file, in its place.                                 *)
LEMMA WriteKeeps ==
  ASSUME LogInv, NEW a \in Attempts, Write(a)
  PROVE  LogInv'
<1> DEFINE line == <<a, pos[a] + 1>>
<1> USE LogAssumption
<1>1. /\ line \in Lines /\ pos[a] \in Nat /\ pos[a] < MaxLines
      /\ writer[a] \in {"inline", "detached"}
  BY DEF Lines, Write, LogInv, LogType, Attempts
<1>2. /\ pos' = [pos EXCEPT ![a] = @ + 1]
      /\ UNCHANGED <<attempt, step, record, writer, follower>>
      /\ file' = WriteAt(file, pos[a], line)
  BY DEF Write, buildVars
<1>3. /\ Len(file) \in Nat /\ Len(follower.got) \in Nat
      /\ file \in Seq(Entry)
  BY LenProperties DEF LogInv, LogType, Followers
<1> HIDE DEF line
<1>4. /\ file' \in Seq(Entry)
      /\ Len(file') = IF pos[a] < Len(file) THEN Len(file) ELSE pos[a] + 1
      /\ \A i \in 1..Len(file') :
           file'[i] = IF i = pos[a] + 1 THEN line ELSE IF i <= Len(file) THEN file[i] ELSE Hole
  BY <1>1, <1>2, <1>3, WriteAtIs
<1>5. line[1] = a /\ line[2] = pos[a] + 1
  BY DEF line
<1>6. LogType'
  BY <1>1, <1>2, <1>3, <1>4 DEF LogInv, LogType, Followers, Attempts
<1>7. InPlace(follower.got)'
  BY <1>2, InPlaceStays DEF LogInv
<1>8. InPlace(file)'
  <2> SUFFICES ASSUME NEW i \in 1..Len(file'), file'[i] # Hole
               PROVE  Opened(file[i][1])' /\ file'[i][2] = i
    BY DEF InPlace
  <2>1. CASE i = pos[a] + 1
    BY <1>1, <1>2, <1>4, <1>5, <2>1 DEF Opened
  <2>2. CASE i # pos[a] + 1
    <3>1. i \in 1..Len(file) /\ file'[i] = file[i]
      BY <1>3, <1>4, <2>2
    <3>2. Opened(file[i][1]) /\ file[i][2] = i
      BY <3>1 DEF LogInv, InPlace
    <3> QED BY <1>2, <3>1, <3>2 DEF Opened
  <2> QED BY <2>1, <2>2
<1>9. UnderWay' /\ SeenIsTrue'
  BY <1>2 DEF LogInv, UnderWay, SeenIsTrue
<1>10. ReachedIsThere'
  BY <1>1, <1>2, <1>3, <1>4 DEF LogInv, ReachedIsThere, Own
<1>11. EmptyIsEnd'
  <2>1. SUFFICES ASSUME writer[attempt] = "closed", Own(attempt, file)'
                 PROVE  FALSE
    BY <1>2 DEF LogInv, EmptyIsEnd
  <2>2. pos[a] + 1 \in 1..Len(file')
    BY <1>1, <1>3, <1>4
  <2>3. file'[pos[a] + 1] = line
    BY <1>4, <2>2
  <2>4. line[1] = attempt'
    BY <2>1, <2>2, <2>3 DEF Own
  <2> QED BY <1>1, <1>2, <1>5, <2>1, <2>4
<1> QED BY <1>6, <1>7, <1>8, <1>9, <1>10, <1>11 DEF LogInv

LEMMA RestartKeeps ==
  ASSUME LogInv, HostRestarts
  PROVE  LogInv'
<1> USE LogAssumption, EmptyText
<1>1. /\ attempt > 0 /\ step' = "idle"
      /\ record' = [a \in Attempts |-> IF record[a] = "Running" THEN "ended" ELSE record[a]]
      /\ writer' = [a \in Attempts |-> Drained(Closed(writer[a]))]
      /\ follower' = [at |-> "none", of |-> 0, offset |-> 0, got |-> <<>>, seen |-> "Running"]
      /\ UNCHANGED <<attempt, pos, file>>
  BY DEF HostRestarts, NoFollower
<1>2. \A a \in Attempts :
        /\ writer[a] \in {"none", "inline", "detached", "closed", "drained"}
        /\ record[a] \in {"none", "Running", "ended"}
  BY DEF LogInv, LogType
<1>3. \A a \in Attempts :
        /\ writer'[a] \in {"none", "closed", "drained"}
        /\ writer[a] = "none" <=> writer'[a] = "none"
  BY <1>1, <1>2 DEF Closed, Drained
<1>4. LogType'
  <2>1. writer' \in [Attempts -> {"none", "inline", "detached", "closed", "drained"}]
    BY <1>1, <1>2 DEF Closed, Drained
  <2>2. record' \in [Attempts -> {"none", "Running", "ended"}]
    BY <1>1, <1>2
  <2>3. follower' \in Followers /\ follower'.of <= attempt' /\ follower'.offset = Len(follower'.got)
    BY <1>1 DEF LogInv, LogType, Followers
  <2> QED BY <1>1, <2>1, <2>2, <2>3 DEF LogInv, LogType
<1>5. InPlace(file)'
  BY <1>1, <1>3, InPlaceStays DEF LogInv
<1>6. InPlace(follower.got)'
  BY <1>1 DEF InPlace
<1>7. UnderWay'
  <2>1. ASSUME NEW a \in Attempts PROVE record[a] = "none" <=> record'[a] = "none"
    BY <1>1, <1>2
  <2>2. /\ \A a \in Attempts : a > attempt => writer[a] = "none" /\ record[a] = "none"
        /\ \A a \in Attempts : a <= attempt => record[a] # "none"
    BY DEF LogInv, UnderWay
  <2> QED BY <1>1, <1>3, <2>1, <2>2 DEF UnderWay
<1>8. SeenIsTrue' /\ EmptyIsEnd' /\ ReachedIsThere'
  BY <1>1 DEF LogInv, LogType, SeenIsTrue, EmptyIsEnd, ReachedIsThere
<1> QED BY <1>4, <1>5, <1>6, <1>7, <1>8 DEF LogInv

LEMMA FollowKeeps ==
  ASSUME LogInv, NEW a \in Attempts, Follow(a)
  PROVE  LogInv'
<1> USE LogAssumption, EmptyText
<1>1. /\ follower' = [at |-> "read", of |-> a, offset |-> 0, got |-> <<>>, seen |-> record[a]]
      /\ a <= attempt /\ UNCHANGED <<attempt, step, record, writer, pos, file>>
  BY DEF Follow, NoFollower, buildVars, fileVars
<1>2. record[a] \in {"Running", "ended"} /\ a > 0
  BY <1>1 DEF LogInv, LogType, UnderWay, Attempts
<1>3. LogType'
  <2>1. follower' \in Followers /\ follower'.of <= attempt' /\ follower'.offset = Len(follower'.got)
    BY <1>1, <1>2 DEF Followers, Attempts
  <2> QED BY <1>1, <2>1 DEF LogInv, LogType
<1>4. InPlace(file)'
  BY <1>1, InPlaceStays DEF LogInv
<1>5. InPlace(follower.got)'
  BY <1>1 DEF InPlace
<1>6. UnderWay' /\ SeenIsTrue'
  BY <1>1, <1>2 DEF LogInv, UnderWay, SeenIsTrue
<1>7. ReachedIsThere' /\ EmptyIsEnd'
  <2>1. Len(file) \in Nat /\ Len(follower'.got) = 0 /\ follower'.at = "read" /\ file' = file
    BY <1>1, LenProperties DEF LogInv, LogType
  <2> QED BY <2>1 DEF ReachedIsThere, EmptyIsEnd
<1> QED BY <1>3, <1>4, <1>5, <1>6, <1>7 DEF LogInv

LEMMA ReadKeeps ==
  ASSUME LogInv, ReadNewBytes, NewBytes # <<>>
  PROVE  LogInv'
<1> DEFINE got == follower.got
           more == got \o NewBytes
<1>1. /\ Len(got) < Len(file) /\ Len(NewBytes) \in Nat
      /\ more \in Seq(Entry) /\ Len(more) = Len(file)
      /\ Len(file) = follower.offset + Len(NewBytes)
      /\ \A i \in 1..Len(file) : more[i] = IF i <= Len(got) THEN got[i] ELSE file[i]
  BY ReadIs DEF LogInv
<1>2. Len(got) \in Nat /\ Len(file) \in Nat /\ follower \in Followers
  BY LenProperties DEF LogInv, LogType, Followers
<1> HIDE DEF more
<1>3. /\ follower' = [follower EXCEPT !.offset = @ + Len(NewBytes), !.got = more]
      /\ follower.at = "read"
      /\ UNCHANGED <<attempt, step, record, writer, pos, file>>
  BY DEF ReadNewBytes, more, buildVars, fileVars
<1>4. /\ follower'.at = "read" /\ follower'.of = follower.of /\ follower'.seen = follower.seen
      /\ follower'.got = more /\ follower'.offset = Len(more) /\ follower' \in Followers
  BY <1>1, <1>2, <1>3 DEF Followers
<1>5. LogType'
  BY <1>3, <1>4 DEF LogInv, LogType
<1>6. InPlace(file)'
  BY <1>3, InPlaceStays DEF LogInv
<1>7. InPlace(follower.got)'
  <2> SUFFICES ASSUME NEW i \in 1..Len(file), more[i] # Hole
               PROVE  Opened(more[i][1]) /\ more[i][2] = i
    BY <1>1, <1>3, <1>4 DEF InPlace, Opened
  <2>1. more[i] = IF i <= Len(got) THEN got[i] ELSE file[i]
    BY <1>1
  <2>2. i <= Len(got) => i \in 1..Len(got)
    BY <1>2
  <2> QED BY <2>1, <2>2 DEF LogInv, InPlace
<1>8. UnderWay' /\ SeenIsTrue'
  BY <1>3, <1>4 DEF LogInv, UnderWay, SeenIsTrue
<1>9. ReachedIsThere' /\ EmptyIsEnd'
  BY <1>1, <1>2, <1>3, <1>4 DEF ReachedIsThere, EmptyIsEnd
<1> QED BY <1>5, <1>6, <1>7, <1>8, <1>9 DEF LogInv

(* An empty read, and what the handler does after one.                     *)
LEMMA EmptyKeeps ==
  ASSUME LogInv, (ReadNewBytes /\ NewBytes = <<>>) \/ AfterEmptyRead
  PROVE  LogInv'
<1>1. /\ UNCHANGED <<attempt, step, record, writer, pos, file>>
      /\ follower \in Followers /\ follower.of <= attempt
      /\ attempt \in 0..MaxAttempts /\ record \in [Attempts -> {"none", "Running", "ended"}]
  BY DEF LogInv, LogType, ReadNewBytes, AfterEmptyRead, buildVars, fileVars
<1>2. follower.at # "none" => record[follower.of] \in {"Running", "ended"}
  BY <1>1, LogAssumption DEF LogInv, SeenIsTrue, UnderWay, Followers, Attempts
<1>3. /\ follower' \in Followers /\ follower'.of = follower.of
      /\ follower'.got = follower.got /\ follower'.offset = follower.offset
      /\ follower'.at # "none" /\ follower.at # "none"
      /\ follower'.seen \in {follower.seen, record[follower.of]}
  <2>1. CASE ReadNewBytes /\ NewBytes = <<>>
    BY <1>1, <2>1 DEF ReadNewBytes, Followers
  <2>2. CASE AfterEmptyRead
    BY <1>1, <1>2, <2>2 DEF AfterEmptyRead, MayEnd, Followers
  <2> QED BY <2>1, <2>2
<1>4. follower'.at \in {"empty", "done"} =>
        /\ Len(file) <= Len(follower.got) \/ follower.at = "empty"
        /\ follower'.seen = follower.seen
        /\ follower'.at = "done" => follower.seen # "Running"
  BY <1>1, EmptyReadIs DEF LogInv, ReadNewBytes, AfterEmptyRead, MayEnd, Followers
<1>5. LogType'
  BY <1>1, <1>3 DEF LogInv, LogType
<1>6. InPlace(file)' /\ InPlace(follower.got)'
  BY <1>1, <1>3, InPlaceStays DEF LogInv
<1>7. UnderWay'
  BY <1>1 DEF LogInv, UnderWay
<1>8. SeenIsTrue'
  BY <1>1, <1>2, <1>3 DEF LogInv, SeenIsTrue
<1>9. ReachedIsThere'
  BY <1>1, <1>3 DEF LogInv, ReachedIsThere, Own
<1>10. EmptyIsEnd'
  BY <1>1, <1>3, <1>4 DEF LogInv, EmptyIsEnd, Own
<1> QED BY <1>5, <1>6, <1>7, <1>8, <1>9, <1>10 DEF LogInv

LEMMA LogStuttering == LogInv /\ UNCHANGED vars => LogInv'
BY DEF LogInv, LogType, InPlace, Opened, UnderWay, SeenIsTrue, ReachedIsThere, EmptyIsEnd, vars,
   buildVars, fileVars

LEMMA LogInvariant == Spec => []LogInv
<1>1. LogInv /\ [Next]_vars => LogInv'
  BY BuildKeeps, CreateKeeps, WriteKeeps, RestartKeeps, FollowKeeps, ReadKeeps, EmptyKeeps,
     LogStuttering DEF Next, BuildStep, FollowerStep
<1> QED BY <1>1, InitLog, PTL DEF Spec

(* The type invariant of BuildLog: a follower's offset is always what it   *)
(* has got, and the log is never longer than a build writes.               *)
THEOREM TypesHold == Spec => []TypeOK
<1>1. LogInv => TypeOK
  BY DEF LogInv, LogType, TypeOK, Followers, Entry
<1> QED BY <1>1, LogInvariant, PTL

(* follow_build_log_step() ends a stream only after an empty read made     *)
(* with the status known to be final: a client whose stream ended of       *)
(* itself has every line of its build, in order and once, while the file   *)
(* is that build's alone.                                                  *)
THEOREM CompleteLog == Spec => []FollowerComplete
<1>1. LogInv => FollowerComplete
  <2> SUFFICES ASSUME LogInv, follower.at = "done", writer[follower.of] = "closed",
                      attempt = follower.of, Own(attempt, follower.got), Own(attempt, file)
               PROVE  follower.got = file
    BY DEF FollowerComplete
  <2>1. /\ follower.got \in Seq(Entry) /\ file \in Seq(Entry) /\ attempt \in Attempts
    BY DEF LogInv, LogType, SeenIsTrue, Followers, Attempts
  <2>2. Len(follower.got) = Len(file)
    BY <2>1, LenProperties DEF LogInv, SeenIsTrue, ReachedIsThere, EmptyIsEnd, Attempts
  <2>3. ASSUME NEW i \in 1..Len(file) PROVE follower.got[i] = file[i]
    <3>1. follower.got[i] \in Entry /\ file[i] \in Entry
      BY <2>1, <2>2, ElementOfSeq
    <3>2. follower.got[i][1] = attempt /\ file[i][1] = attempt /\ attempt # 0
      BY <2>1, <2>2 DEF Own, Attempts
    <3>3. follower.got[i] # Hole /\ file[i] # Hole
      BY <3>2 DEF Hole
    <3>4. follower.got[i][2] = i /\ file[i][2] = i
      BY <2>2, <3>3 DEF LogInv, InPlace
    <3> QED BY <3>1, <3>2, <3>3, <3>4 DEF Entry, Lines
  <2> QED BY <2>1, <2>2, <2>3, SeqEqual
<1> QED BY <1>1, LogInvariant, PTL
=============================================================================
