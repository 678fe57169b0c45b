------------------------------- MODULE BuildLog -------------------------------
(***************************************************************************)
(* build.log and GET .../builds/{build_id}/log?follow=true. The log is a   *)
(* file of the artifact directory: all attempts at one revision number     *)
(* write the same one, and each truncates it. Python and container builds  *)
(* have written it when they return; host cargo's output is copied by a    *)
(* task nobody waits for, which may write after that, also when its build  *)
(* timed out and the next attempt has begun (a grandchild has the pipe).   *)
(*                                                                         *)
(* Lines stand for what one write adds; they are all equally long.         *)
(***************************************************************************)
EXTENDS Integers, Sequences

CONSTANTS
  MaxAttempts,   \* bound on the attempts at the revision number
  MaxLines,      \* bound on the lines of a build
  Writers,       \* how builds write: a subset of {"inline", "detached"}
  Faults         \* a subset of {"drop", "killed"}

ASSUME LogAssumption ==
  /\ MaxAttempts \in Nat \ {0} /\ MaxLines \in Nat
  /\ Writers \subseteq {"inline", "detached"}
  /\ Faults \subseteq {"drop", "killed"}

VARIABLES
  attempt,   \* number of the latest attempt
  step,      \* where it is
  record,    \* Build.status, "ended" for Succeeded and Failed
  writer,    \* who has the file open for each attempt
  pos,       \* the position of its file handle
  file,
  follower   \* the stream of one client

buildVars == <<attempt, step, record>>
fileVars == <<writer, pos, file>>
vars == <<buildVars, fileVars, follower>>

Attempts == 1..MaxAttempts
Hole == <<0, 0>>
Lines == Attempts \X (1..MaxLines)
NoFollower == [at |-> "none", of |-> 0, offset |-> 0, got |-> <<>>, seen |-> "Running"]

WriteAtEnd(f, p, line) == Append(f, line)

(* A handle that is past the end of a file truncated since leaves a hole.  *)
WriteAt(f, p, line) ==
  [i \in 1..(IF p < Len(f) THEN Len(f) ELSE p + 1) |->
     IF i = p + 1 THEN line ELSE IF i <= Len(f) THEN f[i] ELSE Hole]

TypeOK ==
  /\ attempt \in 0..MaxAttempts
  /\ step \in {"idle", "recorded", "building", "returned", "dropped"}
  /\ record \in [Attempts -> {"none", "Running", "ended"}]
  /\ writer \in [Attempts -> {"none", "inline", "detached", "closed", "drained"}]
  /\ pos \in [Attempts -> 0..MaxLines]
  /\ file \in Seq(Lines \cup {Hole}) /\ Len(file) <= MaxLines
  /\ follower.at \in {"none", "read", "empty", "done"}
  /\ follower.of \in 0..attempt /\ follower.offset = Len(follower.got)

Init ==
  /\ attempt = 0 /\ step = "idle"
  /\ record = [a \in Attempts |-> "none"]
  /\ writer = [a \in Attempts |-> "none"]
  /\ pos = [a \in Attempts |-> 0]
  /\ file = <<>>
  /\ follower = NoFollower
-----------------------------------------------------------------------------
Closed(w) == IF w = "inline" THEN "closed" ELSE w
Drained(w) == IF w = "detached" THEN "drained" ELSE w

(* register_source_rust() and register_source_python(): put_build().       *)
PutBuild ==
  /\ step = "idle" /\ attempt < MaxAttempts
  /\ attempt' = attempt + 1 /\ step' = "recorded"
  /\ record' = [record EXCEPT ![attempt + 1] = "Running"]
  /\ UNCHANGED <<fileVars, follower>>

(* File::create(log_path). Cargo may refuse the manifest before that.      *)
CreateLog ==
  /\ step = "recorded"
  /\ step' = "building" /\ file' = <<>>
  /\ \E how \in Writers : writer' = [writer EXCEPT ![attempt] = how]
  /\ UNCHANGED <<attempt, record, pos, follower>>

RefuseBuild ==
  /\ step = "recorded"
  /\ step' = "returned"
  /\ UNCHANGED <<attempt, record, fileVars, follower>>

Write(a) ==
  /\ writer[a] \in {"inline", "detached"} /\ pos[a] < MaxLines
  /\ file' = WriteAt(file, pos[a], <<a, pos[a] + 1>>)
  /\ pos' = [pos EXCEPT ![a] = @ + 1]
  /\ UNCHANGED <<buildVars, writer, follower>>

DrainEnds(a) ==
  /\ writer[a] = "detached"
  /\ writer' = [writer EXCEPT ![a] = "drained"]
  /\ UNCHANGED <<buildVars, pos, file, follower>>

BuildReturns ==
  /\ step = "building"
  /\ step' = "returned"
  /\ writer' = [writer EXCEPT ![attempt] = Closed(@)]
  /\ UNCHANGED <<attempt, record, pos, file, follower>>

(* put_build() again. The next attempt at this number follows a failure.   *)
EndBuild ==
  /\ step = "returned"
  /\ step' = "idle"
  /\ record' = [record EXCEPT ![attempt] = "ended"]
  /\ UNCHANGED <<attempt, fileVars, follower>>

(* The handler is dropped, and with it an inline writer, the record stays; *)
(* the host ends with all its tasks, and restore() fails the record.       *)
DropBuild ==
  /\ "drop" \in Faults
  /\ step \in {"recorded", "building", "returned"}
  /\ step' = "dropped"
  /\ writer' = [writer EXCEPT ![attempt] = Closed(@)]
  /\ UNCHANGED <<attempt, record, pos, file, follower>>

HostRestarts ==
  /\ "killed" \in Faults /\ attempt > 0
  /\ step' = "idle"
  /\ record' = [a \in Attempts |-> IF record[a] = "Running" THEN "ended" ELSE record[a]]
  /\ writer' = [a \in Attempts |-> Drained(Closed(writer[a]))]
  /\ follower' = NoFollower
  /\ UNCHANGED <<attempt, pos, file>>
-----------------------------------------------------------------------------
Follow(a) ==
  /\ follower.at = "none" /\ a <= attempt
  /\ follower' = [NoFollower EXCEPT !.at = "read", !.of = a, !.seen = record[a]]
  /\ UNCHANGED <<buildVars, fileVars>>

(* read_new_bytes(). A file that is now shorter has nothing new.           *)
NewBytes == SubSeq(file, follower.offset + 1, Len(file))

ReadNewBytes ==
  /\ follower.at = "read"
  /\ follower' = IF NewBytes # <<>>
       THEN [follower EXCEPT !.offset = @ + Len(NewBytes), !.got = @ \o NewBytes]
       ELSE [follower EXCEPT !.at = "empty"]
  /\ UNCHANGED <<buildVars, fileVars>>

MayEndFresh == record[follower.of] # "Running"

(* follow_build_log_step(): an empty read ends the stream if the status    *)
(* known before it was not Running; else it sleeps and asks for it again.  *)
MayEnd == follower.seen # "Running"

AfterEmptyReadStale ==
  /\ follower.at = "empty"
  /\ follower' = [follower EXCEPT !.at = IF MayEnd THEN "done" ELSE "read"]
  /\ UNCHANGED <<buildVars, fileVars>>

AfterEmptyRead ==
  /\ follower.at = "empty"
  /\ follower' = IF MayEnd THEN [follower EXCEPT !.at = "done"]
                 ELSE [follower EXCEPT !.at = "read", !.seen = record[follower.of]]
  /\ UNCHANGED <<buildVars, fileVars>>
-----------------------------------------------------------------------------
BuildStep == CreateLog \/ RefuseBuild \/ BuildReturns \/ EndBuild
FollowerStep == ReadNewBytes \/ AfterEmptyRead

Next ==
  \/ PutBuild \/ BuildStep \/ DropBuild \/ HostRestarts
  \/ \E a \in Attempts : Write(a) \/ DrainEnds(a) \/ Follow(a)
  \/ FollowerStep

Spec == Init /\ [][Next]_vars

(* A build returns, at its deadline if not before; the stream is polled.   *)
FairSpec == Spec /\ WF_vars(BuildStep) /\ WF_vars(FollowerStep)
-----------------------------------------------------------------------------
(* A stream that ended of itself has given the client the whole log of its *)
(* build, in order and once, if the build writes before it returns. It may *)
(* not have where the file is not that build's alone: a later attempt has  *)
(* begun, the client came before the file was truncated, or the cargo of   *)
(* an earlier attempt has written to it since.                             *)
Own(a, lines) == \A i \in 1..Len(lines) : lines[i][1] = a

FollowerComplete ==
  LET a == follower.of
  IN follower.at = "done" /\ writer[a] = "closed" /\ attempt = a
       /\ Own(a, follower.got) /\ Own(a, file)
     => follower.got = file

(* Every stream ends after its build, but that of a dropped handler.       *)
FollowerEnds ==
  follower.at \in {"read", "empty"} ~> follower.at \in {"none", "done"} \/ step = "dropped"
=============================================================================
