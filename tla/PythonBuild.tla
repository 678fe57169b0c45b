------------------------------ MODULE PythonBuild ------------------------------
(***************************************************************************)
(* PythonBuilder::build, on the host and in a container, for one function: *)
(* the artifact directory of its next revision number, which every attempt *)
(* uses again until one succeeds; the installers an attempt starts, which  *)
(* may outlive it; and the build record. The log is BuildLog's.            *)
(*                                                                         *)
(* Attempts do not overlap (Registry's `building`), but an attempt may be  *)
(* cut short, by a dropped handler or by the end of the host.              *)
(***************************************************************************)
EXTENDS Integers, FiniteSets

CONSTANTS
  Names,         \* entries of the source directory that are not excluded
  Main,          \* main.py
  Requirements,  \* requirements.txt
  Versions,      \* contents a file may have; each requires one package
  Declaring,     \* those that declare functions-framework themselves
  Framework,     \* python.functions_framework
  Modes,         \* builders that python.mode may choose
  MaxAttempts,   \* bound on the attempts
  MaxEdits,      \* bound on the changes of the source between them
  Faults         \* a subset of {"io", "docker", "drop", "killed"}

(* What may be under a name: a file with its content, or one of these.     *)
None == "none"
Link == "link"
Dir == "dir"
Entries == Versions \cup {None, Link, Dir}
Unseen == "unseen"   \* not come across yet

ASSUME BuildAssumption ==
  /\ {Main, Requirements} \subseteq Names
  /\ Versions \cap {None, Link, Dir, Unseen} = {}
  /\ Declaring \subseteq Versions
  /\ Framework \notin Versions
  /\ Modes \subseteq {"host", "container"} /\ Modes # {}
  /\ MaxAttempts \in Nat \ {0} /\ MaxEdits \in Nat
  /\ Faults \subseteq {"io", "docker", "drop", "killed"}

VARIABLES
  source,     \* source_dir
  edits,
  attempt,    \* number of the latest attempt
  pc,         \* where it is
  mode,       \* its builder
  late,       \* its deadline has passed
  copied,     \* what snapshot_source has come across, by name
  src,        \* <artifact_dir>/src
  reqs,       \* requirements.open-functions.txt
  venv,       \* packages in <artifact_dir>/venv
  proc,       \* the installer or the build container of each attempt
  ended,      \* how each attempt ended
  status      \* Build.status of each attempt

vars == <<source, edits, attempt, pc, mode, late, copied, src, reqs, venv, proc,
          ended, status>>

Attempts == 1..MaxAttempts
Packages == Versions \cup {Framework}
Commands == {"venv", "install", "compile", "verify"}

NoVenv == [made |-> FALSE, has |-> {}]
NoProc == [cmd |-> "none", left |-> {}, boxed |-> FALSE]

Copying == {"snapshot", "requirements"}
Busy == Copying \cup Commands \cup {"create", "returned"}

TypeOK ==
  /\ source \in [Names -> Entries] /\ src \in [Names -> Entries]
  /\ edits \in 0..MaxEdits /\ attempt \in 0..MaxAttempts
  /\ pc \in Busy \cup {"idle", "dropped", "cut", "ready"}
  /\ mode \in Modes /\ late \in BOOLEAN
  /\ copied \in [Names -> Entries \cup {Unseen}]
  /\ reqs \subseteq Packages
  /\ venv \in [made : BOOLEAN, has : SUBSET Packages]
  /\ venv.has # {} => venv.made
  /\ proc \in [Attempts -> [cmd : Commands \cup {"none", "zero", "fail"},
                            left : SUBSET Packages, boxed : BOOLEAN]]
  /\ ended \in [Attempts -> {"no", "Ok", "Unsupported", "SnapshotFailed", "Io", "VenvFailed",
                             "Install", "EntryPoint", "Timeout", "cut"}]
  /\ status \in [Attempts -> {"none", "Running", "Succeeded", "Failed"}]

Init ==
  /\ source \in [Names -> Versions]
  /\ edits = 0 /\ attempt = 0 /\ pc = "idle"
  /\ mode = (CHOOSE m \in Modes : TRUE) /\ late = FALSE
  /\ copied = [n \in Names |-> Unseen]
  /\ src = [n \in Names |-> None]
  /\ reqs = {} /\ venv = NoVenv
  /\ proc = [a \in Attempts |-> NoProc]
  /\ ended = [a \in Attempts |-> "no"]
  /\ status = [a \in Attempts |-> "none"]
-----------------------------------------------------------------------------
buildVars == <<attempt, pc, mode, late, copied>>
dirVars == <<src, reqs, venv>>
userVars == <<source, edits>>

(* The build of this attempt returns; nobody asks for its deadline now.    *)
Returns(how) ==
  /\ pc' = "returned"
  /\ ended' = [ended EXCEPT ![attempt] = how]
  /\ late' = FALSE
Proceeds == UNCHANGED <<ended, late>>

(* register_source_python(), for a directory that has a main.py: a build   *)
(* id and its record; the number of the revision, and with it the          *)
(* directory, is that of the failed attempts.                              *)
Begin ==
  /\ pc \in {"idle", "cut"} /\ attempt < MaxAttempts
  /\ source[Main] \in Versions \cup {Link}
  /\ attempt' = attempt + 1
  /\ mode' \in Modes
  /\ pc' = "create" /\ late' = FALSE
  /\ copied' = [n \in Names |-> Unseen]
  /\ status' = [status EXCEPT ![attempt + 1] = "Running"]
  /\ UNCHANGED <<dirVars, proc, ended, userVars>>

(* BuildLog::create truncates what is there. On the host an interpreter is *)
(* looked for next.                                                        *)
Create ==
  /\ pc = "create"
  /\ \/ pc' = "snapshot" /\ Proceeds
     \/ mode = "host" /\ Returns("Unsupported")
     \/ "io" \in Faults /\ Returns("Io")
  /\ UNCHANGED <<attempt, mode, copied, dirVars, proc, status, userVars>>

(* Copying `new` on what an earlier attempt left: dest_dir is not cleared, *)
(* symlink() refuses an existing path, and copy() and create_dir_all()     *)
(* follow a link. Without a result the copy fails; through a link it may.  *)
Copies(old, new) ==
  CASE new = None -> {old}
    [] new = Link -> IF old = None THEN {Link} ELSE {}
    [] new = Dir  -> IF old \in {None, Dir} THEN {Dir} ELSE {old} \cap {Link}
    [] OTHER      -> IF old = Link THEN {Link} ELSE IF old = Dir THEN {} ELSE {new}

MayFail(old, new) ==
  \/ Copies(old, new) = {}
  \/ old = Link /\ new # None
  \/ "io" \in Faults

SnapshotEntry(n) ==
  /\ pc = "snapshot" /\ copied[n] = Unseen
  /\ \E there \in Copies(src[n], source[n]) : src' = [src EXCEPT ![n] = there]
  /\ copied' = [copied EXCEPT ![n] = source[n]]
  /\ UNCHANGED <<attempt, pc, mode, late, reqs, venv, proc, ended, status, userVars>>

SnapshotFails(n) ==
  /\ pc = "snapshot" /\ copied[n] = Unseen
  /\ MayFail(src[n], source[n])
  /\ Returns("SnapshotFailed")
  /\ UNCHANGED <<attempt, mode, copied, dirVars, proc, status, userVars>>

SnapshotDone ==
  /\ pc = "snapshot" /\ Unseen \notin {copied[n] : n \in Names}
  /\ pc' = "requirements"
  /\ UNCHANGED <<attempt, mode, late, copied, dirVars, proc, ended, status, userVars>>

WantedAnyway(content) == {content, Framework}

(* build_requirements_content: the framework is appended, unless declared. *)
Wanted(content) ==
  IF content \in Declaring THEN {content}
  ELSE {Framework} \cup ({content} \cap Versions)

(* resolve_requirements() reads the snapshot; a link leads anywhere, to    *)
(* nothing included.                                                       *)
Resolve ==
  /\ pc = "requirements"
  /\ \/ /\ \E content \in IF src[Requirements] = Link THEN Versions \cup {None}
                          ELSE {src[Requirements]} \ {Dir} :
             reqs' = Wanted(content)
        /\ pc' = "venv" /\ Proceeds
     \/ /\ src[Requirements] \in {Dir, Link} \/ "io" \in Faults
        /\ Returns("Io") /\ UNCHANGED reqs
  /\ UNCHANGED <<attempt, mode, copied, src, venv, proc, status, userVars>>
-----------------------------------------------------------------------------
(* run_logged(): a step header, then the command; remaining(deadline) is   *)
(* asked first. An installer reads the requirements once. A command that   *)
(* cannot be run is an Io error, or nothing for compileall. In a container *)
(* one script runs the steps, after dockerd was asked to start it; only    *)
(* the wait for it is timed.                                               *)
Runs(cmd, boxed) ==
  [cmd |-> cmd, left |-> IF cmd = "install" THEN reqs ELSE {}, boxed |-> boxed]

Launch ==
  /\ pc \in Commands /\ proc[attempt].cmd = "none"
  /\ mode = "container" => pc = "venv"
  /\ \/ /\ ~(late /\ mode = "host")
        /\ proc' = [proc EXCEPT ![attempt] = Runs(pc, mode = "container")]
        /\ UNCHANGED pc /\ Proceeds
     \/ late /\ mode = "host" /\ Returns("Timeout") /\ UNCHANGED proc
     \/ /\ "io" \in Faults /\ mode = "host" /\ UNCHANGED proc
        /\ IF pc = "compile" THEN pc' = "verify" /\ Proceeds ELSE Returns("Io")
     \/ "docker" \in Faults /\ mode = "container" /\ Returns("Io") /\ UNCHANGED proc
  /\ UNCHANGED <<attempt, mode, copied, dirVars, status, userVars>>

NextCommand == [venv |-> {"install"}, install |-> {"compile", "verify"}, compile |-> {"verify"}]
ErrorOf == [venv |-> "VenvFailed", install |-> "Install", verify |-> "EntryPoint"]

(* The host's command has ended. Bytecode is compiled apart by pip only,   *)
(* and whatever comes of that is ignored.                                  *)
CommandEnded ==
  /\ mode = "host" /\ pc \in Commands /\ proc[attempt].cmd \in {"zero", "fail"}
  /\ proc' = [proc EXCEPT ![attempt] = NoProc]
  /\ IF proc[attempt].cmd = "fail" /\ pc # "compile" THEN Returns(ErrorOf[pc])
     ELSE IF pc = "verify" THEN Returns("Ok")
     ELSE pc' \in NextCommand[pc] /\ Proceeds
  /\ UNCHANGED <<attempt, mode, copied, dirVars, status, userVars>>

(* The build container has exited, or the wait for it broke: its output is *)
(* fetched, and it is removed. wait_container() answers an exit code other *)
(* than 0 as an error, which this match takes for an exit with 1.          *)
ContainerEnded ==
  /\ mode = "container" /\ pc = "venv"
  /\ \/ proc[attempt].cmd = "zero" /\ Returns("Ok")
     \/ proc[attempt].cmd = "fail" /\ Returns("Install")
     \/ "docker" \in Faults /\ proc[attempt].cmd \in Commands /\ Returns("Install")
  /\ \/ proc' = [proc EXCEPT ![attempt] = NoProc]
     \/ "docker" \in Faults /\ UNCHANGED proc
  /\ UNCHANGED <<attempt, mode, copied, dirVars, status, userVars>>

(* A deadline that passes earlier has no effect until the first command.   *)
DeadlinePasses ==
  /\ pc \in Commands /\ ~late
  /\ mode = "container" => proc[attempt].cmd # "none"
  /\ late' = TRUE
  /\ UNCHANGED <<attempt, pc, mode, copied, dirVars, proc, ended, status, userVars>>

CommandTimesOutNever == FALSE

(* timeout() drops the future of output(), and nothing kills the command.  *)
(* Only after compileall is the timeout seen at the next step. A build     *)
(* container is removed by force.                                          *)
CommandTimesOut ==
  /\ late /\ mode = "host" /\ pc \in Commands /\ proc[attempt].cmd \in Commands
  /\ Returns("Timeout")
  /\ UNCHANGED <<attempt, mode, copied, dirVars, proc, status, userVars>>

ContainerTimesOut ==
  /\ late /\ mode = "container" /\ pc = "venv" /\ proc[attempt].cmd \in Commands
  /\ Returns("Timeout")
  /\ \/ proc' = [proc EXCEPT ![attempt] = NoProc]
     \/ "docker" \in Faults /\ UNCHANGED proc
  /\ UNCHANGED <<attempt, mode, copied, dirVars, status, userVars>>

(* put_build(); then activate_revision(), or the failure is recorded and   *)
(* the function may be registered again.                                   *)
Finish ==
  /\ pc = "returned"
  /\ status' = [status EXCEPT ![attempt] =
                  IF ended[attempt] = "Ok" THEN "Succeeded" ELSE "Failed"]
  /\ pc' = IF ended[attempt] = "Ok" THEN "ready" ELSE "idle"
  /\ UNCHANGED <<attempt, mode, late, copied, dirVars, proc, ended, userVars>>

(* The handler is dropped: the record stays Running until a restart.       *)
DropBuild ==
  /\ "drop" \in Faults
  /\ pc \in Busy
  /\ pc' = "dropped" /\ late' = FALSE
  /\ ended' = [ended EXCEPT ![attempt] = "cut"]
  /\ UNCHANGED <<attempt, mode, copied, dirVars, proc, status, userVars>>

(* The host ends and is started again: restore() fails what was Running.   *)
HostRestarts ==
  /\ "killed" \in Faults
  /\ pc \in Busy \cup {"dropped"}
  /\ pc' = "cut" /\ late' = FALSE
  /\ ended' = [ended EXCEPT ![attempt] = "cut"]
  /\ status' = [status EXCEPT ![attempt] = "Failed"]
  /\ UNCHANGED <<attempt, mode, copied, dirVars, proc, source, edits>>
-----------------------------------------------------------------------------
(* The commands themselves: `uv venv --clear`, which empties what is       *)
(* there; an install, package by package; the import of main. Any of them  *)
(* may fail. A container's script goes on by itself.                       *)
ClearedNot == [venv EXCEPT !.made = TRUE]
Cleared == [made |-> TRUE, has |-> {}]

Exits(a, code) == proc' = [proc EXCEPT ![a] = [@ EXCEPT !.cmd = code, !.left = {}]]
Continues(a, cmd) ==
  IF proc[a].boxed THEN proc' = [proc EXCEPT ![a] = Runs(cmd, TRUE)] ELSE Exits(a, "zero")

VenvRuns(a) ==
  /\ proc[a].cmd = "venv"
  /\ venv' = Cleared
  /\ Continues(a, "install")
  /\ UNCHANGED <<buildVars, src, reqs, ended, status, userVars>>

InstallRuns(a) ==
  /\ proc[a].cmd = "install" /\ venv.made
  /\ \E p \in proc[a].left :
       /\ venv' = [venv EXCEPT !.has = @ \cup {p}]
       /\ proc' = [proc EXCEPT ![a].left = @ \ {p}]
  /\ UNCHANGED <<buildVars, src, reqs, ended, status, userVars>>

InstallEnds(a) ==
  /\ proc[a].cmd = "install" /\ proc[a].left = {}
  /\ Continues(a, "verify")
  /\ UNCHANGED <<buildVars, dirVars, ended, status, userVars>>

CheckRuns(a) ==
  /\ proc[a].cmd \in {"compile", "verify"}
  /\ proc[a].cmd = "verify" => src[Main] \notin {None, Dir}
  /\ Exits(a, "zero")
  /\ UNCHANGED <<buildVars, dirVars, ended, status, userVars>>

CommandFails(a) ==
  /\ proc[a].cmd \in Commands
  /\ Exits(a, "fail")
  /\ UNCHANGED <<buildVars, dirVars, ended, status, userVars>>

CommandSteps(a) == VenvRuns(a) \/ InstallRuns(a) \/ InstallEnds(a) \/ CheckRuns(a) \/ CommandFails(a)

(* The user works on the source, which nobody reads at another time.       *)
Edit ==
  /\ edits < MaxEdits /\ pc \in {"snapshot", "idle", "cut"} /\ attempt > 0
  /\ \E n \in Names, e \in Entries : source' = [source EXCEPT ![n] = e]
  /\ edits' = edits + 1
  /\ UNCHANGED <<buildVars, dirVars, proc, ended, status>>
-----------------------------------------------------------------------------
BuildStep ==
  \/ Create \/ SnapshotDone \/ Resolve \/ Launch \/ CommandEnded \/ ContainerEnded
  \/ CommandTimesOut \/ ContainerTimesOut \/ Finish
  \/ \E n \in Names : SnapshotEntry(n) \/ SnapshotFails(n)

Next ==
  \/ Begin \/ BuildStep \/ DeadlinePasses \/ DropBuild \/ HostRestarts
  \/ \E a \in Attempts : CommandSteps(a)
  \/ Edit

Spec == Init /\ [][Next]_vars

(* The tasks are polled, and the timer fires; an installer may hang.       *)
FairSpec ==
  Spec /\ WF_vars(BuildStep) /\ WF_vars(DeadlinePasses)
-----------------------------------------------------------------------------
(* An earlier attempt may have left an installer behind: one that timed    *)
(* out on the host, one that was cut short, and a container that could not *)
(* be removed.                                                             *)
MayTrespass(a) == ended[a] \in {"Timeout", "cut"} \/ proc[a].boxed

(* What a ready revision runs is its own: the packages its requirements    *)
(* ask for, whatever failed before, unless an earlier attempt's installer  *)
(* was left behind; and the files its source held when they were come      *)
(* across, but for those of an earlier attempt that the source no longer   *)
(* has, and those written through a link.                                  *)
ReadyIsOwn ==
  pc = "ready" =>
    /\ venv = [made |-> TRUE, has |-> reqs] \/ \E a \in 1..(attempt - 1) : MayTrespass(a)
    /\ \A n \in Names :
         \/ src[n] = copied[n]
         \/ attempt > 1 /\ (copied[n] = None \/ src[n] = Link)

(* A build comes to its end, also when an installer hangs, unless its      *)
(* handler is dropped.                                                     *)
BuildReturns == pc \in Busy ~> pc \in {"ready", "idle", "cut", "dropped"}

(* host.rs:199-207: a failed attempt does not stand in the way of the next *)
(* one at the same revision number: while the disk does its part, a        *)
(* snapshot succeeds.                                                      *)
RetryIsCopied ==
  pc = "returned" /\ ended[attempt] = "SnapshotFailed" => "io" \in Faults
=============================================================================
