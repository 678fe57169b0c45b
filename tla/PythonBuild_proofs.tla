-------------------------- MODULE PythonBuild_proofs --------------------------
(***************************************************************************)
(* Proofs about PythonBuild: its type invariant, and that a ready revision *)
(* runs its own files and packages.                                        *)
(*                                                                         *)
(* Of the packages, the argument is who may still write the venv. An       *)
(* attempt that ended otherwise than by its deadline or a cut has no       *)
(* command under way but a container's (Ends), so while no earlier attempt *)
(* may trespass (Quiet) the commands that run are those of the latest one, *)
(* in their order (Stage), and each finds the venv the one before it left  *)
(* (Installed). Of the files, it is what may be under a name when it is    *)
(* come across: nothing on the first attempt, and later what was left.     *)
(***************************************************************************)
EXTENDS PythonBuild, TLAPS

Starting == Copying \cup {"create"}
Own(n) == src[n] = copied[n] \/ (attempt > 1 /\ (copied[n] = None \/ src[n] = Link))

Ends ==
  /\ \A a \in Attempts :
       /\ a > attempt => ended[a] = "no" /\ proc[a] = NoProc
       /\ a < attempt => ended[a] # "no"
       /\ ended[a] # "no" => MayTrespass(a) \/ proc[a].cmd \notin Commands
       /\ ended[a] = "Ok" => proc[a].cmd \notin Commands
  /\ pc \in Starting \cup Commands => attempt > 0 /\ ended[attempt] = "no"
  /\ pc \in {"returned", "ready", "dropped", "cut"} => attempt > 0 /\ ended[attempt] # "no"
  /\ pc = "idle" /\ attempt > 0 => ended[attempt] # "no"
  /\ pc = "ready" => ended[attempt] = "Ok"

Stage ==
  /\ pc \in Starting => proc[attempt] = NoProc
  /\ pc \in Commands /\ mode = "host" =>
       ~proc[attempt].boxed /\ proc[attempt].cmd \in {"none", pc, "zero", "fail"}
  /\ pc \in Commands /\ mode = "container" =>
       /\ pc = "venv" /\ proc[attempt].cmd # "compile"
       /\ proc[attempt].cmd # "none" => proc[attempt].boxed

Files ==
  /\ \A n \in Names :
       /\ copied[n] # Unseen => Own(n)
       /\ copied[n] = Unseen /\ attempt <= 1 => src[n] = None
       /\ attempt = 0 => copied[n] = Unseen
  /\ pc \in Commands \cup {"requirements"} \/ (attempt > 0 /\ ended[attempt] = "Ok")
       => \A n \in Names : copied[n] # Unseen

Quiet == \A a \in 1..(attempt - 1) : ~MayTrespass(a)
Complete == venv = [made |-> TRUE, has |-> reqs]

(* The venv as the commands of the latest attempt find it.                 *)
VenvReady ==
  mode = "host" /\ \/ pc = "venv" /\ proc[attempt].cmd = "zero"
                   \/ pc = "install" /\ proc[attempt].cmd = "none"
PackagesReady ==
  \/ pc \in {"compile", "verify"}
  \/ mode = "host" /\ pc = "install" /\ proc[attempt].cmd = "zero"
  \/ mode = "container" /\ pc = "venv" /\ proc[attempt].cmd \in {"verify", "zero"}
  \/ attempt > 0 /\ ended[attempt] = "Ok"

Installed ==
  Quiet =>
    /\ pc \in Commands /\ proc[attempt].cmd = "install" =>
         venv.made /\ venv.has \cup proc[attempt].left = reqs
    /\ VenvReady => venv = Cleared
    /\ PackagesReady => Complete

BuildInv == TypeOK /\ Ends /\ Stage /\ Files /\ Installed
-----------------------------------------------------------------------------
Outcomes == {"Ok", "Unsupported", "SnapshotFailed", "Io", "VenvFailed", "Install", "EntryPoint",
             "Timeout", "cut"}
Procs == [cmd : Commands \cup {"none", "zero", "fail"}, left : SUBSET Packages, boxed : BOOLEAN]

USE DEF Attempts, Commands, Copying, Starting, Busy

LEMMA InitBuild == Init => BuildInv
<1> SUFFICES ASSUME Init PROVE BuildInv
  OBVIOUS
<1>1. mode \in Modes
  <2>1. \E m \in Modes : TRUE
    BY BuildAssumption
  <2>2. (CHOOSE m \in Modes : TRUE) \in Modes
    BY <2>1, Zenon
  <2> QED BY <2>2 DEF Init
<1>2. TypeOK
  <2>1. source \in [Names -> Entries] /\ src \in [Names -> Entries] /\ copied \in [Names -> Entries \cup {Unseen}]
    BY DEF Init, Entries
  <2>2. venv \in [made : BOOLEAN, has : SUBSET Packages] /\ (venv.has # {} => venv.made)
    BY DEF Init, NoVenv
  <2>3. proc \in [Attempts -> [cmd : Commands \cup {"none", "zero", "fail"},
                              left : SUBSET Packages, boxed : BOOLEAN]]
    BY DEF Init, NoProc
  <2>4. /\ ended \in [Attempts -> {"no", "Ok", "Unsupported", "SnapshotFailed", "Io", "VenvFailed",
                                  "Install", "EntryPoint", "Timeout", "cut"}]
        /\ status \in [Attempts -> {"none", "Running", "Succeeded", "Failed"}]
    BY DEF Init
  <2>5. edits \in 0..MaxEdits /\ attempt \in 0..MaxAttempts
    BY BuildAssumption DEF Init
  <2>6. pc = "idle" /\ late \in BOOLEAN /\ reqs \subseteq Packages
    BY DEF Init
  <2> QED BY <1>1, <2>1, <2>2, <2>3, <2>4, <2>5, <2>6 DEF TypeOK
<1>3. Ends /\ Stage
  BY BuildAssumption DEF Init, Ends, Stage, NoProc
<1>4. Files
  BY BuildAssumption DEF Init, Files
<1>5. Installed
  BY BuildAssumption DEF Init, Installed, VenvReady, PackagesReady, NoProc
<1> QED BY <1>2, <1>3, <1>4, <1>5 DEF BuildInv

(* The types of what a build is about.                                     *)
LEMMA Types ==
  ASSUME BuildInv
  PROVE  /\ attempt \in 0..MaxAttempts /\ mode \in Modes /\ Modes \subseteq {"host", "container"}
         /\ proc \in [Attempts -> Procs] /\ MaxAttempts \in Nat
         /\ ended \in [Attempts -> Outcomes \cup {"no"}]
         /\ pc \in Starting \cup Commands => attempt \in Attempts
BY BuildAssumption DEF BuildInv, TypeOK, Ends, Procs, Outcomes

(* What stays quiet, or is made so, was.                                   *)
LEMMA QuietStays ==
  ASSUME BuildInv, attempt \in Attempts, attempt' = attempt,
         \A a \in Attempts \ {attempt} : ended'[a] = ended[a] /\ proc'[a].boxed = proc[a].boxed
  PROVE  Quiet' <=> Quiet
BY Types DEF Quiet, MayTrespass

(* A build that returns, with whatever outcome, from any of its steps.     *)
LEMMA ReturnKeeps ==
  ASSUME BuildInv, pc \in Starting \cup Commands, NEW how \in Outcomes, Returns(how),
         UNCHANGED <<attempt, mode, copied, src, reqs, venv, status, source, edits>>,
         proc' = proc \/ proc' = [proc EXCEPT ![attempt] = NoProc],
         how \in {"Timeout", "cut"} \/ proc'[attempt].boxed \/ proc'[attempt].cmd \notin Commands,
         how = "Ok" => pc \in Commands /\ proc'[attempt].cmd \notin Commands /\ (Quiet => Complete)
  PROVE  BuildInv'
<1>1. /\ pc' = "returned" /\ ended' = [ended EXCEPT ![attempt] = how] /\ late' = FALSE
      /\ attempt \in Attempts /\ ended[attempt] = "no"
      /\ UNCHANGED <<attempt, mode, copied, src, reqs, venv, status, source, edits>>
  BY Types DEF Returns, BuildInv, Ends
<1>2. \A a \in Attempts \ {attempt} : ended'[a] = ended[a] /\ proc'[a] = proc[a]
  BY <1>1, Types
<1>3. ended'[attempt] = how /\ proc'[attempt] \in {proc[attempt], NoProc}
  BY <1>1, Types
<1>4. TypeOK'
  <2>1. NoProc \in Procs
    BY DEF NoProc, Procs
  <2>2. proc' \in [Attempts -> Procs]
    BY <1>1, <2>1, Types
  <2>3. ended' \in [Attempts -> Outcomes \cup {"no"}]
    BY <1>1, Types
  <2> QED BY <1>1, <2>2, <2>3 DEF BuildInv, TypeOK, Procs, Outcomes
<1>5. Ends'
  <2>1. ASSUME NEW a \in Attempts
        PROVE  /\ a > attempt => ended'[a] = "no" /\ proc'[a] = NoProc
               /\ a < attempt => ended'[a] # "no"
               /\ ended'[a] # "no" => MayTrespass(a)' \/ proc'[a].cmd \notin Commands
               /\ ended'[a] = "Ok" => proc'[a].cmd \notin Commands
    <3>1. CASE a = attempt
      BY <1>1, <1>3, <3>1, Types DEF MayTrespass
    <3>2. CASE a # attempt
      BY <1>2, <3>2, Types DEF BuildInv, Ends, MayTrespass
    <3> QED BY <3>1, <3>2
  <2>2. attempt' > 0 /\ ended'[attempt] # "no"
    BY <1>1, <1>3, Types DEF Outcomes
  <2> QED BY <1>1, <2>1, <2>2 DEF Ends
<1>6. Stage'
  BY <1>1 DEF Stage
<1>7. Files'
  BY <1>1, <1>3 DEF BuildInv, Files, Own
<1>8. Installed'
  <2>1. Quiet' <=> Quiet
    BY <1>1, <1>2, QuietStays
  <2>2. VenvReady' => FALSE
    BY <1>1 DEF VenvReady
  <2>3. Quiet' /\ PackagesReady' => Complete'
    BY <1>1, <1>3, <2>1 DEF PackagesReady, Complete
  <2> QED BY <1>1, <2>2, <2>3 DEF Installed
<1> QED BY <1>4, <1>5, <1>6, <1>7, <1>8 DEF BuildInv

LEMMA BeginKeeps ==
  ASSUME BuildInv, Begin
  PROVE  BuildInv'
<1>1. /\ pc \in {"idle", "cut"} /\ attempt < MaxAttempts /\ attempt' = attempt + 1
      /\ mode' \in Modes /\ pc' = "create" /\ late' = FALSE
      /\ copied' = [n \in Names |-> Unseen]
      /\ status' = [status EXCEPT ![attempt + 1] = "Running"]
      /\ UNCHANGED <<src, reqs, venv, proc, ended, source, edits>>
  BY DEF Begin, dirVars, userVars
<1>2. attempt' \in Attempts /\ attempt' \in 0..MaxAttempts /\ attempt \in Nat /\ attempt' > attempt
  BY <1>1, Types
<1>3. TypeOK'
  <2>1. status' \in [Attempts -> {"none", "Running", "Succeeded", "Failed"}]
    BY <1>1 DEF BuildInv, TypeOK
  <2>2. copied' \in [Names -> Entries \cup {Unseen}]
    BY <1>1
  <2> QED BY <1>1, <1>2, <2>1, <2>2 DEF BuildInv, TypeOK
<1>4. ended[attempt'] = "no" /\ proc[attempt'] = NoProc
  BY <1>2 DEF BuildInv, Ends
<1>5. Ends'
  <2>1. ASSUME NEW a \in Attempts, a < attempt' PROVE ended[a] # "no"
    BY <1>1, <1>2, <2>1 DEF BuildInv, Ends
  <2>2. ASSUME NEW a \in Attempts, a > attempt' PROVE ended[a] = "no" /\ proc[a] = NoProc
    BY <1>1, <1>2, <2>2 DEF BuildInv, Ends
  <2>3. ASSUME NEW a \in Attempts
        PROVE  /\ ended[a] # "no" => MayTrespass(a)' \/ proc[a].cmd \notin Commands
               /\ ended[a] = "Ok" => proc[a].cmd \notin Commands
    BY <1>1 DEF BuildInv, Ends, MayTrespass
  <2> QED BY <1>1, <1>2, <1>4, <2>1, <2>2, <2>3 DEF Ends
<1>6. Stage'
  BY <1>1, <1>4 DEF Stage
<1>7. Files'
  BY <1>1, <1>2, <1>4 DEF BuildInv, Files
<1>8. Installed'
  BY <1>1, <1>4 DEF Installed, VenvReady, PackagesReady
<1> QED BY <1>3, <1>5, <1>6, <1>7, <1>8 DEF BuildInv

(* Until its first command an attempt has nothing to show.                 *)
LEMMA CopyKeeps ==
  ASSUME BuildInv, pc \in Starting, pc' \in Starting \cup {"venv"}, reqs' \subseteq Packages,
         UNCHANGED <<attempt, mode, late, copied, src, venv, proc, ended, status, source, edits>>,
         pc' \in Commands \cup {"requirements"} => \A n \in Names : copied[n] # Unseen
  PROVE  BuildInv'
<1>1. proc[attempt] = NoProc /\ ended[attempt] = "no" /\ attempt \in Attempts
  BY Types DEF BuildInv, Stage, Ends
<1>2. TypeOK'
  BY DEF BuildInv, TypeOK
<1>3. Ends'
  BY DEF BuildInv, Ends, MayTrespass
<1>4. Stage'
  BY <1>1 DEF Stage, NoProc
<1>5. Files'
  BY <1>1 DEF BuildInv, Files, Own
<1>6. Installed'
  BY <1>1 DEF Installed, VenvReady, PackagesReady, NoProc
<1> QED BY <1>2, <1>3, <1>4, <1>5, <1>6 DEF BuildInv

LEMMA CreateKeeps ==
  ASSUME BuildInv, Create
  PROVE  BuildInv'
<1>1. /\ pc = "create"
      /\ UNCHANGED <<attempt, mode, copied, src, reqs, venv, proc, status, source, edits>>
      /\ \/ pc' = "snapshot" /\ UNCHANGED <<ended, late>>
         \/ Returns("Unsupported") \/ Returns("Io")
  BY DEF Create, dirVars, userVars, Proceeds
<1>2. proc[attempt].cmd = "none" /\ reqs \subseteq Packages
  BY <1>1 DEF BuildInv, Stage, NoProc, TypeOK
<1> QED BY <1>1, <1>2, ReturnKeeps, CopyKeeps DEF Outcomes

LEMMA SnapshotEntryKeeps ==
  ASSUME BuildInv, NEW n \in Names, SnapshotEntry(n)
  PROVE  BuildInv'
<1>1. /\ pc = "snapshot" /\ copied[n] = Unseen
      /\ copied' = [copied EXCEPT ![n] = source[n]]
      /\ UNCHANGED <<attempt, pc, mode, late, reqs, venv, proc, ended, status, source, edits>>
  BY DEF SnapshotEntry, userVars
<1>2. PICK there \in Copies(src[n], source[n]) : src' = [src EXCEPT ![n] = there]
  BY DEF SnapshotEntry
<1>3. source[n] \in Entries /\ src[n] \in Entries
  BY DEF BuildInv, TypeOK
<1>4. there \in Entries
  BY <1>2, <1>3 DEF Copies, Entries
<1>5. /\ src[n] = None => there = source[n]
      /\ there = source[n] \/ source[n] = None \/ there = Link
  BY <1>2, <1>3, BuildAssumption DEF Copies, Entries, None, Link, Dir
<1>6. attempt \in Attempts /\ ended[attempt] = "no" /\ proc[attempt] = NoProc
  BY <1>1, Types DEF BuildInv, Ends, Stage
<1>7. TypeOK'
  <2>1. src' \in [Names -> Entries] /\ copied' \in [Names -> Entries \cup {Unseen}]
    BY <1>1, <1>2, <1>3, <1>4 DEF BuildInv, TypeOK
  <2> QED BY <1>1, <2>1 DEF BuildInv, TypeOK
<1>8. Ends' /\ Stage'
  BY <1>1 DEF BuildInv, Ends, Stage, MayTrespass
<1>9. Files'
  <2>1. src'[n] = there /\ copied'[n] = source[n]
    BY <1>1, <1>2 DEF BuildInv, TypeOK
  <2>2. \A k \in Names \ {n} : src'[k] = src[k] /\ copied'[k] = copied[k]
    BY <1>1, <1>2 DEF BuildInv, TypeOK
  <2>3. attempt <= 1 => src[n] = None
    BY <1>1 DEF BuildInv, Files
  <2>4. copied'[n] # Unseen => Own(n)'
    BY <1>1, <1>5, <1>6, <2>1, <2>3 DEF Own
  <2>5. \A k \in Names \ {n} : copied'[k] # Unseen => Own(k)'
    BY <1>1, <2>2 DEF BuildInv, Files, Own
  <2>6. \A k \in Names : copied'[k] = Unseen /\ attempt' <= 1 => src'[k] = None
    <3>1. copied'[n] # Unseen
      BY <1>3, <2>1, BuildAssumption DEF Entries, Unseen, None, Link, Dir
    <3> QED BY <1>1, <2>2, <3>1 DEF BuildInv, Files
  <2> QED BY <1>1, <1>6, <2>4, <2>5, <2>6 DEF Files
<1>10. Installed'
  BY <1>1, <1>6 DEF Installed, VenvReady, PackagesReady, NoProc
<1> QED BY <1>7, <1>8, <1>9, <1>10 DEF BuildInv

LEMMA SnapshotEndsKeeps ==
  ASSUME BuildInv, SnapshotDone \/ \E n \in Names : SnapshotFails(n)
  PROVE  BuildInv'
<1>1. /\ pc = "snapshot"
      /\ UNCHANGED <<attempt, mode, copied, src, reqs, venv, proc, status, source, edits>>
      /\ \/ /\ pc' = "requirements" /\ UNCHANGED <<ended, late>>
            /\ \A n \in Names : copied[n] # Unseen
         \/ Returns("SnapshotFailed")
  BY DEF SnapshotDone, SnapshotFails, dirVars, userVars
<1>2. proc[attempt].cmd = "none" /\ reqs \subseteq Packages
  BY <1>1 DEF BuildInv, Stage, NoProc, TypeOK
<1> QED BY <1>1, <1>2, ReturnKeeps, CopyKeeps DEF Outcomes

LEMMA ResolveKeeps ==
  ASSUME BuildInv, Resolve
  PROVE  BuildInv'
<1>1. /\ pc = "requirements"
      /\ UNCHANGED <<attempt, mode, copied, src, venv, proc, status, source, edits>>
      /\ \/ /\ \E content \in Entries : reqs' = Wanted(content)
            /\ pc' = "venv" /\ UNCHANGED <<ended, late>>
         \/ Returns("Io") /\ UNCHANGED reqs
  <2>1. src[Requirements] \in Entries
    BY BuildAssumption DEF BuildInv, TypeOK
  <2> QED BY <2>1 DEF Resolve, Proceeds, userVars, Entries
<1>2. proc[attempt].cmd = "none" /\ \A n \in Names : copied[n] # Unseen
  BY <1>1 DEF BuildInv, Stage, NoProc, Files
<1>3. \A content \in Entries : Wanted(content) \subseteq Packages
  BY BuildAssumption DEF Wanted, Packages
<1> QED BY <1>1, <1>2, <1>3, ReturnKeeps, CopyKeeps DEF Outcomes
-----------------------------------------------------------------------------
(* The next command is chosen: the venv is as that command expects it.     *)
LEMMA CommandKeeps ==
  ASSUME BuildInv, pc \in Commands, pc' \in Commands, NEW run \in Procs,
         proc' = [proc EXCEPT ![attempt] = run],
         UNCHANGED <<attempt, mode, late, copied, src, reqs, venv, ended, status, source, edits>>,
         mode = "host" => ~run.boxed /\ run.cmd \in {"none", pc', "zero", "fail"},
         mode = "container" =>
           /\ pc' = "venv" /\ run.cmd # "compile"
           /\ run.cmd # "none" => run.boxed,
         Quiet => /\ run.cmd = "install" => venv.made /\ venv.has \cup run.left = reqs
                  /\ VenvReady' => venv = Cleared
                  /\ PackagesReady' => Complete
  PROVE  BuildInv'
<1>1. attempt \in Attempts /\ ended[attempt] = "no" /\ proc'[attempt] = run
  BY Types DEF BuildInv, Ends
<1>2. \A a \in Attempts \ {attempt} : proc'[a] = proc[a]
  BY Types
<1>3. TypeOK'
  <2>1. proc' \in [Attempts -> Procs]
    BY Types
  <2> QED BY <2>1 DEF BuildInv, TypeOK, Procs
<1>4. Ends'
  <2>1. ASSUME NEW a \in Attempts
        PROVE  /\ a > attempt => ended[a] = "no" /\ proc'[a] = NoProc
               /\ a < attempt => ended[a] # "no"
               /\ ended[a] # "no" => MayTrespass(a)' \/ proc'[a].cmd \notin Commands
               /\ ended[a] = "Ok" => proc'[a].cmd \notin Commands
    <3>1. CASE a = attempt
      BY <1>1, <3>1, Types
    <3>2. CASE a # attempt
      BY <1>2, <3>2, Types DEF BuildInv, Ends, MayTrespass
    <3> QED BY <3>1, <3>2
  <2> QED BY <1>1, <2>1, Types DEF Ends
<1>5. Stage'
  BY <1>1 DEF Stage
<1>6. Files'
  BY DEF BuildInv, Files, Own
<1>7. Installed'
  <2>1. Quiet' <=> Quiet
    BY <1>1, <1>2, QuietStays
  <2> QED BY <1>1, <2>1 DEF Installed, Complete
<1> QED BY <1>3, <1>4, <1>5, <1>6, <1>7 DEF BuildInv

LEMMA LaunchKeeps ==
  ASSUME BuildInv, Launch
  PROVE  BuildInv'
<1>1. /\ pc \in Commands /\ proc[attempt].cmd = "none" /\ (mode = "container" => pc = "venv")
      /\ UNCHANGED <<attempt, mode, copied, src, reqs, venv, status, source, edits>>
      /\ \/ /\ proc' = [proc EXCEPT ![attempt] = Runs(pc, mode = "container")]
            /\ UNCHANGED <<pc, ended, late>>
         \/ (Returns("Timeout") \/ Returns("Io")) /\ UNCHANGED proc
         \/ mode = "host" /\ pc = "compile" /\ pc' = "verify" /\ UNCHANGED <<proc, ended, late>>
  BY DEF Launch, dirVars, userVars, Proceeds
<1>2. /\ attempt \in Attempts /\ proc[attempt] \in Procs /\ mode \in {"host", "container"}
      /\ reqs \subseteq Packages /\ ended[attempt] = "no"
  BY <1>1, Types DEF BuildInv, TypeOK, Ends
<1>3. CASE /\ proc' = [proc EXCEPT ![attempt] = Runs(pc, mode = "container")]
           /\ UNCHANGED <<pc, ended, late>>
  <2> DEFINE run == Runs(pc, mode = "container")
  <2>1. /\ run.cmd = pc /\ run.boxed = (mode = "container")
        /\ run.left = IF pc = "install" THEN reqs ELSE {}
    BY DEF Runs
  <2>2. run \in Procs
    BY <1>1, <1>2 DEF Runs, Procs
  <2>3. proc'[attempt] = run
    BY <1>2, <1>3, Types
  <2> HIDE DEF run
  <2>4. Quiet /\ run.cmd = "install" => venv.made /\ venv.has \cup run.left = reqs
    BY <1>1, <1>2, <2>1 DEF BuildInv, Installed, VenvReady, Cleared
  <2>5. ~VenvReady'
    BY <1>1, <1>3, <2>1, <2>3 DEF VenvReady
  <2>6. Quiet /\ PackagesReady' => Complete
    BY <1>1, <1>2, <1>3, <2>1, <2>3 DEF BuildInv, Installed, PackagesReady
  <2> QED BY <1>1, <1>2, <1>3, <2>1, <2>2, <2>4, <2>5, <2>6, CommandKeeps DEF run
<1>4. CASE (Returns("Timeout") \/ Returns("Io")) /\ UNCHANGED proc
  BY <1>1, <1>4, ReturnKeeps DEF Outcomes
<1>5. CASE mode = "host" /\ pc = "compile" /\ pc' = "verify" /\ UNCHANGED <<proc, ended, late>>
  <2> DEFINE run == proc[attempt]
  <2>1. proc' = [proc EXCEPT ![attempt] = run]
    BY <1>2, <1>5, Types
  <2>2. ~run.boxed /\ run.cmd = "none"
    BY <1>1, <1>5 DEF BuildInv, Stage
  <2>3. ~VenvReady' /\ (Quiet => Complete)
    BY <1>5 DEF VenvReady, BuildInv, Installed, PackagesReady
  <2> HIDE DEF run
  <2> QED BY <1>1, <1>2, <1>5, <2>1, <2>2, <2>3, CommandKeeps DEF run
<1> QED BY <1>1, <1>3, <1>4, <1>5

LEMMA CommandEndedKeeps ==
  ASSUME BuildInv, CommandEnded
  PROVE  BuildInv'
<1> DEFINE p == proc[attempt]
<1>1. /\ mode = "host" /\ pc \in Commands /\ p.cmd \in {"zero", "fail"}
      /\ proc' = [proc EXCEPT ![attempt] = NoProc]
      /\ UNCHANGED <<attempt, mode, copied, src, reqs, venv, status, source, edits>>
  BY DEF CommandEnded, dirVars, userVars
<1>2. \/ p.cmd = "fail" /\ pc # "compile" /\ Returns(ErrorOf[pc])
      \/ pc = "verify" /\ p.cmd = "zero" /\ Returns("Ok")
      \/ pc = "venv" /\ p.cmd = "zero" /\ pc' = "install" /\ UNCHANGED <<ended, late>>
      \/ pc = "install" /\ p.cmd = "zero" /\ pc' \in {"compile", "verify"} /\ UNCHANGED <<ended, late>>
      \/ pc = "compile" /\ pc' = "verify" /\ UNCHANGED <<ended, late>>
  BY <1>1 DEF CommandEnded, Proceeds, NextCommand
<1>3. pc # "compile" => ErrorOf[pc] \in Outcomes \ {"Ok"}
  BY <1>1 DEF ErrorOf, Outcomes
<1>4. /\ attempt \in Attempts /\ proc'[attempt] = NoProc /\ NoProc \in Procs
      /\ NoProc.cmd = "none" /\ ~NoProc.boxed
  BY <1>1, Types DEF NoProc, Procs
<1>5. CASE p.cmd = "fail" /\ pc # "compile" /\ Returns(ErrorOf[pc])
  <2> HIDE DEF p
  <2> QED BY <1>1, <1>3, <1>4, <1>5, ReturnKeeps
<1>6. CASE pc = "verify" /\ p.cmd = "zero" /\ Returns("Ok")
  <2>1. Quiet => Complete
    BY <1>6 DEF BuildInv, Installed, PackagesReady
  <2> QED BY <1>1, <1>4, <1>6, <2>1, ReturnKeeps DEF Outcomes
<1>7. CASE pc = "venv" /\ p.cmd = "zero" /\ pc' = "install" /\ UNCHANGED <<ended, late>>
  <2>1. Quiet => venv = Cleared
    BY <1>1, <1>7 DEF BuildInv, Installed, VenvReady
  <2>2. ~PackagesReady'
    BY <1>1, <1>4, <1>7, Types DEF PackagesReady, BuildInv, Ends
  <2> QED BY <1>1, <1>4, <1>7, <2>1, <2>2, CommandKeeps
<1>8. CASE pc = "install" /\ p.cmd = "zero" /\ pc' \in {"compile", "verify"} /\ UNCHANGED <<ended, late>>
  <2>1. Quiet => Complete
    BY <1>1, <1>8 DEF BuildInv, Installed, PackagesReady
  <2>2. ~VenvReady'
    BY <1>8 DEF VenvReady
  <2> QED BY <1>1, <1>4, <1>8, <2>1, <2>2, CommandKeeps
<1>9. CASE pc = "compile" /\ pc' = "verify" /\ UNCHANGED <<ended, late>>
  <2>1. Quiet => Complete
    BY <1>9 DEF BuildInv, Installed, PackagesReady
  <2>2. ~VenvReady'
    BY <1>9 DEF VenvReady
  <2> QED BY <1>1, <1>4, <1>9, <2>1, <2>2, CommandKeeps
<1> QED BY <1>2, <1>5, <1>6, <1>7, <1>8, <1>9

LEMMA ContainerEndedKeeps ==
  ASSUME BuildInv, ContainerEnded
  PROVE  BuildInv'
<1> DEFINE p == proc[attempt]
<1>1. /\ mode = "container" /\ pc = "venv"
      /\ \/ p.cmd = "zero" /\ Returns("Ok")
         \/ p.cmd = "fail" /\ Returns("Install")
         \/ p.cmd \in Commands /\ Returns("Install")
      /\ proc' = proc \/ proc' = [proc EXCEPT ![attempt] = NoProc]
      /\ UNCHANGED <<attempt, mode, copied, src, reqs, venv, status, source, edits>>
  BY DEF ContainerEnded, dirVars, userVars
<1>2. attempt \in Attempts /\ p.boxed
  BY <1>1, Types DEF BuildInv, Stage
<1>3. \/ proc'[attempt] = p
      \/ proc'[attempt].cmd = "none"
  BY <1>1, <1>2, Types DEF NoProc
<1>4. p.cmd = "zero" /\ Quiet => Complete
  BY <1>1 DEF BuildInv, Installed, PackagesReady
<1> HIDE DEF p
<1>5. p = proc[attempt]
  BY DEF p
<1>6. CASE p.cmd = "zero" /\ Returns("Ok")
  BY <1>1, <1>3, <1>4, <1>5, <1>6, ReturnKeeps DEF Outcomes
<1>7. CASE Returns("Install")
  BY <1>1, <1>2, <1>3, <1>5, <1>7, ReturnKeeps DEF Outcomes
<1> QED BY <1>1, <1>6, <1>7

LEMMA TimesOutKeeps ==
  ASSUME BuildInv, CommandTimesOut \/ ContainerTimesOut
  PROVE  BuildInv'
<1>1. /\ pc \in Commands /\ Returns("Timeout")
      /\ proc' = proc \/ proc' = [proc EXCEPT ![attempt] = NoProc]
      /\ UNCHANGED <<attempt, mode, copied, src, reqs, venv, status, source, edits>>
  BY DEF CommandTimesOut, ContainerTimesOut, dirVars, userVars
<1> QED BY <1>1, ReturnKeeps DEF Outcomes

LEMMA FinishKeeps ==
  ASSUME BuildInv, Finish
  PROVE  BuildInv'
<1>1. /\ pc = "returned" /\ pc' = IF ended[attempt] = "Ok" THEN "ready" ELSE "idle"
      /\ status' \in [Attempts -> {"none", "Running", "Succeeded", "Failed"}]
      /\ UNCHANGED <<attempt, mode, late, copied, src, reqs, venv, proc, ended, source, edits>>
  BY DEF Finish, dirVars, userVars, BuildInv, TypeOK
<1>2. TypeOK'
  BY <1>1 DEF BuildInv, TypeOK
<1>3. Ends' /\ Stage'
  BY <1>1 DEF BuildInv, Ends, Stage, MayTrespass
<1>4. Files'
  BY <1>1 DEF BuildInv, Files, Own
<1>5. Installed'
  BY <1>1 DEF BuildInv, Installed, Quiet, MayTrespass, VenvReady, PackagesReady, Complete
<1> QED BY <1>2, <1>3, <1>4, <1>5 DEF BuildInv

(* The deadline, the end of the handler and of the host.                   *)
LEMMA DeadlineKeeps ==
  ASSUME BuildInv, DeadlinePasses \/ Edit
  PROVE  BuildInv'
<1>1. /\ late' \in BOOLEAN /\ source' \in [Names -> Entries] /\ edits' \in 0..MaxEdits
      /\ UNCHANGED <<attempt, pc, mode, copied, src, reqs, venv, proc, ended, status>>
  <2>1. late \in BOOLEAN /\ source \in [Names -> Entries] /\ edits \in 0..MaxEdits
    BY DEF BuildInv, TypeOK
  <2>2. CASE DeadlinePasses
    BY <2>1, <2>2 DEF DeadlinePasses, dirVars, userVars
  <2>3. CASE Edit
    BY <2>1, <2>3, BuildAssumption DEF Edit, dirVars, buildVars
  <2> QED BY <2>2, <2>3
<1>2. TypeOK'
  BY <1>1 DEF BuildInv, TypeOK
<1>3. Ends' /\ Stage'
  BY <1>1 DEF BuildInv, Ends, Stage, MayTrespass
<1>4. Files'
  BY <1>1 DEF BuildInv, Files, Own
<1>5. Installed'
  BY <1>1 DEF BuildInv, Installed, Quiet, MayTrespass, VenvReady, PackagesReady, Complete
<1> QED BY <1>2, <1>3, <1>4, <1>5 DEF BuildInv

LEMMA CutKeeps ==
  ASSUME BuildInv, DropBuild \/ HostRestarts
  PROVE  BuildInv'
<1>1. /\ pc \in Busy \cup {"dropped"} /\ pc' \in {"dropped", "cut"} /\ late' = FALSE
      /\ ended' = [ended EXCEPT ![attempt] = "cut"]
      /\ status' \in [Attempts -> {"none", "Running", "Succeeded", "Failed"}]
      /\ UNCHANGED <<attempt, mode, copied, src, reqs, venv, proc, source, edits>>
  <2>1. status \in [Attempts -> {"none", "Running", "Succeeded", "Failed"}]
    BY DEF BuildInv, TypeOK
  <2> QED BY <2>1 DEF DropBuild, HostRestarts, dirVars, userVars
<1>2. attempt \in Attempts
  BY <1>1, Types DEF BuildInv, Ends
<1>3. ended'[attempt] = "cut" /\ \A a \in Attempts \ {attempt} : ended'[a] = ended[a]
  BY <1>1, <1>2, Types
<1>4. TypeOK'
  <2>1. ended' \in [Attempts -> Outcomes \cup {"no"}]
    BY <1>1, Types DEF Outcomes
  <2> QED BY <1>1, <2>1 DEF BuildInv, TypeOK, Outcomes
<1>5. Ends'
  <2>1. ASSUME NEW a \in Attempts
        PROVE  /\ a > attempt => ended'[a] = "no" /\ proc'[a] = NoProc
               /\ a < attempt => ended'[a] # "no"
               /\ ended'[a] # "no" => MayTrespass(a)' \/ proc'[a].cmd \notin Commands
               /\ ended'[a] = "Ok" => proc'[a].cmd \notin Commands
    <3>1. CASE a = attempt
      BY <1>1, <1>3, <3>1, Types DEF MayTrespass
    <3>2. CASE a # attempt
      BY <1>1, <1>3, <3>2, Types DEF BuildInv, Ends, MayTrespass
    <3> QED BY <3>1, <3>2
  <2> QED BY <1>1, <1>2, <1>3, <2>1, Types DEF Ends
<1>6. Stage'
  BY <1>1 DEF Stage
<1>7. Files'
  BY <1>1, <1>3 DEF BuildInv, Files, Own
<1>8. Installed'
  BY <1>1, <1>3 DEF Installed, VenvReady, PackagesReady
<1> QED BY <1>4, <1>5, <1>6, <1>7, <1>8 DEF BuildInv
-----------------------------------------------------------------------------
(* A command of attempt a moves: it was under way, and only its own state  *)
(* and the venv change. (Continues, Exits)                                 *)
Worked(p, q) ==
  \/ /\ p.cmd = "venv" /\ venv' = Cleared
     /\ p.boxed => q.cmd = "install" /\ q.left = reqs
     /\ ~p.boxed => q.cmd = "zero"
  \/ /\ p.cmd = "install" /\ q.cmd = "install" /\ venv.made /\ venv'.made
     /\ venv'.has \cup q.left = venv.has \cup p.left
  \/ /\ p.cmd = "install" /\ p.left = {} /\ venv' = venv
     /\ q.cmd = IF p.boxed THEN "verify" ELSE "zero"
  \/ p.cmd \in {"compile", "verify"} /\ q.cmd = "zero" /\ venv' = venv
  \/ p.cmd \in Commands /\ q.cmd = "fail" /\ venv' = venv

LEMMA ContinuesIs ==
  ASSUME BuildInv, NEW a \in Attempts, NEW cmd \in {"install", "verify"}, Continues(a, cmd)
  PROVE  /\ proc'[a] \in Procs /\ proc'[a].boxed = proc[a].boxed
         /\ proc' = [proc EXCEPT ![a] = proc'[a]]
         /\ proc[a].boxed => proc'[a].cmd = cmd /\ (cmd = "install" => proc'[a].left = reqs)
         /\ ~proc[a].boxed => proc'[a].cmd = "zero"
<1>1. proc \in [Attempts -> Procs] /\ proc[a] \in Procs /\ reqs \subseteq Packages
  BY Types DEF BuildInv, TypeOK
<1>2. CASE proc[a].boxed
  <2>1. proc' = [proc EXCEPT ![a] = Runs(cmd, TRUE)]
    BY <1>2 DEF Continues
  <2>2. proc'[a] = Runs(cmd, TRUE)
    BY <1>1, <2>1
  <2>3. /\ Runs(cmd, TRUE) \in Procs /\ Runs(cmd, TRUE).boxed = TRUE /\ Runs(cmd, TRUE).cmd = cmd
        /\ cmd = "install" => Runs(cmd, TRUE).left = reqs
    BY <1>1 DEF Runs, Procs
  <2> QED BY <1>1, <1>2, <2>1, <2>2, <2>3 DEF Procs
<1>3. CASE ~proc[a].boxed
  <2> DEFINE r == [proc[a] EXCEPT !.cmd = "zero", !.left = {}]
  <2>1. proc' = [proc EXCEPT ![a] = r]
    BY <1>3 DEF Continues, Exits
  <2>2. r \in Procs /\ r.boxed = proc[a].boxed /\ r.cmd = "zero"
    BY <1>1 DEF Procs
  <2> HIDE DEF r
  <2>3. proc'[a] = r
    BY <1>1, <2>1
  <2> QED BY <1>1, <1>3, <2>1, <2>2, <2>3
<1> QED BY <1>2, <1>3

LEMMA ExitsIs ==
  ASSUME BuildInv, NEW a \in Attempts, NEW code \in {"zero", "fail"}, Exits(a, code)
  PROVE  /\ proc'[a] \in Procs /\ proc'[a].boxed = proc[a].boxed /\ proc'[a].cmd = code
         /\ proc' = [proc EXCEPT ![a] = proc'[a]]
<1>1. proc \in [Attempts -> Procs] /\ proc[a] \in Procs
  BY Types
<1> DEFINE r == [proc[a] EXCEPT !.cmd = code, !.left = {}]
<1>2. proc' = [proc EXCEPT ![a] = r]
  BY DEF Exits
<1>3. r \in Procs /\ r.boxed = proc[a].boxed /\ r.cmd = code
  BY <1>1 DEF Procs
<1> HIDE DEF r
<1>4. proc'[a] = r
  BY <1>1, <1>2
<1> QED BY <1>2, <1>3, <1>4

LEMMA CommandIs ==
  ASSUME BuildInv, NEW a \in Attempts, CommandSteps(a)
  PROVE  /\ proc[a] \in Procs /\ proc'[a] \in Procs /\ proc[a].cmd \in Commands
         /\ proc'[a].boxed = proc[a].boxed /\ proc' = [proc EXCEPT ![a] = proc'[a]]
         /\ venv' \in [made : BOOLEAN, has : SUBSET Packages] /\ (venv'.has # {} => venv'.made)
         /\ UNCHANGED <<attempt, pc, mode, late, copied, src, reqs, ended, status, source, edits>>
         /\ Worked(proc[a], proc'[a])
<1>1. /\ proc[a] \in Procs /\ proc \in [Attempts -> Procs] /\ reqs \subseteq Packages
      /\ venv \in [made : BOOLEAN, has : SUBSET Packages] /\ (venv.has # {} => venv.made)
  BY Types DEF BuildInv, TypeOK
<1>4. CASE VenvRuns(a)
  <2>1. proc[a].cmd = "venv" /\ venv' = Cleared /\ Continues(a, "install")
        /\ UNCHANGED <<attempt, pc, mode, late, copied, src, reqs, ended, status, source, edits>>
    BY <1>4 DEF VenvRuns, buildVars, userVars
  <2>2. Cleared \in [made : BOOLEAN, has : SUBSET Packages] /\ Cleared.has = {} /\ Cleared.made
    BY DEF Cleared
  <2>3. Worked(proc[a], proc'[a])
    BY <2>1, ContinuesIs DEF Worked
  <2> QED BY <1>1, <2>1, <2>2, <2>3, ContinuesIs
<1>5. CASE InstallRuns(a)
  <2>1. /\ proc[a].cmd = "install" /\ venv.made
        /\ UNCHANGED <<attempt, pc, mode, late, copied, src, reqs, ended, status, source, edits>>
    BY <1>5 DEF InstallRuns, buildVars, userVars
  <2>2. PICK k \in proc[a].left : /\ venv' = [venv EXCEPT !.has = @ \cup {k}]
                                  /\ proc' = [proc EXCEPT ![a].left = @ \ {k}]
    BY <1>5 DEF InstallRuns
  <2> DEFINE r == [proc[a] EXCEPT !.left = proc[a].left \ {k}]
  <2>3. proc' = [proc EXCEPT ![a] = r]
    BY <2>2
  <2>4. proc'[a] = r
    BY <1>1, <2>3
  <2>5. r \in Procs /\ r.cmd = proc[a].cmd /\ r.boxed = proc[a].boxed /\ r.left = proc[a].left \ {k}
    BY <1>1 DEF Procs
  <2>6. /\ k \in Packages /\ venv' \in [made : BOOLEAN, has : SUBSET Packages]
        /\ venv'.made = venv.made /\ venv'.has = venv.has \cup {k}
    BY <1>1, <2>2 DEF Procs
  <2> HIDE DEF r
  <2>7. Worked(proc[a], proc'[a])
    BY <2>1, <2>4, <2>5, <2>6 DEF Worked
  <2> QED BY <1>1, <2>1, <2>3, <2>4, <2>5, <2>6, <2>7
<1>6. CASE InstallEnds(a)
  <2>1. proc[a].cmd = "install" /\ proc[a].left = {} /\ venv' = venv /\ Continues(a, "verify")
        /\ UNCHANGED <<attempt, pc, mode, late, copied, src, reqs, ended, status, source, edits>>
    BY <1>6 DEF InstallEnds, buildVars, dirVars, userVars
  <2>2. Worked(proc[a], proc'[a])
    BY <1>1, <2>1, ContinuesIs DEF Worked, Procs
  <2> QED BY <1>1, <2>1, <2>2, ContinuesIs
<1>7. CASE CheckRuns(a)
  <2>1. proc[a].cmd \in {"compile", "verify"} /\ venv' = venv /\ Exits(a, "zero")
        /\ UNCHANGED <<attempt, pc, mode, late, copied, src, reqs, ended, status, source, edits>>
    BY <1>7 DEF CheckRuns, buildVars, dirVars, userVars
  <2>2. Worked(proc[a], proc'[a])
    BY <2>1, ExitsIs DEF Worked
  <2> QED BY <1>1, <2>1, <2>2, ExitsIs
<1>8. CASE CommandFails(a)
  <2>1. proc[a].cmd \in Commands /\ venv' = venv /\ Exits(a, "fail")
        /\ UNCHANGED <<attempt, pc, mode, late, copied, src, reqs, ended, status, source, edits>>
    BY <1>8 DEF CommandFails, buildVars, dirVars, userVars
  <2>2. Worked(proc[a], proc'[a])
    BY <2>1, ExitsIs DEF Worked
  <2> QED BY <1>1, <2>1, <2>2, ExitsIs
<1> QED BY <1>4, <1>5, <1>6, <1>7, <1>8 DEF CommandSteps

(* Those of an attempt that may not trespass are the latest one's, and     *)
(* find the venv as they expect it.                                        *)
LEMMA CommandStepsKeep ==
  ASSUME BuildInv, NEW a \in Attempts, CommandSteps(a)
  PROVE  BuildInv'
<1> DEFINE p == proc[a]
           q == proc'[a]
<1>1. /\ p \in Procs /\ q \in Procs /\ p.cmd \in Commands /\ q.boxed = p.boxed
      /\ proc' = [proc EXCEPT ![a] = q]
      /\ venv' \in [made : BOOLEAN, has : SUBSET Packages] /\ (venv'.has # {} => venv'.made)
      /\ UNCHANGED <<attempt, pc, mode, late, copied, src, reqs, ended, status, source, edits>>
      /\ venv \in [made : BOOLEAN, has : SUBSET Packages]
  BY CommandIs DEF BuildInv, TypeOK
<1>2. Worked(p, q)
  BY CommandIs
<1>3. \A b \in Attempts \ {a} : proc'[b] = proc[b]
  BY <1>1, Types
<1> HIDE DEF q
<1>4. TypeOK'
  <2>1. proc' \in [Attempts -> Procs]
    BY <1>1, Types
  <2> QED BY <1>1, <2>1 DEF BuildInv, TypeOK, Procs
<1>5. a <= attempt /\ ended[a] # "Ok" /\ (ended[a] # "no" => MayTrespass(a))
  BY <1>1, Types DEF BuildInv, Ends, NoProc
<1>6. Ends'
  <2>1. ASSUME NEW b \in Attempts
        PROVE  /\ b > attempt => ended[b] = "no" /\ proc'[b] = NoProc
               /\ b < attempt => ended[b] # "no"
               /\ ended[b] # "no" => MayTrespass(b)' \/ proc'[b].cmd \notin Commands
               /\ ended[b] = "Ok" => proc'[b].cmd \notin Commands
    <3>1. CASE b = a
      BY <1>1, <1>5, <3>1, Types DEF BuildInv, Ends, MayTrespass, q
    <3>2. CASE b # a
      BY <1>1, <1>3, <3>2, Types DEF BuildInv, Ends, MayTrespass
    <3> QED BY <3>1, <3>2
  <2> QED BY <1>1, <2>1 DEF BuildInv, Ends
<1>7. Stage'
  <2>1. CASE a # attempt
    BY <1>1, <1>3, <2>1, Types DEF BuildInv, Ends, Stage
  <2>2. CASE a = attempt
    <3>1. pc \notin Starting
      BY <1>1, <2>2 DEF BuildInv, Stage, NoProc
    <3>2. ASSUME pc \in Commands, mode = "host"
          PROVE  ~q.boxed /\ q.cmd \in {"none", pc, "zero", "fail"}
      <4>1. ~p.boxed /\ p.cmd = pc
        BY <1>1, <2>2, <3>2 DEF BuildInv, Stage
      <4> QED BY <1>1, <1>2, <4>1 DEF Worked
    <3>3. ASSUME pc \in Commands, mode = "container"
          PROVE  pc = "venv" /\ q.cmd # "compile" /\ q.boxed
      <4>1. pc = "venv" /\ p.boxed
        BY <1>1, <2>2, <3>3 DEF BuildInv, Stage
      <4> QED BY <1>1, <1>2, <4>1 DEF Worked
    <3> QED BY <1>1, <2>2, <3>1, <3>2, <3>3 DEF Stage, q
  <2> QED BY <2>1, <2>2
<1>8. Files'
  BY <1>1 DEF BuildInv, Files, Own
<1>9. Installed'
  <2>1. Quiet' <=> Quiet
    BY <1>1, <1>3, <1>5, Types DEF Quiet, MayTrespass, q
  <2> DEFINE Found ==
        /\ pc \in Commands /\ q.cmd = "install" => venv'.made /\ venv'.has \cup q.left = reqs
        /\ mode = "host" /\ pc = "venv" /\ q.cmd = "zero" => venv' = Cleared
        /\ ~(mode = "host" /\ pc = "install" /\ q.cmd = "none")
        /\ \/ pc \in {"compile", "verify"}
           \/ mode = "host" /\ pc = "install" /\ q.cmd = "zero"
           \/ mode = "container" /\ pc = "venv" /\ q.cmd \in {"verify", "zero"}
           => venv' = [made |-> TRUE, has |-> reqs]
  <2>2. ASSUME Quiet PROVE a = attempt
    <3>1. a < attempt => MayTrespass(a) /\ a \in 1..(attempt - 1)
      BY <1>5, Types DEF BuildInv, Ends
    <3> QED BY <1>5, <2>2, <3>1, Types DEF Quiet
  <2>3. CASE pc \notin Commands
    BY <1>1, <1>5, <2>1, <2>2, <2>3 DEF Installed, VenvReady, PackagesReady
  <2>4. ASSUME Quiet, pc \in Commands PROVE Found
    <3>1. a = attempt
      BY <2>2, <2>4
    <3>2. /\ p.cmd = "install" => venv.made /\ venv.has \cup p.left = reqs
          /\ PackagesReady => Complete
      BY <2>4, <3>1 DEF BuildInv, Installed
    <3>3. CASE mode = "host"
      <4>1. ~p.boxed /\ p.cmd = pc
        BY <1>1, <2>4, <3>1, <3>3 DEF BuildInv, Stage
      <4>2. CASE pc \in {"compile", "verify"}
        <5>1. Complete /\ venv' = venv
          BY <1>2, <3>2, <4>1, <4>2 DEF PackagesReady, Worked
        <5>2. q.cmd # "install"
          BY <1>2, <4>1, <4>2 DEF Worked
        <5> QED BY <4>2, <5>1, <5>2 DEF Complete
      <4>3. CASE pc = "venv"
        BY <1>2, <3>3, <4>1, <4>3 DEF Worked
      <4>4. CASE pc = "install"
        <5>1. p.left = {} => Complete
          BY <1>1, <3>2, <4>1, <4>4 DEF Complete
        <5> QED BY <1>2, <3>2, <3>3, <4>1, <4>4, <5>1 DEF Worked, Complete
      <4> QED BY <2>4, <4>2, <4>3, <4>4
    <3>4. CASE mode = "container"
      <4>1. pc = "venv" /\ p.boxed /\ p.cmd # "compile"
        BY <1>1, <2>4, <3>1, <3>4 DEF BuildInv, Stage
      <4>2. CASE p.cmd = "verify"
        <5>1. Complete
          BY <3>1, <3>2, <3>4, <4>1, <4>2 DEF PackagesReady
        <5> QED BY <1>2, <3>4, <4>1, <4>2, <5>1 DEF Worked, Complete
      <4>3. CASE p.cmd = "venv"
        BY <1>2, <3>4, <4>1, <4>3 DEF Worked, Cleared
      <4>4. CASE p.cmd = "install"
        <5>1. p.left = {} => Complete
          BY <1>1, <3>2, <4>4 DEF Complete
        <5> QED BY <1>2, <3>2, <3>4, <4>1, <4>4, <5>1 DEF Worked, Complete
      <4> QED BY <1>1, <4>1, <4>2, <4>3, <4>4
    <3> QED BY <3>3, <3>4, Types
  <2>5. CASE pc \in Commands /\ Quiet
    <3>1. a = attempt /\ ended[attempt] = "no"
      BY <2>2, <2>5 DEF BuildInv, Ends
    <3>2. Found
      BY <2>4, <2>5
    <3> QED BY <1>1, <3>1, <3>2 DEF Installed, VenvReady, PackagesReady, Complete, q
  <2> QED BY <2>1, <2>3, <2>5 DEF Installed
<1> QED BY <1>4, <1>6, <1>7, <1>8, <1>9 DEF BuildInv

LEMMA BuildInvariant == Spec => []BuildInv
<1>1. BuildInv /\ [Next]_vars => BuildInv'
  <2> SUFFICES ASSUME BuildInv, [Next]_vars PROVE BuildInv'
    OBVIOUS
  <2>1. CASE UNCHANGED vars
    <3>1. TypeOK'
      BY <2>1 DEF vars, BuildInv, TypeOK
    <3>2. Ends' /\ Stage'
      BY <2>1 DEF vars, BuildInv, Ends, Stage, MayTrespass
    <3>3. Files' /\ Installed'
      BY <2>1 DEF vars, BuildInv, Files, Own, Installed, Quiet, MayTrespass, VenvReady, PackagesReady, Complete
    <3> QED BY <3>1, <3>2, <3>3 DEF BuildInv
  <2>2. BuildStep => BuildInv'
    BY CreateKeeps, SnapshotEntryKeeps, SnapshotEndsKeeps, ResolveKeeps, LaunchKeeps, CommandEndedKeeps,
       ContainerEndedKeeps, TimesOutKeeps, FinishKeeps DEF BuildStep
  <2> QED BY <2>1, <2>2, BeginKeeps, DeadlineKeeps, CutKeeps, CommandStepsKeep DEF Next
<1> QED BY <1>1, InitBuild, PTL DEF Spec

(* The type invariant of PythonBuild: packages are installed only in a     *)
(* venv that was made, through every retry, timeout and restart.           *)
THEOREM TypesHold == Spec => []TypeOK
<1>1. BuildInv => TypeOK
  BY DEF BuildInv
<1> QED BY <1>1, BuildInvariant, PTL

(* PythonBuilder::build clears the venv and copies over what an earlier    *)
(* attempt left: a revision that becomes ready has the packages of its own *)
(* requirements, unless an installer was left behind, and the files of its *)
(* own source, but for those removed since and those behind a link.        *)
THEOREM OwnRevision == Spec => []ReadyIsOwn
<1>1. BuildInv => ReadyIsOwn
  <2> SUFFICES ASSUME BuildInv, pc = "ready"
               PROVE  /\ Complete \/ ~Quiet
                      /\ \A n \in Names : Own(n)
    BY DEF ReadyIsOwn, Complete, Quiet, Own
  <2>1. attempt > 0 /\ ended[attempt] = "Ok"
    BY DEF BuildInv, Ends
  <2> QED BY <2>1 DEF BuildInv, Installed, PackagesReady, Files
<1> QED BY <1>1, BuildInvariant, PTL
=============================================================================
