-------------------------- MODULE MigrationCommand --------------------------
(***************************************************************************)
(* airflow-migration-diff (migration/): an invocation makes a run          *)
(* directory, provisions an Airflow 2 and an Airflow 3 environment in it,  *)
(* records the suite on each, compares the two artifacts and reports with  *)
(* its exit status: 0 without regressions, 1 with, 2 if it failed itself;  *)
(* an exception nobody catches leaves with 1 as well.                      *)
(* Invocations may share --work-dir, and --baseline-artifact and           *)
(* --live-artifact if these are given.                                     *)
(*                                                                         *)
(* uv, the download and what a recording pytest does are external: each    *)
(* succeeds or fails in every way the code tells apart.                    *)
(***************************************************************************)
EXTENDS Outcomes

CONSTANTS
  Suite,
  Invocations,
  Unwritten     \* no artifact at a path

VARIABLES
  at,           \* the step an invocation is at
  options,      \* its command line
  side,         \* the environment it provisions or records
  scratch,      \* what became of an invocation's run directory
  files,        \* the artifact at a path
  recorded,     \* history: what each session of an invocation recorded
  printed,      \* the verdict of the report on stdout; "broken" if a write raised
  status        \* the exit status to come, and at the end the one there is

commandVars == <<at, options, side, scratch, files, recorded, printed, status>>

Sides == {"baseline", "live"}
Options == [given : BOOLEAN, keep : BOOLEAN, allow : {{}, Sides}]

\* A test without an entry, or with a gated one, is in no bucket that matters here.
Entries == {"passed", "failed", "none"}
Artifacts == [state : {"complete", "incomplete", "truncated"}, outcomes : [Suite -> Entries]]

CommandAssumption == "given" \notin Invocations

\* The steps of execute, and the write of the report behind it.
Steps == {"provision", "record", "compare", "report"}

Verdicts == {"0", "1"}

\* "remains" is whatever rmtree left when it failed or was interrupted.
ScratchStates == {"none", "whole", "removed", "remains"}

Paths == (Invocations \cup {"given"}) \X Sides

CommandTypeOK ==
  /\ at \in [Invocations -> Steps \cup {"start", "unresolved", "cleanup", "done"}]
  /\ options \in [Invocations -> Options] /\ side \in [Invocations -> Sides]
  /\ scratch \in [Invocations -> ScratchStates]
  /\ files \in [Paths -> Artifacts \cup {Unwritten}]
  /\ recorded \in [Invocations -> [Sides -> Artifacts \cup {Unwritten}]]
  /\ printed \in [Invocations -> Verdicts \cup {"none", "broken"}]
  /\ status \in [Invocations -> Verdicts \cup {"none", "2", "interrupted", "killed"}]

-----------------------------------------------------------------------------
CommandInit ==
  /\ at = [i \in Invocations |-> "start"]
  /\ options \in [Invocations -> Options]
  /\ side = [i \in Invocations |-> "baseline"]
  /\ scratch = [i \in Invocations |-> "none"]
  /\ files = [p \in Paths |-> Unwritten]
  /\ recorded = [i \in Invocations |-> [s \in Sides |-> Unwritten]]
  /\ printed = [i \in Invocations |-> "none"]
  /\ status = [i \in Invocations |-> "none"]

\* Mutant: the default artifacts are in the base directory instead of the run's own.
PathInBase(i, s) == <<"given", s>>

PathOf(i, s) == IF options[i].given THEN <<"given", s>> ELSE <<i, s>>

\* The try statement of main is left; its finally clause comes next.  History is
\* kept of what was reported only.
Leave(i, code, output) ==
  /\ at' = [at EXCEPT ![i] = "cleanup"]
  /\ status' = [status EXCEPT ![i] = code]
  /\ printed' = [printed EXCEPT ![i] = output]
  /\ recorded' = IF output \in Verdicts THEN recorded
                 ELSE [recorded EXCEPT ![i] = [s \in Sides |-> Unwritten]]
  /\ UNCHANGED <<options, side, scratch, files>>

\* An exception, foreseen or not, is caught and reported on stderr; one that this
\* write raises is not.
Fail(i) == Leave(i, "2", "none") \/ Leave(i, "1", "broken")

\* resolve_config raises, or is interrupted: without uv, without a run directory, or
\* after it made one.
Unresolved(i) ==
  /\ at[i] = "start"
  /\ at' = [at EXCEPT ![i] = "unresolved"]
  /\ \E made \in {"none", "whole"} : scratch' = [scratch EXCEPT ![i] = made]
  /\ \/ status' = [status EXCEPT ![i] = "1"] /\ printed' = [printed EXCEPT ![i] = "broken"]
     \/ /\ \E code \in {"2", "interrupted"} : status' = [status EXCEPT ![i] = code]
        /\ UNCHANGED printed
  /\ UNCHANGED <<options, side, files, recorded>>

Resolve(i) ==
  /\ at[i] = "start"
  /\ at' = [at EXCEPT ![i] = "provision"]
  /\ scratch' = [scratch EXCEPT ![i] = "whole"]
  /\ UNCHANGED <<options, side, files, recorded, printed, status>>

\* provision_environment; what its steps leave is in the run directory.  Both
\* environments are provisioned before either records.
Provision(i) ==
  /\ at[i] = "provision"
  /\ at' = [at EXCEPT ![i] = IF side[i] = "baseline" THEN "provision" ELSE "record"]
  /\ side' = [side EXCEPT ![i] = IF side[i] = "baseline" THEN "live" ELSE "baseline"]
  /\ UNCHANGED <<options, scratch, files, recorded, printed, status>>

\* A step of it raises: uv cannot be run or fails, the constraints cannot be fetched
\* or written, the default --plugin-spec does not resolve.
ProvisionFails(i) == at[i] = "provision" /\ Fail(i)

AfterRecord(i) ==
  /\ at' = [at EXCEPT ![i] = IF side[i] = "baseline" THEN "record" ELSE "compare"]
  /\ side' = [side EXCEPT ![i] = "live"]
  /\ UNCHANGED <<options, scratch, printed, status>>

\* run_record with a session that writes its artifact, if perhaps not to the end.
Record(i) ==
  /\ at[i] = "record"
  /\ \E artifact \in Artifacts :
       /\ artifact.state = "truncated" => \A t \in Suite : artifact.outcomes[t] = "none"
       /\ files' = [files EXCEPT ![PathOf(i, side[i])] = artifact]
       /\ recorded' = [recorded EXCEPT ![i][side[i]] = artifact]
  /\ AfterRecord(i)

\* run_record with a session that dies before pytest_sessionfinish, or that cannot
\* be run at all.  Only the file at the path is looked at.
RecordNothing(i) ==
  /\ at[i] = "record"
  /\ IF files[PathOf(i, side[i])] = Unwritten
       THEN Fail(i)
       ELSE AfterRecord(i) /\ UNCHANGED <<files, recorded>>

RecordCannotRun(i) == at[i] = "record" /\ Fail(i)

\* load_artifact and _check_complete.
Admissible(i, s) ==
  /\ files[PathOf(i, s)] # Unwritten
  /\ files[PathOf(i, s)].state \in {"complete"} \cup (IF s \in options[i].allow THEN {"incomplete"} ELSE {})

\* compute_categories.
Regressions(baseline, live) ==
  {t \in Suite : /\ {baseline.outcomes[t], live.outcomes[t]} \subseteq {"passed", "failed"}
                 /\ Category(baseline.outcomes[t], live.outcomes[t]) = "regression"}

\* compute_diff and render_diff: the verdict is known and nothing written yet.
Compare(i) ==
  /\ at[i] = "compare"
  /\ \A s \in Sides : Admissible(i, s)
  /\ at' = [at EXCEPT ![i] = "report"]
  /\ status' = [status EXCEPT ![i] =
       IF Regressions(files[PathOf(i, "baseline")], files[PathOf(i, "live")]) # {}
       THEN "1" ELSE "0"]
  /\ UNCHANGED <<options, side, scratch, files, recorded, printed>>

\* An artifact that is missing, truncated or incomplete, or anything unforeseen.
CompareFails(i) == at[i] = "compare" /\ Fail(i)

\* The else clause of main.
WriteReport(i) == at[i] = "report" /\ Leave(i, status[i], status[i])

\* A pipe that closed, or an encoding that lacks a character of the report: no except
\* clause is left to catch it, and Python exits with 1.
WriteRaises(i) == at[i] = "report" /\ Leave(i, "1", "broken")

\* A KeyboardInterrupt passes both except clauses, not the finally clause.
Interrupt(i) == at[i] \in Steps /\ Leave(i, "interrupted", "none")

\* Nobody reads an artifact of a run directory that rmtree went through.
EndCleanup(i, code) ==
  /\ at[i] = "cleanup"
  /\ at' = [at EXCEPT ![i] = "done"]
  /\ status' = [status EXCEPT ![i] = code]
  /\ IF options[i].keep
       THEN UNCHANGED <<scratch, files>>
       ELSE /\ \E left \in {"removed", "remains"} : scratch' = [scratch EXCEPT ![i] = left]
            /\ files' = [p \in Paths |-> IF p[1] = i THEN Unwritten ELSE files[p]]
  /\ UNCHANGED <<options, side, recorded, printed>>

\* The finally clause of main; rmtree ignores its errors.
Cleanup(i) == EndCleanup(i, status[i])

\* An interrupt replaces the exception or status under way.
InterruptCleanup(i) == EndCleanup(i, "interrupted")

Kill(i) ==
  /\ at[i] \in Steps \cup {"cleanup"}
  /\ at' = [at EXCEPT ![i] = "done"]
  /\ status' = [status EXCEPT ![i] = "killed"]
  /\ recorded' = IF printed[i] \in Verdicts THEN recorded
                 ELSE [recorded EXCEPT ![i] = [s \in Sides |-> Unwritten]]
  /\ UNCHANGED <<options, side, scratch, files, printed>>

CommandNext == \E i \in Invocations :
  \/ Unresolved(i) \/ Resolve(i)
  \/ Provision(i) \/ ProvisionFails(i)
  \/ Record(i) \/ RecordNothing(i) \/ RecordCannotRun(i)
  \/ Compare(i) \/ CompareFails(i)
  \/ WriteReport(i) \/ WriteRaises(i)
  \/ Interrupt(i) \/ Cleanup(i) \/ InterruptCleanup(i) \/ Kill(i)

CommandSpec == CommandInit /\ [][CommandNext]_commandVars

-----------------------------------------------------------------------------
(* Properties *)

\* The report of an invocation with artifacts of its own is about what its own two
\* sessions recorded, none of them truncated or incomplete against its options,
\* whatever earlier or concurrent invocations leave behind (execute, main).
VerdictIsOwn ==
  \A i \in Invocations : printed[i] \in Verdicts /\ ~options[i].given =>
    /\ \A s \in Sides :
         /\ recorded[i][s] # Unwritten
         /\ recorded[i][s].state # "truncated"
         /\ recorded[i][s].state = "incomplete" => s \in options[i].allow
    /\ printed[i] = "1" <=> Regressions(recorded[i]["baseline"], recorded[i]["live"]) # {}

\* An exit status of 0 or 1 is that of the report on stdout, unless a write raised and
\* left with 1; and the status of an invocation that reported is that of its report,
\* short of an interrupt or a kill in its finally clause (main).
StatusIsReported ==
  \A i \in Invocations : at[i] \in {"unresolved", "done"} =>
    /\ status[i] \in Verdicts =>
         printed[i] = status[i] \/ (printed[i] = "broken" /\ status[i] = "1")
    /\ printed[i] \in Verdicts => status[i] \in {printed[i], "interrupted", "killed"}

\* An invocation that got its configuration and is not killed leaves its run directory
\* as it is if --keep-work-dir asks for it, and otherwise what rmtree left of it,
\* however it ends (main).
ScratchRemoved ==
  \A i \in Invocations : at[i] = "done" /\ status[i] # "killed" =>
    scratch[i] \in IF options[i].keep THEN {"whole"} ELSE {"removed", "remains"}

\* The report, the exit status and the run directory together, of every invocation
\* (main).
CommandSound == CommandTypeOK /\ VerdictIsOwn /\ StatusIsReported /\ ScratchRemoved

\* "Exit code 0 means no regressions, 1 means regressions were found, and 2 means the
\* orchestrator itself failed": an invocation that found no regressions does not end
\* with status 1 (module docstring of cli.py).
CleanIsNoRegression ==
  [][\A i \in Invocations : status[i] = "0" => status'[i] # "1"]_commandVars
=============================================================================
