-------------------------- MODULE Migration_proofs --------------------------
(***************************************************************************)
(* Proofs about the two ways to compare a suite on two Airflows: by hand   *)
(* (MigrationLoop) and with airflow-migration-diff (MigrationCommand).     *)
(***************************************************************************)
EXTENDS MigrationLoop, MigrationCommand, TLAPS

-----------------------------------------------------------------------------
(***************************************************************************)
(* MigrationLoop                                                           *)
(*                                                                         *)
(* What a run by hand says of a test is about what the test did, for every *)
(* suite and however runs, repairs and recordings follow each other.       *)
(***************************************************************************)

\* What is recorded of a test, by what it does and whether it is marked.
Recorded(does, marked) ==
  CASE does = "pass" -> IF marked THEN "xpassed" ELSE "passed"
    [] does = "fail" -> IF marked THEN "xfailed" ELSE "failed"
    [] does = "setup error" -> IF marked THEN "skipped" ELSE "setup error"
    [] does = "teardown error" -> IF marked THEN "xpassed" ELSE "teardown error"
    [] does = "skip" -> "skipped"

LEMMA RecordedUnmarked ==
  ASSUME NEW does \in Behaviours PROVE OutcomeOf(does, FALSE) = Recorded(does, FALSE)
<1>1. CASE does = "pass"
  <2>1. PhaseReport("setup", does, FALSE) = Report("setup", "passed", FALSE)
    BY <1>1 DEF PhaseReport
  <2>2. PhaseReport("call", does, FALSE) = Report("call", "passed", FALSE)
    BY <1>1 DEF PhaseReport
  <2>3. PhaseReport("teardown", does, FALSE) = Report("teardown", "passed", FALSE)
    BY <1>1 DEF PhaseReport
  <2>. DEFINE node == Accumulate(Accumulate(Accumulate(NoAccumulator, Report("setup", "passed", FALSE)), Report("call", "passed", FALSE)), Report("teardown", "passed", FALSE))
  <2>4. OutcomeOf(does, FALSE) = Finalize(node) BY <1>1, <2>1, <2>2, <2>3 DEF OutcomeOf
  <2>5. /\ ~node.crashed /\ node.call = "passed"
        /\ node.xfail <=> FALSE
        /\ node.teardownFailed <=> ("passed" = "failed")
        /\ node.setupFailed <=> ("passed" = "failed")
    BY DEF Accumulate, Report, NoAccumulator
  <2>. HIDE DEF node
  <2>6. Finalize(node) = Recorded(does, FALSE) BY <1>1, <2>5 DEF Finalize, Recorded
  <2>. QED BY <2>4, <2>6
<1>2. CASE does = "fail"
  <2>1. PhaseReport("setup", does, FALSE) = Report("setup", "passed", FALSE)
    BY <1>2 DEF PhaseReport
  <2>2. PhaseReport("call", does, FALSE) = Report("call", "failed", FALSE)
    BY <1>2 DEF PhaseReport, Failing
  <2>3. PhaseReport("teardown", does, FALSE) = Report("teardown", "passed", FALSE)
    BY <1>2 DEF PhaseReport
  <2>. DEFINE node == Accumulate(Accumulate(Accumulate(NoAccumulator, Report("setup", "passed", FALSE)), Report("call", "failed", FALSE)), Report("teardown", "passed", FALSE))
  <2>4. OutcomeOf(does, FALSE) = Finalize(node) BY <1>2, <2>1, <2>2, <2>3 DEF OutcomeOf
  <2>5. /\ ~node.crashed /\ node.call = "failed"
        /\ node.xfail <=> FALSE
        /\ node.teardownFailed <=> ("passed" = "failed")
        /\ node.setupFailed <=> ("passed" = "failed")
    BY DEF Accumulate, Report, NoAccumulator
  <2>. HIDE DEF node
  <2>6. Finalize(node) = Recorded(does, FALSE) BY <1>2, <2>5 DEF Finalize, Recorded
  <2>. QED BY <2>4, <2>6
<1>3. CASE does = "setup error"
  <2>1. PhaseReport("setup", does, FALSE) = Report("setup", "failed", FALSE)
    BY <1>3 DEF PhaseReport, Failing
  <2>2. PhaseReport("teardown", does, FALSE) = Report("teardown", "passed", FALSE)
    BY <1>3 DEF PhaseReport
  <2>. DEFINE node == Accumulate(Accumulate(NoAccumulator, Report("setup", "failed", FALSE)), Report("teardown", "passed", FALSE))
  <2>3. OutcomeOf(does, FALSE) = Finalize(node) BY <1>3, <2>1, <2>2 DEF OutcomeOf
  <2>4. /\ ~node.crashed /\ node.call = "none"
        /\ node.teardownFailed <=> ("passed" = "failed")
        /\ node.setupFailed <=> ("failed" = "failed")
    BY DEF Accumulate, Report, NoAccumulator
  <2>. HIDE DEF node
  <2>5. Finalize(node) = Recorded(does, FALSE) BY <1>3, <2>4 DEF Finalize, Recorded
  <2>. QED BY <2>3, <2>5
<1>4. CASE does = "teardown error"
  <2>1. PhaseReport("setup", does, FALSE) = Report("setup", "passed", FALSE)
    BY <1>4 DEF PhaseReport
  <2>2. PhaseReport("call", does, FALSE) = Report("call", "passed", FALSE)
    BY <1>4 DEF PhaseReport
  <2>3. PhaseReport("teardown", does, FALSE) = Report("teardown", "failed", FALSE)
    BY <1>4 DEF PhaseReport, Failing
  <2>. DEFINE node == Accumulate(Accumulate(Accumulate(NoAccumulator, Report("setup", "passed", FALSE)), Report("call", "passed", FALSE)), Report("teardown", "failed", FALSE))
  <2>4. OutcomeOf(does, FALSE) = Finalize(node) BY <1>4, <2>1, <2>2, <2>3 DEF OutcomeOf
  <2>5. /\ ~node.crashed /\ node.call = "passed"
        /\ node.xfail <=> FALSE
        /\ node.teardownFailed <=> ("failed" = "failed")
        /\ node.setupFailed <=> ("passed" = "failed")
    BY DEF Accumulate, Report, NoAccumulator
  <2>. HIDE DEF node
  <2>6. Finalize(node) = Recorded(does, FALSE) BY <1>4, <2>5 DEF Finalize, Recorded
  <2>. QED BY <2>4, <2>6
<1>5. CASE does = "skip"
  <2>1. PhaseReport("setup", does, FALSE) = Report("setup", "skipped", FALSE)
    BY <1>5 DEF PhaseReport
  <2>2. PhaseReport("teardown", does, FALSE) = Report("teardown", "passed", FALSE)
    BY <1>5 DEF PhaseReport
  <2>. DEFINE node == Accumulate(Accumulate(NoAccumulator, Report("setup", "skipped", FALSE)), Report("teardown", "passed", FALSE))
  <2>3. OutcomeOf(does, FALSE) = Finalize(node) BY <1>5, <2>1, <2>2 DEF OutcomeOf
  <2>4. /\ ~node.crashed /\ node.call = "none"
        /\ node.teardownFailed <=> ("passed" = "failed")
        /\ node.setupFailed <=> ("skipped" = "failed")
    BY DEF Accumulate, Report, NoAccumulator
  <2>. HIDE DEF node
  <2>5. Finalize(node) = Recorded(does, FALSE) BY <1>5, <2>4 DEF Finalize, Recorded
  <2>. QED BY <2>3, <2>5
<1>. QED BY <1>1, <1>2, <1>3, <1>4, <1>5 DEF Behaviours

LEMMA RecordedMarked ==
  ASSUME NEW does \in Behaviours PROVE OutcomeOf(does, TRUE) = Recorded(does, TRUE)
<1>1. CASE does = "pass"
  <2>1. PhaseReport("setup", does, TRUE) = Report("setup", "passed", FALSE)
    BY <1>1 DEF PhaseReport
  <2>2. PhaseReport("call", does, TRUE) = Report("call", "passed", TRUE)
    BY <1>1 DEF PhaseReport
  <2>3. PhaseReport("teardown", does, TRUE) = Report("teardown", "passed", FALSE)
    BY <1>1 DEF PhaseReport
  <2>. DEFINE node == Accumulate(Accumulate(Accumulate(NoAccumulator, Report("setup", "passed", FALSE)), Report("call", "passed", TRUE)), Report("teardown", "passed", FALSE))
  <2>4. OutcomeOf(does, TRUE) = Finalize(node) BY <1>1, <2>1, <2>2, <2>3 DEF OutcomeOf
  <2>5. /\ ~node.crashed /\ node.call = "passed"
        /\ node.xfail <=> TRUE
        /\ node.teardownFailed <=> ("passed" = "failed")
        /\ node.setupFailed <=> ("passed" = "failed")
    BY DEF Accumulate, Report, NoAccumulator
  <2>. HIDE DEF node
  <2>6. Finalize(node) = Recorded(does, TRUE) BY <1>1, <2>5 DEF Finalize, Recorded
  <2>. QED BY <2>4, <2>6
<1>2. CASE does = "fail"
  <2>1. PhaseReport("setup", does, TRUE) = Report("setup", "passed", FALSE)
    BY <1>2 DEF PhaseReport
  <2>2. PhaseReport("call", does, TRUE) = Report("call", "skipped", TRUE)
    BY <1>2 DEF PhaseReport, Failing
  <2>3. PhaseReport("teardown", does, TRUE) = Report("teardown", "passed", FALSE)
    BY <1>2 DEF PhaseReport
  <2>. DEFINE node == Accumulate(Accumulate(Accumulate(NoAccumulator, Report("setup", "passed", FALSE)), Report("call", "skipped", TRUE)), Report("teardown", "passed", FALSE))
  <2>4. OutcomeOf(does, TRUE) = Finalize(node) BY <1>2, <2>1, <2>2, <2>3 DEF OutcomeOf
  <2>5. /\ ~node.crashed /\ node.call = "skipped"
        /\ node.xfail <=> TRUE
        /\ node.teardownFailed <=> ("passed" = "failed")
        /\ node.setupFailed <=> ("passed" = "failed")
    BY DEF Accumulate, Report, NoAccumulator
  <2>. HIDE DEF node
  <2>6. Finalize(node) = Recorded(does, TRUE) BY <1>2, <2>5 DEF Finalize, Recorded
  <2>. QED BY <2>4, <2>6
<1>3. CASE does = "setup error"
  <2>1. PhaseReport("setup", does, TRUE) = Report("setup", "skipped", TRUE)
    BY <1>3 DEF PhaseReport, Failing
  <2>2. PhaseReport("teardown", does, TRUE) = Report("teardown", "passed", FALSE)
    BY <1>3 DEF PhaseReport
  <2>. DEFINE node == Accumulate(Accumulate(NoAccumulator, Report("setup", "skipped", TRUE)), Report("teardown", "passed", FALSE))
  <2>3. OutcomeOf(does, TRUE) = Finalize(node) BY <1>3, <2>1, <2>2 DEF OutcomeOf
  <2>4. /\ ~node.crashed /\ node.call = "none"
        /\ node.teardownFailed <=> ("passed" = "failed")
        /\ node.setupFailed <=> ("skipped" = "failed")
    BY DEF Accumulate, Report, NoAccumulator
  <2>. HIDE DEF node
  <2>5. Finalize(node) = Recorded(does, TRUE) BY <1>3, <2>4 DEF Finalize, Recorded
  <2>. QED BY <2>3, <2>5
<1>4. CASE does = "teardown error"
  <2>1. PhaseReport("setup", does, TRUE) = Report("setup", "passed", FALSE)
    BY <1>4 DEF PhaseReport
  <2>2. PhaseReport("call", does, TRUE) = Report("call", "passed", TRUE)
    BY <1>4 DEF PhaseReport
  <2>3. PhaseReport("teardown", does, TRUE) = Report("teardown", "skipped", TRUE)
    BY <1>4 DEF PhaseReport, Failing
  <2>. DEFINE node == Accumulate(Accumulate(Accumulate(NoAccumulator, Report("setup", "passed", FALSE)), Report("call", "passed", TRUE)), Report("teardown", "skipped", TRUE))
  <2>4. OutcomeOf(does, TRUE) = Finalize(node) BY <1>4, <2>1, <2>2, <2>3 DEF OutcomeOf
  <2>5. /\ ~node.crashed /\ node.call = "passed"
        /\ node.xfail <=> TRUE
        /\ node.teardownFailed <=> ("skipped" = "failed")
        /\ node.setupFailed <=> ("passed" = "failed")
    BY DEF Accumulate, Report, NoAccumulator
  <2>. HIDE DEF node
  <2>6. Finalize(node) = Recorded(does, TRUE) BY <1>4, <2>5 DEF Finalize, Recorded
  <2>. QED BY <2>4, <2>6
<1>5. CASE does = "skip"
  <2>1. PhaseReport("setup", does, TRUE) = Report("setup", "skipped", FALSE)
    BY <1>5 DEF PhaseReport
  <2>2. PhaseReport("teardown", does, TRUE) = Report("teardown", "passed", FALSE)
    BY <1>5 DEF PhaseReport
  <2>. DEFINE node == Accumulate(Accumulate(NoAccumulator, Report("setup", "skipped", FALSE)), Report("teardown", "passed", FALSE))
  <2>3. OutcomeOf(does, TRUE) = Finalize(node) BY <1>5, <2>1, <2>2 DEF OutcomeOf
  <2>4. /\ ~node.crashed /\ node.call = "none"
        /\ node.teardownFailed <=> ("passed" = "failed")
        /\ node.setupFailed <=> ("skipped" = "failed")
    BY DEF Accumulate, Report, NoAccumulator
  <2>. HIDE DEF node
  <2>5. Finalize(node) = Recorded(does, TRUE) BY <1>5, <2>4 DEF Finalize, Recorded
  <2>. QED BY <2>3, <2>5
<1>. QED BY <1>1, <1>2, <1>3, <1>4, <1>5 DEF Behaviours

LEMMA OutcomeRecorded ==
  ASSUME NEW does \in Behaviours, NEW marked \in BOOLEAN
  PROVE  OutcomeOf(does, marked) = Recorded(does, marked)
BY RecordedMarked, RecordedUnmarked

LEMMA OutcomeTyped ==
  ASSUME NEW does \in Behaviours, NEW marked \in BOOLEAN
  PROVE  OutcomeOf(does, marked) \in OutcomeValues
<1>1. Recorded(does, marked) \in OutcomeValues BY DEF Recorded, Behaviours, OutcomeValues
<1>. QED BY <1>1, OutcomeRecorded

-----------------------------------------------------------------------------
(* The inductive invariant *)

\* The baseline was recorded without marks of the comparison, the last run with those
\* of the known regressions.
BaselineInv ==
  \A t \in Tests : baseline[t] = "none" \/
    \E was \in Behaviours : baseline[t] = OutcomeOf(was, t \in OwnXfail)

LiveInv ==
  mode # "none" => \A t \in Tests :
    \/ ran[t] = "none" /\ live[t] = "none"
    \/ ran[t] \in Behaviours /\ live[t] = OutcomeOf(ran[t], t \in OwnXfail \cup known)

KnownInv ==
  /\ mode = "plain" => known = {}
  /\ mode = "xfail" => \A t \in known : baseline[t] # "none" /\ Project(baseline[t]) = "pass"

LoopInv == TypeOK /\ BaselineInv /\ LiveInv /\ KnownInv

LEMMA LoopInit == Init => LoopInv
<1>. SUFFICES ASSUME Init PROVE LoopInv OBVIOUS
<1>1. PICK was \in [Tests -> Behaviours \cup {"none"}] :
        baseline = [t \in Tests |->
          IF was[t] = "none" THEN "none" ELSE OutcomeOf(was[t], t \in OwnXfail)]
  BY DEF Init
<1>2. ASSUME NEW t \in Tests, was[t] # "none"
      PROVE  was[t] \in Behaviours /\ OutcomeOf(was[t], t \in OwnXfail) \in OutcomeValues
  <2>1. was[t] \in Behaviours BY <1>2
  <2>2. (t \in OwnXfail) \in BOOLEAN OBVIOUS
  <2>. QED BY <2>1, <2>2, OutcomeTyped
<1>3. baseline \in Recordings BY <1>1, <1>2 DEF Recordings
<1>4. TypeOK BY <1>3 DEF Init, TypeOK, Recordings, NoRecording
<1>5. BaselineInv BY <1>1, <1>2 DEF BaselineInv
<1>. QED BY <1>4, <1>5 DEF Init, LoopInv, LiveInv, KnownInv

LEMMA RunKeeps ==
  ASSUME LoopInv, NEW selector, NEW marked \in SUBSET Tests, Run(selector, marked),
         mode' \in {"plain", "xfail"}, mode' = "plain" => marked = {},
         mode' = "xfail" => marked \subseteq KnownRegressions
  PROVE  LoopInv'
<1>1. /\ live' = [t \in Tests |->
           IF Selected(t, selector) THEN OutcomeOf(behaviour[t], t \in OwnXfail \cup marked)
           ELSE "none"]
      /\ ran' = [t \in Tests |-> IF Selected(t, selector) THEN behaviour[t] ELSE "none"]
      /\ known' = marked
      /\ UNCHANGED <<baseline, behaviour, prior>>
  BY DEF Run
<1>2. TypeOK BY DEF LoopInv
<1>3. ASSUME NEW t \in Tests
      PROVE  /\ behaviour[t] \in Behaviours
             /\ OutcomeOf(behaviour[t], t \in OwnXfail \cup marked) \in OutcomeValues
  <2>1. behaviour[t] \in Behaviours BY <1>2 DEF TypeOK
  <2>2. (t \in OwnXfail \cup marked) \in BOOLEAN OBVIOUS
  <2>. QED BY <2>1, <2>2, OutcomeTyped
<1>4. ASSUME NEW t \in Tests
      PROVE  \/ ran'[t] = "none" /\ live'[t] = "none"
             \/ ran'[t] \in Behaviours /\ live'[t] = OutcomeOf(ran'[t], t \in OwnXfail \cup known')
  <2>1. CASE Selected(t, selector) BY <1>1, <1>3, <2>1
  <2>2. CASE ~Selected(t, selector) BY <1>1, <2>2
  <2>. QED BY <2>1, <2>2
<1>5. TypeOK'
  <2>1. live' \in Recordings BY <1>1, <1>3 DEF Recordings
  <2>2. ran' \in [Tests -> Behaviours \cup {"none"}] BY <1>1, <1>3
  <2>. QED BY <1>1, <1>2, <2>1, <2>2 DEF TypeOK
<1>6. BaselineInv' BY <1>1 DEF LoopInv, BaselineInv
<1>7. LiveInv' BY <1>4 DEF LiveInv
<1>8. KnownInv' BY <1>1 DEF KnownInv, KnownRegressions
<1>. QED BY <1>5, <1>6, <1>7, <1>8 DEF LoopInv

LEMMA LoopStep == LoopInv /\ [Next]_vars => LoopInv'
<1>. SUFFICES ASSUME LoopInv, [Next]_vars PROVE LoopInv' OBVIOUS
<1>1. ASSUME NEW selector \in Selectors, RunPlain(selector) PROVE LoopInv'
  BY <1>1, RunKeeps DEF RunPlain
<1>2. ASSUME NEW selector \in Selectors, RunXfail(selector) PROVE LoopInv'
  <2>1. PICK marked : marked = KnownRegressions OBVIOUS
  <2>2. marked \in SUBSET Tests BY <2>1 DEF KnownRegressions
  <2>3. Run(selector, marked) /\ mode' = "xfail" BY <1>2, <2>1 DEF RunXfail
  <2>. QED BY <2>1, <2>2, <2>3, RunKeeps
<1>3. CASE Refresh
  BY <1>3 DEF Refresh, LoopInv, TypeOK, BaselineInv, LiveInv, KnownInv
<1>4. ASSUME NEW t \in Tests, Change(t) PROVE LoopInv'
  <2>1. PICK does \in Behaviours : behaviour' = [behaviour EXCEPT ![t] = does]
    BY <1>4 DEF Change
  <2>2. UNCHANGED <<baseline, live, prior, known, ran, mode>> BY <1>4 DEF Change
  <2>3. TypeOK' BY <2>1, <2>2 DEF LoopInv, TypeOK
  <2>. QED BY <2>2, <2>3 DEF LoopInv, BaselineInv, LiveInv, KnownInv
<1>5. CASE UNCHANGED vars
  BY <1>5 DEF vars, LoopInv, TypeOK, BaselineInv, LiveInv, KnownInv
<1>. QED BY <1>1, <1>2, <1>3, <1>4, <1>5 DEF Next

\* What the invariant says of one test, by what it did.
LEMMA Compared ==
  ASSUME LoopInv, mode # "none", NEW t \in Tests
  PROVE  /\ baseline[t] = "none" \/
              \E was \in Behaviours : baseline[t] = Recorded(was, t \in OwnXfail)
         /\ \/ ran[t] = "none" /\ live[t] = "none"
            \/ ran[t] \in Behaviours /\ live[t] = Recorded(ran[t], t \in OwnXfail \cup known)
<1>1. /\ (t \in OwnXfail) \in BOOLEAN
      /\ (t \in OwnXfail \cup known) \in BOOLEAN
  OBVIOUS
<1>. QED BY <1>1, OutcomeRecorded DEF LoopInv, BaselineInv, LiveInv

LEMMA LoopSurfaces == LoopInv => RegressionsSurface
<1>. SUFFICES ASSUME LoopInv, mode = "plain", NEW t \in Tests \ OwnXfail
              PROVE  (Bucket(t) = "regression") <=> (baseline[t] = "passed" /\ ran[t] \in Broken)
  BY DEF RegressionsSurface
<1>1. known = {} BY DEF LoopInv, KnownInv
<1>2. baseline[t] \in {"none", "passed", "failed", "setup error", "teardown error", "skipped"}
  BY Compared DEF Recorded, Behaviours
<1>3. \/ ran[t] = "none" /\ live[t] = "none"
      \/ ran[t] = "pass" /\ live[t] = "passed"
      \/ ran[t] = "fail" /\ live[t] = "failed"
      \/ ran[t] = "setup error" /\ live[t] = "setup error"
      \/ ran[t] = "teardown error" /\ live[t] = "teardown error"
      \/ ran[t] = "skip" /\ live[t] = "skipped"
  BY <1>1, Compared DEF Recorded, Behaviours
<1>. QED BY <1>2, <1>3 DEF Bucket, Category, Project, Broken

LEMMA LoopSustains == LoopInv => CallRegressionsSustain
<1>. SUFFICES ASSUME LoopInv, mode = "xfail", NEW t \in known, ran[t] = "fail"
              PROVE  Bucket(t) = "regression" /\ (prior = live => t \in KnownRegressions)
  BY DEF CallRegressionsSustain
<1>1. t \in Tests /\ baseline[t] # "none" /\ Project(baseline[t]) = "pass"
  BY DEF LoopInv, KnownInv, TypeOK
<1>2. live[t] = "xfailed" BY <1>1, Compared DEF Recorded
<1>3. Project(live[t]) = "fail" BY <1>2 DEF Project
<1>4. Bucket(t) = "regression" BY <1>1, <1>2, <1>3 DEF Bucket, Category
<1>. QED BY <1>1, <1>2, <1>3, <1>4 DEF KnownRegressions

LEMMA LoopRepairs == LoopInv => RepairsReported
<1>. SUFFICES ASSUME LoopInv, mode = "xfail", NEW t \in known, ran[t] # "none"
              PROVE  /\ ran[t] = "pass" => t \in NowPassing
                     /\ ran[t] = "fail" => t \notin NowPassing
  BY DEF RepairsReported
<1>1. t \in Tests BY DEF LoopInv, TypeOK
<1>. QED BY <1>1, Compared DEF Recorded, NowPassing

\* Whatever the tests do from run to run, which of them are selected and marked and
\* which recording is used next, a regression surfaces as one, stays one while it fails
\* in its call, and its repair is reported (compute_categories, _apply_xfail).
THEOREM ComparesSoundly == Spec => []ComparisonSound
<1>1. Spec => []LoopInv BY LoopInit, LoopStep, PTL DEF Spec
<1>2. LoopInv => ComparisonSound
  BY LoopSurfaces, LoopSustains, LoopRepairs DEF LoopInv, ComparisonSound
<1>. QED BY <1>1, <1>2, PTL

-----------------------------------------------------------------------------
(***************************************************************************)
(* MigrationCommand                                                        *)
(*                                                                         *)
(* A report is about an invocation's own sessions, its exit status is that *)
(* of its report, and its run directory goes, for every number of          *)
(* invocations and every suite.                                            *)
(***************************************************************************)

\* The artifacts of an invocation that was given no paths are those its own sessions
\* recorded; its run directory is there, and nothing was written yet.
Works(i) ==
  at[i] \in Steps =>
    /\ scratch[i] = "whole" /\ printed[i] = "none"
    /\ at[i] # "report" => status[i] = "none"
    /\ ~options[i].given => \A s \in Sides : files[<<i, s>>] = recorded[i][s]

Waits(i) ==
  at[i] = "start" =>
    /\ status[i] = "none" /\ printed[i] = "none"
    /\ \A s \in Sides : files[<<i, s>>] = recorded[i][s]

\* The verdict v is the one the sessions of i deserve.
Own(i, v) ==
  ~options[i].given =>
    /\ \A s \in Sides :
         /\ recorded[i][s] # Unwritten
         /\ recorded[i][s].state # "truncated"
         /\ recorded[i][s].state = "incomplete" => s \in options[i].allow
    /\ v = "1" <=> Regressions(recorded[i]["baseline"], recorded[i]["live"]) # {}

\* The verdict is right when it is known, and when it is on stdout.
Judged(i) == at[i] = "report" => status[i] \in Verdicts /\ Own(i, status[i])

Verdict(i) == printed[i] \in Verdicts => Own(i, printed[i])

\* Whoever is past the report has the status it calls for.
Told(i) ==
  at[i] \in {"unresolved", "cleanup", "done"} =>
    /\ status[i] \in Verdicts =>
         printed[i] = status[i] \/ (printed[i] = "broken" /\ status[i] = "1")
    /\ printed[i] \in Verdicts => status[i] \in {printed[i], "interrupted", "killed"}

Cleared(i) ==
  /\ at[i] = "cleanup" => scratch[i] = "whole"
  /\ at[i] = "done" /\ status[i] # "killed" =>
       scratch[i] \in IF options[i].keep THEN {"whole"} ELSE {"removed", "remains"}

InvocationInv(i) ==
  Works(i) /\ Waits(i) /\ Judged(i) /\ Verdict(i) /\ Told(i) /\ Cleared(i)

CommandInv == \A i \in Invocations : InvocationInv(i)

Step(i) ==
  \/ Unresolved(i) \/ Resolve(i)
  \/ Provision(i) \/ ProvisionFails(i)
  \/ Record(i) \/ RecordNothing(i) \/ RecordCannotRun(i)
  \/ Compare(i) \/ CompareFails(i)
  \/ WriteReport(i) \/ WriteRaises(i)
  \/ Interrupt(i) \/ Cleanup(i) \/ InterruptCleanup(i) \/ Kill(i)

Codes == Verdicts \cup {"2", "interrupted", "killed"}

Outputs == Verdicts \cup {"none", "broken"}

Histories == [Invocations -> [Sides -> Artifacts \cup {Unwritten}]]

\* A step that leaves the try statement.
Departs(i) == \E code \in Codes, output \in Outputs : Leave(i, code, output)

LEMMA PathTyped ==
  ASSUME NEW i \in Invocations, NEW s \in Sides
  PROVE  PathOf(i, s) \in Paths
BY DEF PathOf, Paths

\* A step that fails, and an interrupt, departs without a report.
LEMMA FailDeparts ==
  ASSUME NEW i, Fail(i) \/ Leave(i, "interrupted", "none") \/ Leave(i, "1", "broken")
  PROVE  \E code \in Codes, output \in Outputs \ Verdicts :
           /\ Leave(i, code, output)
           /\ code \in Verdicts => output = "broken" /\ code = "1"
BY DEF Fail, Codes, Outputs, Verdicts

LEMMA LeaveTyped ==
  ASSUME CommandTypeOK, NEW i \in Invocations,
         NEW code \in Codes, NEW output \in Outputs, Leave(i, code, output)
  PROVE  CommandTypeOK'
<1>1. recorded' \in Histories BY DEF Leave, Histories, CommandTypeOK
<1>2. /\ at' \in [Invocations -> Steps \cup {"start", "unresolved", "cleanup", "done"}]
      /\ status' \in [Invocations -> Verdicts \cup {"none", "2", "interrupted", "killed"}]
      /\ printed' \in [Invocations -> Verdicts \cup {"none", "broken"}]
  BY DEF Leave, Codes, Outputs, CommandTypeOK
<1>3. UNCHANGED <<options, side, scratch, files>> BY DEF Leave
<1>. QED BY <1>1, <1>2, <1>3 DEF Histories, CommandTypeOK

LEMMA EndCleanupTyped ==
  ASSUME CommandTypeOK, NEW i \in Invocations, NEW code \in Codes \cup {"none"},
         EndCleanup(i, code)
  PROVE  CommandTypeOK'
<1>1. /\ at' \in [Invocations -> Steps \cup {"start", "unresolved", "cleanup", "done"}]
      /\ status' \in [Invocations -> Verdicts \cup {"none", "2", "interrupted", "killed"}]
  BY DEF EndCleanup, Codes, CommandTypeOK
<1>2. scratch' \in [Invocations -> ScratchStates]
  BY DEF EndCleanup, ScratchStates, CommandTypeOK
<1>3. files' \in [Paths -> Artifacts \cup {Unwritten}] BY DEF EndCleanup, CommandTypeOK
<1>4. UNCHANGED <<options, side, recorded, printed>> BY DEF EndCleanup
<1>. QED BY <1>1, <1>2, <1>3, <1>4 DEF CommandTypeOK

LEMMA StepTyped ==
  ASSUME CommandTypeOK, NEW i \in Invocations, InvocationInv(i), Step(i)
  PROVE  CommandTypeOK'
<1>0. ASSUME Departs(i) PROVE CommandTypeOK' BY <1>0, LeaveTyped DEF Departs
<1>f. ASSUME Fail(i) PROVE CommandTypeOK' BY <1>0, <1>f, FailDeparts DEF Departs
<1>1. CASE Unresolved(i)
  <2>1. at' \in [Invocations -> Steps \cup {"start", "unresolved", "cleanup", "done"}]
    BY <1>1 DEF Unresolved, CommandTypeOK
  <2>2. scratch' \in [Invocations -> ScratchStates]
    BY <1>1 DEF Unresolved, CommandTypeOK, ScratchStates
  <2>3. CASE status' = [status EXCEPT ![i] = "1"] /\ printed' = [printed EXCEPT ![i] = "broken"]
    BY <1>1, <2>1, <2>2, <2>3 DEF Unresolved, CommandTypeOK, Verdicts
  <2>4. CASE /\ \E code \in {"2", "interrupted"} : status' = [status EXCEPT ![i] = code]
             /\ UNCHANGED printed
    BY <1>1, <2>1, <2>2, <2>4 DEF Unresolved, CommandTypeOK
  <2>. QED BY <1>1, <2>3, <2>4 DEF Unresolved
<1>2. CASE Resolve(i) BY <1>2 DEF Resolve, CommandTypeOK, ScratchStates, Steps
<1>3. CASE Provision(i) BY <1>3 DEF Provision, CommandTypeOK, Steps, Sides
<1>4. CASE ProvisionFails(i) BY <1>f, <1>4 DEF ProvisionFails
<1>5. CASE Record(i)
  <2>1. PICK artifact \in Artifacts :
          /\ files' = [files EXCEPT ![PathOf(i, side[i])] = artifact]
          /\ recorded' = [recorded EXCEPT ![i][side[i]] = artifact]
    BY <1>5 DEF Record
  <2>2. side[i] \in Sides BY DEF CommandTypeOK
  <2>3. files' \in [Paths -> Artifacts \cup {Unwritten}]
    BY <2>1, <2>2, PathTyped DEF CommandTypeOK
  <2>4. recorded' \in [Invocations -> [Sides -> Artifacts \cup {Unwritten}]]
    BY <2>1, <2>2 DEF CommandTypeOK
  <2>. QED BY <1>5, <2>3, <2>4 DEF Record, AfterRecord, CommandTypeOK, Steps, Sides
<1>6. CASE RecordNothing(i)
  <2>1. CASE AfterRecord(i) /\ UNCHANGED <<files, recorded>>
    BY <2>1 DEF AfterRecord, CommandTypeOK, Steps, Sides
  <2>. QED BY <1>f, <1>6, <2>1 DEF RecordNothing
<1>7. CASE RecordCannotRun(i) BY <1>f, <1>7 DEF RecordCannotRun
<1>8. CASE Compare(i) BY <1>8 DEF Compare, CommandTypeOK, Steps, Verdicts
<1>9. CASE CompareFails(i) BY <1>f, <1>9 DEF CompareFails
<1>10. CASE WriteReport(i)
  <2>1. status[i] \in Verdicts BY <1>10 DEF WriteReport, InvocationInv, Judged
  <2>. QED BY <1>0, <1>10, <2>1 DEF WriteReport, Departs, Codes, Outputs
<1>11. CASE WriteRaises(i) BY <1>0, <1>11, FailDeparts DEF WriteRaises, Departs
<1>12. CASE Interrupt(i) BY <1>0, <1>12, FailDeparts DEF Interrupt, Departs
<1>13. CASE Cleanup(i)
  <2>1. status[i] \in Codes \cup {"none"} BY DEF CommandTypeOK, Codes
  <2>. QED BY <1>13, <2>1, EndCleanupTyped DEF Cleanup
<1>14. CASE InterruptCleanup(i) BY <1>14, EndCleanupTyped DEF InterruptCleanup, Codes
<1>15. CASE Kill(i)
  <2>1. recorded' \in Histories BY <1>15 DEF Kill, Histories, CommandTypeOK
  <2>. QED BY <1>15, <2>1 DEF Kill, Histories, CommandTypeOK
<1>. QED BY <1>1, <1>2, <1>3, <1>4, <1>5, <1>6, <1>7, <1>8, <1>9, <1>10, <1>11, <1>12,
            <1>13, <1>14, <1>15 DEF Step

-----------------------------------------------------------------------------
(* Nobody disturbs another invocation *)

\* Whatever i does, another invocation's state and artifacts of its own stay.
Apart(i, j) ==
  /\ at'[j] = at[j] /\ status'[j] = status[j] /\ options' = options
  /\ recorded'[j] = recorded[j] /\ printed'[j] = printed[j] /\ scratch'[j] = scratch[j]
  /\ \A s \in Sides : files'[<<j, s>>] = files[<<j, s>>]

LEMMA LeaveApart ==
  ASSUME CommandTypeOK, NEW i \in Invocations, NEW j \in Invocations \ {i},
         NEW code, NEW output, Leave(i, code, output)
  PROVE  Apart(i, j)
<1>1. at'[j] = at[j] /\ status'[j] = status[j] /\ printed'[j] = printed[j]
  BY DEF Leave, CommandTypeOK
<1>2. recorded'[j] = recorded[j] BY DEF Leave, CommandTypeOK
<1>. QED BY <1>1, <1>2 DEF Leave, Apart

LEMMA EndCleanupApart ==
  ASSUME CommandAssumption, CommandTypeOK, NEW i \in Invocations,
         NEW j \in Invocations \ {i}, NEW code, EndCleanup(i, code)
  PROVE  Apart(i, j)
<1>1. at'[j] = at[j] /\ status'[j] = status[j] /\ scratch'[j] = scratch[j]
  BY DEF EndCleanup, CommandTypeOK
<1>2. \A s \in Sides : <<j, s>> \in Paths /\ <<j, s>>[1] # i BY DEF Paths
<1>3. \A s \in Sides : files'[<<j, s>>] = files[<<j, s>>] BY <1>2 DEF EndCleanup
<1>4. UNCHANGED <<options, recorded, printed>> BY DEF EndCleanup
<1>. QED BY <1>1, <1>3, <1>4 DEF Apart

LEMMA StepApart ==
  ASSUME CommandAssumption, CommandTypeOK, NEW i \in Invocations, Step(i),
         NEW j \in Invocations \ {i}
  PROVE  Apart(i, j)
<1>f. ASSUME Fail(i) PROVE Apart(i, j) BY <1>f, LeaveApart DEF Fail
<1>1. CASE Unresolved(i) BY <1>1 DEF Unresolved, CommandTypeOK, Apart
<1>2. CASE Resolve(i) BY <1>2 DEF Resolve, CommandTypeOK, Apart
<1>3. CASE Provision(i) BY <1>3 DEF Provision, CommandTypeOK, Apart
<1>4. CASE ProvisionFails(i) BY <1>f, <1>4 DEF ProvisionFails
<1>5. CASE Record(i)
  <2>1. PICK artifact \in Artifacts :
          /\ files' = [files EXCEPT ![PathOf(i, side[i])] = artifact]
          /\ recorded' = [recorded EXCEPT ![i][side[i]] = artifact]
    BY <1>5 DEF Record
  <2>2. \A s \in Sides : <<j, s>> \in Paths /\ <<j, s>> # PathOf(i, side[i])
    BY DEF Paths, PathOf, CommandAssumption
  <2>3. \A s \in Sides : files'[<<j, s>>] = files[<<j, s>>]
    BY <2>1, <2>2 DEF CommandTypeOK
  <2>4. recorded'[j] = recorded[j] BY <2>1 DEF CommandTypeOK
  <2>. QED BY <1>5, <2>3, <2>4 DEF Record, AfterRecord, CommandTypeOK, Apart
<1>6. CASE RecordNothing(i)
  <2>1. CASE AfterRecord(i) /\ UNCHANGED <<files, recorded>>
    BY <2>1 DEF AfterRecord, CommandTypeOK, Apart
  <2>. QED BY <1>f, <1>6, <2>1 DEF RecordNothing
<1>7. CASE RecordCannotRun(i) BY <1>f, <1>7 DEF RecordCannotRun
<1>8. CASE Compare(i) BY <1>8 DEF Compare, CommandTypeOK, Apart
<1>9. CASE CompareFails(i) BY <1>f, <1>9 DEF CompareFails
<1>10. CASE WriteReport(i) BY <1>10, LeaveApart DEF WriteReport
<1>11. CASE WriteRaises(i) BY <1>11, LeaveApart DEF WriteRaises
<1>12. CASE Interrupt(i) BY <1>12, LeaveApart DEF Interrupt
<1>13. CASE Cleanup(i) BY <1>13, EndCleanupApart DEF Cleanup
<1>14. CASE InterruptCleanup(i) BY <1>14, EndCleanupApart DEF InterruptCleanup
<1>15. CASE Kill(i)
  <2>1. recorded'[j] = recorded[j] BY <1>15 DEF Kill, CommandTypeOK
  <2>. QED BY <1>15, <2>1 DEF Kill, CommandTypeOK, Apart
<1>. QED BY <1>1, <1>2, <1>3, <1>4, <1>5, <1>6, <1>7, <1>8, <1>9, <1>10, <1>11, <1>12,
            <1>13, <1>14, <1>15 DEF Step

LEMMA OwnStays ==
  ASSUME NEW i, NEW v, Own(i, v), options' = options, recorded'[i] = recorded[i]
  PROVE  Own(i, v)'
BY DEF Own, Regressions

LEMMA ApartKeeps ==
  ASSUME NEW i, NEW j, Apart(i, j), InvocationInv(j)
  PROVE  InvocationInv(j)'
<1>1. Works(j)' BY DEF Apart, InvocationInv, Works
<1>2. Waits(j)' /\ Told(j)' BY DEF Apart, InvocationInv, Waits, Told
<1>3. Judged(j)' BY OwnStays DEF Apart, InvocationInv, Judged, Own, Regressions
<1>4. Verdict(j)' BY OwnStays DEF Apart, InvocationInv, Verdict, Own, Regressions
<1>5. Cleared(j)' BY DEF Apart, InvocationInv, Cleared
<1>. QED BY <1>1, <1>2, <1>3, <1>4, <1>5 DEF InvocationInv

-----------------------------------------------------------------------------
(* The invocation's own steps *)

\* A step that fails, an interrupt, and a report that cannot be written.
LEMMA DepartureKeeps ==
  ASSUME CommandTypeOK, NEW i \in Invocations, at[i] \in Steps, InvocationInv(i),
         Fail(i) \/ Leave(i, "interrupted", "none") \/ Leave(i, "1", "broken")
  PROVE  InvocationInv(i)'
<1>1. PICK code \in Codes, output \in Outputs \ Verdicts :
        Leave(i, code, output) /\ (code \in Verdicts => output = "broken" /\ code = "1")
  BY FailDeparts
<1>2. /\ at'[i] = "cleanup" /\ status'[i] = code /\ printed'[i] = output
      /\ scratch'[i] = scratch[i]
  BY <1>1 DEF Leave, CommandTypeOK
<1>3. Works(i)' /\ Waits(i)' /\ Judged(i)' BY <1>2 DEF Works, Waits, Judged, Steps
<1>4. Verdict(i)' BY <1>1, <1>2 DEF Verdict
<1>5. Told(i)' BY <1>1, <1>2 DEF Told
<1>6. Cleared(i)' BY <1>2 DEF InvocationInv, Works, Cleared
<1>. QED BY <1>3, <1>4, <1>5, <1>6 DEF InvocationInv

\* A comparison: what it reads are the invocation's own artifacts.
LEMMA CompareKeeps ==
  ASSUME CommandTypeOK, NEW i \in Invocations, InvocationInv(i), Compare(i)
  PROVE  InvocationInv(i)'
<1>. DEFINE regressions == Regressions(files[PathOf(i, "baseline")], files[PathOf(i, "live")])
<1>1. at[i] \in Steps /\ at[i] = "compare" BY DEF Compare, Steps
<1>2. at'[i] = "report" /\ status'[i] = IF regressions # {} THEN "1" ELSE "0"
  BY DEF Compare, CommandTypeOK
<1>3. UNCHANGED <<options, scratch, files, recorded, printed>> BY DEF Compare
<1>4. ASSUME ~options[i].given
      PROVE  /\ \A s \in Sides :
                  /\ recorded[i][s] # Unwritten
                  /\ recorded[i][s].state # "truncated"
                  /\ recorded[i][s].state = "incomplete" => s \in options[i].allow
             /\ regressions = Regressions(recorded[i]["baseline"], recorded[i]["live"])
  <2>1. \A s \in Sides : PathOf(i, s) = <<i, s>> /\ files[<<i, s>>] = recorded[i][s]
    BY <1>1, <1>4 DEF PathOf, InvocationInv, Works
  <2>2. regressions = Regressions(recorded[i]["baseline"], recorded[i]["live"])
    BY <2>1 DEF Sides
  <2>3. ASSUME NEW s \in Sides
        PROVE  /\ recorded[i][s] # Unwritten
               /\ recorded[i][s].state # "truncated"
               /\ recorded[i][s].state = "incomplete" => s \in options[i].allow
    BY <2>1, <2>3 DEF Compare, Admissible
  <2>. QED BY <2>2, <2>3
<1>5. status'[i] = "1" <=> regressions # {} BY <1>2
<1>. HIDE DEF regressions
<1>6. Own(i, status[i])' BY <1>3, <1>4, <1>5 DEF Own, Regressions
<1>7. Judged(i)' BY <1>2, <1>6 DEF Judged, Verdicts
<1>8. Works(i)' /\ printed'[i] = "none" BY <1>1, <1>2, <1>3 DEF InvocationInv, Works
<1>9. Waits(i)' /\ Verdict(i)' /\ Told(i)' /\ Cleared(i)'
  BY <1>2, <1>8 DEF Waits, Verdict, Told, Cleared, Verdicts
<1>. QED BY <1>7, <1>8, <1>9 DEF InvocationInv

LEMMA WriteKeeps ==
  ASSUME CommandTypeOK, NEW i \in Invocations, InvocationInv(i), WriteReport(i)
  PROVE  InvocationInv(i)'
<1>1. at[i] = "report" /\ Leave(i, status[i], status[i]) BY DEF WriteReport
<1>2. status[i] \in Verdicts /\ Own(i, status[i]) BY <1>1 DEF InvocationInv, Judged
<1>3. /\ at'[i] = "cleanup" /\ status'[i] = status[i] /\ printed'[i] = status[i]
      /\ UNCHANGED <<options, recorded, scratch>>
  BY <1>1, <1>2 DEF Leave, CommandTypeOK
<1>4. Own(i, status[i])' BY <1>2, <1>3 DEF Own, Regressions
<1>5. Verdict(i)' BY <1>3, <1>4 DEF Verdict, Own
<1>6. Works(i)' /\ Waits(i)' /\ Judged(i)' BY <1>3 DEF Works, Waits, Judged, Steps
<1>7. Told(i)' BY <1>3 DEF Told, Verdicts
<1>8. Cleared(i)' BY <1>1, <1>3 DEF InvocationInv, Works, Cleared, Steps
<1>. QED BY <1>5, <1>6, <1>7, <1>8 DEF InvocationInv

LEMMA CleanupKeeps ==
  ASSUME CommandTypeOK, NEW i \in Invocations, InvocationInv(i),
         NEW code \in {status[i], "interrupted"}, EndCleanup(i, code)
  PROVE  InvocationInv(i)'
<1>1. /\ at[i] = "cleanup" /\ at'[i] = "done" /\ status'[i] = code
      /\ UNCHANGED <<options, recorded, printed>>
  BY DEF EndCleanup, CommandTypeOK
<1>2. Works(i)' /\ Waits(i)' /\ Judged(i)' BY <1>1 DEF Works, Waits, Judged, Steps
<1>3. Verdict(i)' BY <1>1 DEF InvocationInv, Verdict, Own, Regressions
<1>4. Told(i)' BY <1>1 DEF InvocationInv, Told, Verdicts
<1>5. scratch'[i] \in IF options[i].keep THEN {"whole"} ELSE {"removed", "remains"}
  BY <1>1 DEF EndCleanup, CommandTypeOK, InvocationInv, Cleared
<1>6. Cleared(i)' BY <1>1, <1>5 DEF Cleared
<1>. QED BY <1>2, <1>3, <1>4, <1>6 DEF InvocationInv

LEMMA KillKeeps ==
  ASSUME CommandTypeOK, NEW i \in Invocations, InvocationInv(i), Kill(i)
  PROVE  InvocationInv(i)'
<1>1. at'[i] = "done" /\ status'[i] = "killed" /\ UNCHANGED <<options, printed>>
  BY DEF Kill, CommandTypeOK
<1>2. Works(i)' /\ Waits(i)' /\ Judged(i)' BY <1>1 DEF Works, Waits, Judged, Steps
<1>3. printed[i] \in Verdicts => recorded' = recorded BY DEF Kill
<1>4. Verdict(i)' BY <1>1, <1>3 DEF InvocationInv, Verdict, Own, Regressions
<1>5. Told(i)' /\ Cleared(i)' BY <1>1 DEF Told, Cleared, Verdicts
<1>. QED BY <1>2, <1>4, <1>5 DEF InvocationInv

LEMMA StepKeeps ==
  ASSUME CommandAssumption, CommandTypeOK, NEW i \in Invocations, InvocationInv(i), Step(i)
  PROVE  InvocationInv(i)'
<1>f. ASSUME at[i] \in Steps, Fail(i) PROVE InvocationInv(i)' BY <1>f, DepartureKeeps
<1>0. ASSUME at[i] \in Steps \ {"report"}, at'[i] \in Steps \ {"report"},
             UNCHANGED <<options, scratch, printed, status>>,
             ~options[i].given => \A s \in Sides : files'[<<i, s>>] = recorded'[i][s]
      PROVE  InvocationInv(i)'
  <2>1. Works(i)' BY <1>0 DEF InvocationInv, Works
  <2>2. printed'[i] = "none" BY <1>0 DEF InvocationInv, Works
  <2>3. Waits(i)' /\ Judged(i)' /\ Verdict(i)' /\ Told(i)' /\ Cleared(i)'
    BY <1>0, <2>2 DEF Waits, Judged, Verdict, Told, Cleared, Steps, Verdicts
  <2>. QED BY <2>1, <2>3 DEF InvocationInv
<1>1. CASE Unresolved(i)
  <2>1. /\ at'[i] = "unresolved"
        /\ \/ status'[i] = "1" /\ printed'[i] = "broken"
           \/ status'[i] \in {"2", "interrupted"} /\ printed'[i] = "none"
    BY <1>1 DEF Unresolved, CommandTypeOK, InvocationInv, Waits
  <2>. QED
    BY <2>1 DEF InvocationInv, Works, Waits, Judged, Verdict, Told, Cleared, Steps, Verdicts
<1>2. CASE Resolve(i)
  <2>1. /\ at'[i] = "provision" /\ status'[i] = "none" /\ printed'[i] = "none"
        /\ scratch'[i] = "whole" /\ at[i] = "start"
    BY <1>2 DEF Resolve, CommandTypeOK, InvocationInv, Waits
  <2>2. \A s \in Sides : files'[<<i, s>>] = recorded'[i][s]
    BY <1>2 DEF Resolve, InvocationInv, Waits
  <2>3. Works(i)' BY <2>1, <2>2 DEF Works
  <2>. QED BY <2>1, <2>3 DEF InvocationInv, Waits, Judged, Verdict, Told, Cleared, Verdicts
<1>3. CASE Provision(i)
  <2>1. /\ at[i] \in Steps \ {"report"} /\ at'[i] \in Steps \ {"report"}
        /\ UNCHANGED <<options, scratch, files, recorded, printed, status>>
    BY <1>3 DEF Provision, CommandTypeOK, Steps
  <2>2. ~options[i].given => \A s \in Sides : files'[<<i, s>>] = recorded'[i][s]
    BY <2>1 DEF InvocationInv, Works
  <2>. QED BY <1>0, <2>1, <2>2
<1>4. CASE ProvisionFails(i) BY <1>f, <1>4 DEF ProvisionFails, Steps
<1>5. CASE Record(i)
  <2>1. PICK artifact \in Artifacts :
          /\ files' = [files EXCEPT ![PathOf(i, side[i])] = artifact]
          /\ recorded' = [recorded EXCEPT ![i][side[i]] = artifact]
    BY <1>5 DEF Record
  <2>2. /\ at[i] \in Steps \ {"report"} /\ at'[i] \in Steps \ {"report"}
        /\ UNCHANGED <<options, scratch, printed, status>>
    BY <1>5 DEF Record, AfterRecord, CommandTypeOK, Steps
  <2>3. side[i] \in Sides BY DEF CommandTypeOK
  <2>4. ASSUME ~options[i].given, NEW s \in Sides
        PROVE  files'[<<i, s>>] = recorded'[i][s]
    <3>1. files[<<i, s>>] = recorded[i][s] BY <2>2, <2>4 DEF InvocationInv, Works
    <3>2. <<i, s>> \in Paths /\ PathOf(i, side[i]) = <<i, side[i]>> BY <2>4 DEF Paths, PathOf
    <3>3. CASE s = side[i] BY <2>1, <3>2, <3>3 DEF CommandTypeOK
    <3>4. CASE s # side[i] BY <2>1, <3>1, <3>2, <3>4 DEF CommandTypeOK
    <3>. QED BY <3>3, <3>4
  <2>. QED BY <1>0, <2>2, <2>4
<1>6. CASE RecordNothing(i)
  <2>1. CASE AfterRecord(i) /\ UNCHANGED <<files, recorded>>
    <3>1. /\ at[i] \in Steps \ {"report"} /\ at'[i] \in Steps \ {"report"}
          /\ UNCHANGED <<options, scratch, printed, status>>
      BY <1>6, <2>1 DEF RecordNothing, AfterRecord, CommandTypeOK, Steps
    <3>2. ~options[i].given => \A s \in Sides : files'[<<i, s>>] = recorded'[i][s]
      BY <2>1, <3>1 DEF InvocationInv, Works
    <3>. QED BY <1>0, <3>1, <3>2
  <2>. QED BY <1>f, <1>6, <2>1 DEF RecordNothing, Steps
<1>7. CASE RecordCannotRun(i) BY <1>f, <1>7 DEF RecordCannotRun, Steps
<1>8. CASE Compare(i) BY <1>8, CompareKeeps
<1>9. CASE CompareFails(i) BY <1>f, <1>9 DEF CompareFails, Steps
<1>10. CASE WriteReport(i) BY <1>10, WriteKeeps
<1>11. CASE WriteRaises(i) BY <1>11, DepartureKeeps DEF WriteRaises, Steps
<1>12. CASE Interrupt(i) BY <1>12, DepartureKeeps DEF Interrupt
<1>13. CASE Cleanup(i) BY <1>13, CleanupKeeps DEF Cleanup
<1>14. CASE InterruptCleanup(i) BY <1>14, CleanupKeeps DEF InterruptCleanup
<1>15. CASE Kill(i) BY <1>15, KillKeeps
<1>. QED BY <1>1, <1>2, <1>3, <1>4, <1>5, <1>6, <1>7, <1>8, <1>9, <1>10, <1>11, <1>12,
            <1>13, <1>14, <1>15 DEF Step

-----------------------------------------------------------------------------
\* Every invocation works on its own directory and, unless it was given paths, on its
\* own artifacts (main, execute).
THEOREM Invocable ==
  ASSUME CommandAssumption
  PROVE  CommandSpec => [](CommandTypeOK /\ CommandInv)
<1>1. CommandInit => CommandTypeOK /\ CommandInv
  <2>. SUFFICES ASSUME CommandInit PROVE CommandTypeOK /\ CommandInv OBVIOUS
  <2>1. CommandTypeOK BY DEF CommandInit, CommandTypeOK, Steps, Sides, ScratchStates
  <2>2. ASSUME NEW i \in Invocations PROVE InvocationInv(i)
    <3>1. at[i] = "start" /\ status[i] = "none" /\ printed[i] = "none" BY DEF CommandInit
    <3>2. \A s \in Sides : files[<<i, s>>] = Unwritten /\ recorded[i][s] = Unwritten
      BY DEF CommandInit, Paths
    <3>. QED
      BY <3>1, <3>2
         DEF InvocationInv, Works, Waits, Judged, Verdict, Told, Cleared, Steps, Verdicts
  <2>. QED BY <2>1, <2>2 DEF CommandInv
<1>2. CommandTypeOK /\ CommandInv /\ [CommandNext]_commandVars
        => (CommandTypeOK /\ CommandInv)'
  <2>. SUFFICES ASSUME CommandTypeOK, CommandInv, [CommandNext]_commandVars
                PROVE  (CommandTypeOK /\ CommandInv)'
    OBVIOUS
  <2>1. ASSUME NEW i \in Invocations, Step(i) PROVE (CommandTypeOK /\ CommandInv)'
    <3>1. CommandTypeOK' BY <2>1, StepTyped DEF CommandInv
    <3>2. InvocationInv(i)' BY <2>1, StepKeeps DEF CommandInv
    <3>3. ASSUME NEW j \in Invocations \ {i} PROVE InvocationInv(j)'
      BY <2>1, StepApart, ApartKeeps DEF CommandInv
    <3>. QED BY <3>1, <3>2, <3>3 DEF CommandInv
  <2>2. CASE UNCHANGED commandVars
    <3>1. CommandTypeOK' BY <2>2 DEF commandVars, CommandTypeOK
    <3>2. ASSUME NEW i \in Invocations PROVE InvocationInv(i)'
      <4>1. Apart(i, i) BY <2>2 DEF commandVars, Apart
      <4>. QED BY <4>1, ApartKeeps DEF CommandInv
    <3>. QED BY <3>1, <3>2 DEF CommandInv
  <2>3. CASE CommandNext
    <3>1. PICK i \in Invocations : Step(i) BY <2>3 DEF CommandNext, Step
    <3>. QED BY <2>1, <3>1
  <2>. QED BY <2>2, <2>3
<1>. QED BY <1>1, <1>2, PTL DEF CommandSpec

\* A report is about what the invocation's own two sessions recorded, the exit status
\* is that of the report unless a write raised, and the run directory is gone in the
\* end, as far as rmtree got, exactly if it was not to be kept (main, execute).
THEOREM VerdictsAreOwn ==
  ASSUME CommandAssumption
  PROVE  CommandSpec => []CommandSound
<1>1. CommandTypeOK /\ CommandInv => CommandSound
  <2>. SUFFICES ASSUME CommandTypeOK, CommandInv PROVE CommandSound OBVIOUS
  <2>1. VerdictIsOwn BY DEF CommandInv, InvocationInv, Verdict, Own, VerdictIsOwn
  <2>2. StatusIsReported BY DEF CommandInv, InvocationInv, Told, StatusIsReported
  <2>3. ScratchRemoved BY DEF CommandInv, InvocationInv, Cleared, ScratchRemoved
  <2>. QED BY <2>1, <2>2, <2>3 DEF CommandSound
<1>. QED BY <1>1, Invocable, PTL
=============================================================================
