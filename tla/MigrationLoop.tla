--------------------------- MODULE MigrationLoop ---------------------------
(***************************************************************************)
(* A suite on its way from one Airflow to the next (baseline.py): a        *)
(* baseline is recorded once, then runs compare themselves with it, may    *)
(* select a part of the suite, may xfail-mark the known regressions of an  *)
(* earlier recording, and are recorded in their turn.                      *)
(*                                                                         *)
(* What pytest reports of a test, with and without an xfail mark, is       *)
(* external (its skipping plugin).                                         *)
(***************************************************************************)
EXTENDS Outcomes

CONSTANTS
  Tests,
  OwnXfail      \* tests that carry a non-strict xfail mark of their own

VARIABLES
  baseline,     \* outcomes by test, "none" where the recording has no entry
  behaviour,    \* what each test does on the installed Airflow now
  live,         \* outcomes of the last run
  prior,        \* the recording --airflow-baseline-xfail names
  known,        \* the known regressions of the last run
  ran,          \* what each test of the last run did
  mode          \* the last run: "plain", "xfail", or "none" before the first

vars == <<baseline, behaviour, live, prior, known, ran, mode>>

Behaviours == {"pass", "fail", "setup error", "teardown error", "skip"}
Recordings == [Tests -> OutcomeValues \cup {"none"}]
NoRecording == [t \in Tests |-> "none"]
Selectors == {"all", "passing", "failing", "new"}

TypeOK ==
  /\ baseline \in Recordings /\ live \in Recordings /\ prior \in Recordings
  /\ behaviour \in [Tests -> Behaviours]
  /\ ran \in [Tests -> Behaviours \cup {"none"}]
  /\ known \subseteq Tests
  /\ mode \in {"none", "plain", "xfail"}

-----------------------------------------------------------------------------
(* pytest *)

\* A failing phase under an xfail mark is reported as an expected skip.
Failing(when, marked) == Report(when, IF marked THEN "skipped" ELSE "failed", marked)

PhaseReport(when, does, marked) ==
  CASE does = "skip" /\ when = "setup" -> Report("setup", "skipped", FALSE)
    [] <<does, when>> \in {<<"fail", "call">>, <<"setup error", "setup">>,
                          <<"teardown error", "teardown">>} -> Failing(when, marked)
    [] OTHER -> Report(when, "passed", marked /\ when = "call")

\* There is no call after a setup that did not pass.
OutcomeOf(does, marked) ==
  LET setup == Accumulate(NoAccumulator, PhaseReport("setup", does, marked))
      call == IF does \in {"setup error", "skip"} THEN setup
              ELSE Accumulate(setup, PhaseReport("call", does, marked))
  IN  Finalize(Accumulate(call, PhaseReport("teardown", does, marked)))

-----------------------------------------------------------------------------
(* baseline.py *)

\* _selected.
Selected(t, selector) ==
  CASE selector = "all" -> TRUE
    [] selector = "new" -> baseline[t] = "none"
    [] selector = "passing" -> baseline[t] # "none" /\ Project(baseline[t]) = "pass"
    [] selector = "failing" -> baseline[t] # "none" /\ Project(baseline[t]) = "fail"

\* _apply_xfail.
KnownRegressions ==
  {t \in Tests : /\ baseline[t] # "none" /\ Project(baseline[t]) = "pass"
                 /\ prior[t] # "none" /\ Project(prior[t]) = "fail"}

\* compute_categories.
Bucket(t) ==
  CASE baseline[t] = "none" /\ live[t] # "none" -> "new"
    [] baseline[t] # "none" /\ live[t] = "none" -> "missing"
    [] baseline[t] # "none" /\ live[t] # "none" -> Category(baseline[t], live[t])
    [] OTHER -> "none"

\* The summary's list of known regressions that pass now.
NowPassing == {t \in known : live[t] = "xpassed"}

-----------------------------------------------------------------------------
Init ==
  /\ \E was \in [Tests -> Behaviours \cup {"none"}] :
       baseline = [t \in Tests |->
         IF was[t] = "none" THEN "none" ELSE OutcomeOf(was[t], t \in OwnXfail)]
  /\ behaviour \in [Tests -> Behaviours]
  /\ live = NoRecording /\ prior = NoRecording
  /\ known = {}
  /\ ran = [t \in Tests |-> "none"]
  /\ mode = "none"

Run(selector, marked) ==
  /\ live' = [t \in Tests |->
       IF Selected(t, selector) THEN OutcomeOf(behaviour[t], t \in OwnXfail \cup marked) ELSE "none"]
  /\ ran' = [t \in Tests |-> IF Selected(t, selector) THEN behaviour[t] ELSE "none"]
  /\ known' = marked
  /\ UNCHANGED <<baseline, behaviour, prior>>

RunPlain(selector) == Run(selector, {}) /\ mode' = "plain"

RunXfail(selector) ==
  /\ prior # NoRecording
  /\ Run(selector, KnownRegressions)
  /\ mode' = "xfail"

\* The recording of the last run becomes the prior one, as the summary asks for.
Refresh ==
  /\ mode # "none"
  /\ prior' = live
  /\ UNCHANGED <<baseline, behaviour, live, known, ran, mode>>

\* The team repairs or breaks a test.
Change(t) ==
  /\ \E does \in Behaviours : behaviour' = [behaviour EXCEPT ![t] = does]
  /\ UNCHANGED <<baseline, live, prior, known, ran, mode>>

Next ==
  \/ \E selector \in Selectors : RunPlain(selector) \/ RunXfail(selector)
  \/ Refresh
  \/ \E t \in Tests : Change(t)

Spec == Init /\ [][Next]_vars

-----------------------------------------------------------------------------
(* Properties *)

Broken == {"fail", "setup error", "teardown error"}

\* A run without marks puts into the regression bucket exactly those of its tests
\* that passed in the baseline and are broken now, whatever phase breaks
\* (_finalize, compute_categories).
RegressionsSurface ==
  mode = "plain" => \A t \in Tests \ OwnXfail :
    (Bucket(t) = "regression") <=> (baseline[t] = "passed" /\ ran[t] \in Broken)

\* A known regression that still fails in its call stays a regression in the
\* comparison, and known if the recording is used next (_apply_xfail: "keeping
\* repeated runs self-sustaining").
CallRegressionsSustain ==
  mode = "xfail" => \A t \in known : ran[t] = "fail" =>
    Bucket(t) = "regression" /\ (prior = live => t \in KnownRegressions)

\* Every repaired known regression of the run is reported, and none that fails
\* in its call is.
RepairsReported ==
  mode = "xfail" => \A t \in known : ran[t] # "none" =>
    /\ ran[t] = "pass" => t \in NowPassing
    /\ ran[t] = "fail" => t \notin NowPassing

\* The comparison by hand: a regression surfaces as one, stays one while it fails in
\* its call, and its repair is reported (compute_categories, _apply_xfail).
ComparisonSound == TypeOK /\ RegressionsSurface /\ CallRegressionsSustain /\ RepairsReported

\* "failed or errored (_FAIL_OUTCOMES, so a previously auto-marked regression
\* that re-recorded as `xfailed` still counts, keeping repeated
\* --airflow-baseline-xfail runs self-sustaining)" (_apply_xfail): a known
\* regression that is still broken is still one after the run.
RegressionsSustain ==
  mode = "xfail" => \A t \in known : ran[t] \in Broken => Bucket(t) = "regression"
=============================================================================
