------------------------------ MODULE Outcomes ------------------------------
(***************************************************************************)
(* What --airflow-record makes of the phase reports of one test, and what  *)
(* --airflow-baseline makes of two recorded outcomes (record.py,           *)
(* baseline.py).  Durations, messages and the gated flag of a report are   *)
(* left out; a gated test is gated whatever its outcome.                   *)
(***************************************************************************)

Results == {"passed", "failed", "skipped"}

\* A phase report of pytest; xfail is the attribute wasxfail.  xdist reports a
\* crashed worker's test with a `when` of its own ("???").
Report(when, result, xfail) == [when |-> when, result |-> result, xfail |-> xfail]

Reports == [when : {"setup", "call", "teardown", "crash"}, result : Results, xfail : BOOLEAN]

CrashReport == Report("crash", "failed", FALSE)

\* An `error` carries the phase it comes from.
OutcomeValues ==
  {"passed", "failed", "setup error", "teardown error", "skipped", "xfailed", "xpassed"}

-----------------------------------------------------------------------------
(* The accumulator of one test *)

\* _NodeAccumulator; one that is not open stands for a missing key.
Accumulator ==
  [open : BOOLEAN, setupFailed : BOOLEAN, call : Results \cup {"none"},
   xfail : BOOLEAN, teardownFailed : BOOLEAN, crashed : BOOLEAN]

NoAccumulator ==
  [open |-> FALSE, setupFailed |-> FALSE, call |-> "none",
   xfail |-> FALSE, teardownFailed |-> FALSE, crashed |-> FALSE]

Accumulate(node, report) ==
  CASE report.when = "setup" ->
         [node EXCEPT !.open = TRUE, !.setupFailed = report.result = "failed"]
    [] report.when = "call" ->
         [node EXCEPT !.open = TRUE, !.call = report.result, !.xfail = report.xfail]
    [] report.when = "teardown" ->
         [node EXCEPT !.open = TRUE, !.teardownFailed = report.result = "failed"]
    [] OTHER -> [node EXCEPT !.open = TRUE, !.crashed = TRUE]

\* Mutant: the call's outcome is taken before the teardown's.
FinalizeCallFirst(node) ==
  IF node.crashed \/ node.call = "failed" THEN "failed"
  ELSE IF node.setupFailed THEN "setup error"
  ELSE IF node.call \in {"none", "skipped"} THEN "skipped"
  ELSE "passed"

Finalize(node) ==
  IF node.crashed THEN "failed"
  ELSE IF node.teardownFailed THEN "teardown error"
  ELSE IF node.setupFailed THEN "setup error"
  ELSE CASE node.call = "none" -> "skipped"
         [] node.call = "passed" -> IF node.xfail THEN "xpassed" ELSE "passed"
         [] node.call = "failed" -> "failed"
         [] node.call = "skipped" -> IF node.xfail THEN "xfailed" ELSE "skipped"

-----------------------------------------------------------------------------
(* Two recordings *)

Project(outcome) ==
  CASE outcome \in {"passed", "xpassed"} -> "pass"
    [] outcome \in {"failed", "setup error", "teardown error", "xfailed"} -> "fail"
    [] outcome = "skipped" -> "neutral"

\* _CATEGORY_BY_PROJECTION.
Category(baseline, live) ==
  CASE <<Project(baseline), Project(live)>> = <<"pass", "fail">> -> "regression"
    [] <<Project(baseline), Project(live)>> = <<"fail", "pass">> -> "fixed"
    [] "fail" \notin {Project(baseline), Project(live)} -> "still_passing"
    [] OTHER -> "broken_on_both"
=============================================================================
