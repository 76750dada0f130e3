----------------------------- MODULE Recording -----------------------------
(***************************************************************************)
(* What --airflow-record promises of a session, however its tests are run: *)
(* an attempt at a test begins once the one before is over, and the        *)
(* outcome of the test changes at the end of an attempt only, to what the  *)
(* reports of that attempt imply.  WorkerReports implements it.            *)
(***************************************************************************)
CONSTANTS
  Tests,
  Reports     \* the phase reports of pytest

VARIABLES
  attempt,    \* the reports of the last attempt at each test
  outcome     \* the recorded outcome of each test, "none" before

recordingVars == <<attempt, outcome>>

Init ==
  /\ attempt = [t \in Tests |-> {}]
  /\ outcome = [t \in Tests |-> "none"]

\* "Precedence is worker crash, teardown error, setup error, setup skip, then
\* call outcome" (docs/reference/migration.md), over the reports of an attempt.
Verdict(reports) ==
  LET Has(when, result) == \E r \in reports : r.when = when /\ r.result = result
      Expected == \E r \in reports : r.when = "call" /\ r.xfail
  IN CASE Has("crash", "failed") -> "failed"
       [] Has("teardown", "failed") /\ ~Has("crash", "failed") -> "teardown error"
       [] OTHER ->
          CASE Has("setup", "failed") -> "setup error"
            [] Has("call", "failed") -> "failed"
            [] Has("call", "passed") -> IF Expected THEN "xpassed" ELSE "passed"
            [] Has("call", "skipped") /\ Expected -> "xfailed"
            [] OTHER -> "skipped"

Over(t) == \E report \in attempt[t] : report.when \in {"teardown", "crash"}

Underway(t) == attempt[t] # {} /\ ~Over(t)

Begin(t, report) ==
  /\ report.when = "setup" /\ ~Underway(t)
  /\ attempt' = [attempt EXCEPT ![t] = {report}]
  /\ UNCHANGED outcome

Continue(t, report) ==
  /\ report.when = "call" /\ Underway(t)
  /\ attempt' = [attempt EXCEPT ![t] = @ \cup {report}]
  /\ UNCHANGED outcome

\* A crash also ends a test that has not begun, or whose attempt just ended.
End(t, report) ==
  /\ report.when = "crash" \/ (report.when = "teardown" /\ Underway(t))
  /\ attempt' = [attempt EXCEPT ![t] = @ \cup {report}]
  /\ outcome' = [outcome EXCEPT ![t] = Verdict(attempt[t] \cup {report})]

Next ==
  \E t \in Tests, report \in Reports :
    Begin(t, report) \/ Continue(t, report) \/ End(t, report)

Spec == Init /\ [][Next]_recordingVars
=============================================================================
