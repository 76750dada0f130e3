-------------------------- MODULE WorkerReportsMC --------------------------
EXTENDS WorkerReports

\* The phases that pass or fail.  The other results, skips and those of tests
\* expected to fail, take the same way through the recorder; the outcomes they
\* lead to are told apart in MigrationLoop.
MCReports ==
  {Report(when, result, FALSE) :
     when \in {"setup", "call", "teardown"}, result \in {"passed", "failed"}}
=============================================================================
