-------------------------- MODULE IsolatedBatchMC --------------------------
EXTENDS IsolatedBatch

CONSTANTS a1, a2, b1, A, B

\* The tests of a module need not be neighbours in the run.
MCOrder == <<a1, b1, a2>>
MCBatchOf == [t \in {a1, a2, b1} |-> IF t = b1 THEN B ELSE A]

Passed(when) == Report(when, "passed", FALSE)
Failed(when) == Report(when, "failed", FALSE)

MCChildReports ==
  {<<Passed("setup"), Passed("call"), Passed("teardown")>>,
   <<Passed("setup"), Failed("call"), Passed("teardown")>>,
   <<Failed("setup"), Passed("teardown")>>}

MCCutReports == {<<Passed("setup")>>}
=============================================================================
