--------------------------- MODULE OutcomeRecord ---------------------------
(***************************************************************************)
(* The recorder of one session (handle_logreport in record.py): reports in,*)
(* at most one outcome per test out.  It is driven by what delivers the    *)
(* reports: xdist workers (WorkerReports) or replayed isolated batches     *)
(* (IsolatedBatch).                                                        *)
(***************************************************************************)
EXTENDS Outcomes

CONSTANT Tests

VARIABLES
  accumulators,   \* of tests whose terminal report is outstanding
  outcomes        \* finalized outcomes, "none" before

recordVars == <<accumulators, outcomes>>

RecordTypeOK ==
  /\ accumulators \in [Tests -> Accumulator]
  /\ outcomes \in [Tests -> OutcomeValues \cup {"none"}]

RecordInit ==
  /\ accumulators = [t \in Tests |-> NoAccumulator]
  /\ outcomes = [t \in Tests |-> "none"]

\* Mutant: the outcome follows every report, not the last one alone.
HandleLogreportEarly(t, report) ==
  LET node == Accumulate(accumulators[t], report) IN
  /\ accumulators' = [accumulators EXCEPT ![t] =
       IF report.when \in {"setup", "call"} THEN node ELSE NoAccumulator]
  /\ outcomes' = [outcomes EXCEPT ![t] = Finalize(node)]

\* Mutant: only a teardown ends its test.
HandleLogreportAtTeardown(t, report) ==
  LET node == Accumulate(accumulators[t], report) IN
  IF report.when # "teardown"
  THEN /\ accumulators' = [accumulators EXCEPT ![t] = node]
       /\ UNCHANGED outcomes
  ELSE /\ accumulators' = [accumulators EXCEPT ![t] = NoAccumulator]
       /\ outcomes' = [outcomes EXCEPT ![t] = Finalize(node)]

\* Any report that is not of a setup or call ends its test.
HandleLogreport(t, report) ==
  LET node == Accumulate(accumulators[t], report) IN
  IF report.when \in {"setup", "call"}
  THEN /\ accumulators' = [accumulators EXCEPT ![t] = node]
       /\ UNCHANGED outcomes
  ELSE /\ accumulators' = [accumulators EXCEPT ![t] = NoAccumulator]
       /\ outcomes' = [outcomes EXCEPT ![t] = Finalize(node)]
=============================================================================
