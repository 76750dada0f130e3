--------------------------- MODULE IsolatedBatch ---------------------------
(***************************************************************************)
(* Tests marked airflow_isolated (isolated.py, isolated_child.py): the     *)
(* tests of a batch run in one child pytest, started when the first of     *)
(* them is due, and the parent replays the reports the child wrote when    *)
(* each of them is due.  A batch that fails as a whole fails each test.    *)
(*                                                                         *)
(* The child is a pytest session of its own, external to this code: it     *)
(* writes its envelope at session finish, may exit without, be cut short   *)
(* by pytest.exit, hang, or be killed at the timeout.                      *)
(***************************************************************************)
EXTENDS OutcomeRecord, Naturals, Sequences

CONSTANTS
  Order,         \* the tests of the session, in run order
  Batches,
  BatchOf,       \* the batch of each test (one module and one payload)
  ChildReports,  \* what a child may write about a test it ran to its end
  CutReports     \* what it may write about a test pytest.exit cut short

BatchAssumption ==
  /\ Order \in Seq(Tests)
  /\ BatchOf \in [Tests -> Batches]
  /\ ChildReports \subseteq Seq(Reports) /\ CutReports \subseteq Seq(Reports)

\* What the child writes of a test includes its end.
Terminal(report) == report.when \notin {"setup", "call"}
Ends(s) == \E i \in 1..Len(s) : Terminal(s[i])
ReportsEnd ==
  \A s \in ChildReports \cup CutReports : s \in Seq(Reports) /\ Ends(s)

\* Or even the one whole protocol pytest runs of it: setup, call and teardown,
\* the call being left out if the setup did not pass.
WholeProtocol(s) ==
  /\ s \in Seq(Reports) /\ Len(s) \in {2, 3}
  /\ s[1].when = "setup" /\ s[Len(s)].when = "teardown"
  /\ Len(s) = 3 => s[2].when = "call"
ProtocolsAreWhole == \A s \in ChildReports \cup CutReports : WholeProtocol(s)

VARIABLES
  due,       \* index of the test whose protocol runs
  step,
  started,   \* batches whose child was started, or could not be
  failure,   \* batches that failed as a whole
  reports,   \* decoded reports of each test
  replayed,  \* how many reports of the due test were replayed
  child,     \* the child of each batch
  envelope,  \* the reports in each batch's envelope, NoEnvelope before
  complete   \* the recording is stamped complete

batchVars == <<started, failure, reports>>
childVars == <<child, envelope>>
sessionVars == <<recordVars, due, step, batchVars, replayed, childVars, complete>>

\* A failed call and a passed teardown.
SynthesizedFailure == <<Report("call", "failed", FALSE), Report("teardown", "passed", FALSE)>>

Unfinished == {"running", "writing"}
NormalExits == {"exit0", "exit1"}
NoEnvelope == [t \in Tests |-> <<Report("crash", "skipped", FALSE)>>]

BatchTypeOK ==
  /\ RecordTypeOK
  /\ due \in 1..Len(Order) + 1
  /\ step \in {"protocol", "wait", "exited", "replay", "teardown", "stopped", "interrupted"}
  /\ started \subseteq Batches
  /\ failure \subseteq started
  /\ reports \in [Tests -> Seq(Reports)]
  /\ replayed \in Nat
  /\ child \in [Batches -> {"none", "killed", "exited"} \cup Unfinished \cup NormalExits]
  /\ \A b \in Batches : envelope[b] \in [Tests -> Seq(Reports)]
  /\ complete \in BOOLEAN

BatchInit ==
  /\ RecordInit
  /\ due = 1
  /\ step = "protocol"
  /\ started = {}
  /\ failure = {}
  /\ reports = [t \in Tests |-> <<>>]
  /\ replayed = 0
  /\ child = [b \in Batches |-> "none"]
  /\ envelope = [b \in Batches |-> NoEnvelope]
  /\ complete = FALSE

StepTo(from, to) == step = from /\ step' = to

Test == Order[due]
Batch == BatchOf[Test]

-----------------------------------------------------------------------------
(* _run_batch *)

RunBatch ==
  /\ due <= Len(Order) /\ Batch \notin started
  /\ StepTo("protocol", "wait")
  /\ started' = started \cup {Batch}
  /\ child' = [child EXCEPT ![Batch] = "running"]
  /\ UNCHANGED <<recordVars, due, failure, reports, replayed, envelope, complete>>

\* The synthetic distribution cannot be written.
BuildFails ==
  /\ due <= Len(Order) /\ Batch \notin started
  /\ StepTo("protocol", "replay")
  /\ started' = started \cup {Batch}
  /\ failure' = failure \cup {Batch}
  /\ UNCHANGED <<recordVars, due, reports, replayed, childVars, complete>>

\* The batch ran when an earlier test was due.
BatchHasRun ==
  /\ due <= Len(Order) /\ Batch \in started
  /\ StepTo("protocol", "replay")
  /\ UNCHANGED <<recordVars, due, batchVars, replayed, childVars, complete>>

ChildExits ==
  /\ step = "wait" /\ child[Batch] \notin Unfinished
  /\ step' = "exited"
  /\ UNCHANGED <<recordVars, due, batchVars, replayed, childVars, complete>>

\* Mutant: the wait has no timeout.
TimeoutNever ==
  /\ StepTo("wait", "replay")
  /\ child[Batch] \notin Unfinished
  /\ failure' = failure \cup {Batch}
  /\ UNCHANGED <<recordVars, due, started, reports, replayed, childVars, complete>>

\* The child may have written its envelope, or exited, just before the kill.
TimeoutExpires ==
  /\ StepTo("wait", "replay")
  /\ child' = [child EXCEPT ![Batch] = IF @ \in Unfinished THEN "killed" ELSE @]
  /\ failure' = failure \cup {Batch}
  /\ UNCHANGED <<recordVars, due, started, reports, replayed, envelope, complete>>

\* Mutant: the envelope of a child that exited abnormally is used.
AbnormalExitUsed ==
  /\ StepTo("exited", "replay")
  /\ child[Batch] \notin NormalExits
  /\ reports' = [t \in Tests |-> IF BatchOf[t] = Batch THEN envelope[Batch][t] ELSE reports[t]]
  /\ UNCHANGED <<recordVars, due, started, failure, replayed, childVars, complete>>

AbnormalExit ==
  /\ StepTo("exited", "replay")
  /\ child[Batch] \notin NormalExits
  /\ failure' = failure \cup {Batch}
  /\ UNCHANGED <<recordVars, due, started, reports, replayed, childVars, complete>>

Undecodable ==
  /\ StepTo("exited", "replay")
  /\ child[Batch] \in NormalExits /\ envelope[Batch] = NoEnvelope
  /\ failure' = failure \cup {Batch}
  /\ UNCHANGED <<recordVars, due, started, reports, replayed, childVars, complete>>

Decode ==
  /\ StepTo("exited", "replay")
  /\ child[Batch] \in NormalExits /\ envelope[Batch] # NoEnvelope
  /\ reports' = [t \in Tests |-> IF BatchOf[t] = Batch THEN envelope[Batch][t] ELSE reports[t]]
  /\ UNCHANGED <<recordVars, due, started, failure, replayed, childVars, complete>>

-----------------------------------------------------------------------------
(* _replay_item *)

Replay(t) ==
  IF BatchOf[t] \in failure \/ reports[t] = <<>> THEN SynthesizedFailure ELSE reports[t]

ReplayReport ==
  /\ step = "replay" /\ replayed < Len(Replay(Test))
  /\ HandleLogreport(Test, Replay(Test)[replayed + 1])
  /\ replayed' = replayed + 1
  /\ UNCHANGED <<due, step, batchVars, childVars, complete>>

ReplayEnds ==
  /\ StepTo("replay", "teardown")
  /\ replayed = Len(Replay(Test))
  /\ UNCHANGED <<recordVars, due, batchVars, replayed, childVars, complete>>

NextTest ==
  /\ StepTo("teardown", "protocol")
  /\ due' = due + 1
  /\ replayed' = 0

TeardownOfOthers ==
  /\ NextTest
  /\ UNCHANGED <<recordVars, batchVars, childVars, complete>>

\* What an earlier test set up fails to be torn down: one more report.
TeardownOfOthersFails ==
  /\ NextTest
  /\ HandleLogreport(Test, Report("teardown", "failed", FALSE))
  /\ UNCHANGED <<batchVars, childVars, complete>>

\* The last test, or `-x` and its like: the session ends of itself.
StopSession ==
  /\ due > Len(Order) \/ due > 1
  /\ StepTo("protocol", "stopped")
  /\ complete' = TRUE
  /\ UNCHANGED <<recordVars, due, batchVars, replayed, childVars>>

\* KeyboardInterrupt.
Interrupt ==
  /\ step \notin {"stopped", "interrupted"}
  /\ step' = "interrupted"
  /\ UNCHANGED <<recordVars, due, batchVars, replayed, childVars, complete>>

-----------------------------------------------------------------------------
(* The child of a batch *)

\* At session finish, whether it ran all its tests, was stopped between two of
\* them, or was cut short within one.
WriteEnvelope(b) ==
  /\ child[b] = "running"
  /\ child' = [child EXCEPT ![b] = "writing"]
  /\ \E written \in [Tests -> ChildReports \cup CutReports \cup {<<>>}] :
       /\ \A t \in Tests : BatchOf[t] # b => written[t] = <<>>
       /\ envelope' = [envelope EXCEPT ![b] = written]
  /\ UNCHANGED <<recordVars, due, step, batchVars, replayed, complete>>

\* With the status of its session, or another one.
Exit(b) ==
  /\ child[b] \in Unfinished
  /\ \E status \in NormalExits \cup {"exited"} : child' = [child EXCEPT ![b] = status]
  /\ UNCHANGED <<recordVars, due, step, batchVars, replayed, envelope, complete>>

-----------------------------------------------------------------------------
Protocol ==
  \/ RunBatch \/ BuildFails \/ BatchHasRun
  \/ ChildExits \/ TimeoutExpires \/ AbnormalExit \/ Undecodable \/ Decode
  \/ ReplayReport \/ ReplayEnds \/ TeardownOfOthers \/ TeardownOfOthersFails
  \/ StopSession

Child(b) == WriteEnvelope(b) \/ Exit(b)

BatchNext == Protocol \/ Interrupt \/ \E b \in Batches : Child(b)

BatchSpec == BatchInit /\ [][BatchNext]_sessionVars

\* The parent goes on, and its timeouts expire; children need not do anything.
FairBatchSpec == BatchSpec /\ WF_sessionVars(Protocol)

-----------------------------------------------------------------------------
(* Properties *)

Done(t) == \E i \in 1..Len(Order) : Order[i] = t /\ i < due

\* While reports are replayed no child is left, and there never were two
\* (_run_batch); only an interrupt leaves one behind.
ChildrenReaped ==
  \A b \in Batches : child[b] \in Unfinished =>
    \/ step = "interrupted"
    \/ step = "wait" /\ b = Batch

\* A pass is what a child that exited normally wrote: that the call passed and no
\* phase failed, whatever became of the other tests and batches (_run_batch,
\* _replay_item).
PassesAreReal ==
  \A t \in Tests : outcomes[t] = "passed" =>
    LET written == envelope[BatchOf[t]][t] IN
    /\ child[BatchOf[t]] \in NormalExits
    /\ \A i \in DOMAIN written : written[i].result # "failed"
    /\ \E i \in DOMAIN written : written[i].when = "call" /\ written[i].result = "passed"

\* "The --airflow-record accumulator only finalizes a nodeid on a terminal
\* report, so a lone call failure would dangle forever and silently vanish from
\* an artifact stamped complete" (_synthesized_failure in isolated.py): no test
\* whose protocol was claimed vanishes.
NothingVanishes ==
  complete => \A t \in Tests : Done(t) => outcomes[t] # "none"

\* No child outlives its batch, the outcome of an isolated test is what its child
\* really did, and no test is missing from a recording stamped complete
\* (_run_batch, _replay_item).
BatchesSound == BatchTypeOK /\ ChildrenReaped /\ PassesAreReal /\ NothingVanishes

\* The session ends, whatever its children do.
SessionEnds == <>(step \in {"stopped", "interrupted"})
=============================================================================
