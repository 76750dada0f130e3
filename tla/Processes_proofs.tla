-------------------------- MODULE Processes_proofs --------------------------
(***************************************************************************)
(* Proofs about those who start processes of their own and wait for them: the *)
(* session with its isolated batches (IsolatedBatch), a worker with its API *)
(* server (ApiServer).                                                     *)
(***************************************************************************)
EXTENDS IsolatedBatch, ApiServer, TLAPS

-----------------------------------------------------------------------------
(***************************************************************************)
(* IsolatedBatch                                                           *)
(*                                                                         *)
(* No child outlives its batch, and no isolated test vanishes from the     *)
(* recording as long as a child reports the end of every test it reports   *)
(* at all; if it reports the one whole protocol of each, passes are real.  *)
(* For every session and every assignment of its tests to batches.         *)
(***************************************************************************)

EndedReports == {s \in Seq(Reports) : s = <<>> \/ Ends(s)}

\* The part of the type invariant the argument needs.
PlaceInv ==
  /\ due \in 1..Len(Order) + 1
  /\ step \in {"wait", "exited", "replay", "teardown"} => due \in 1..Len(Order)
  /\ child \in [Batches -> {"none", "killed", "exited"} \cup Unfinished \cup NormalExits]
  /\ replayed \in Nat
  /\ step \in {"protocol", "wait", "exited"} => replayed = 0

ReportsInv ==
  /\ reports \in [Tests -> EndedReports]
  /\ envelope \in [Batches -> [Tests -> EndedReports]]

\* A child was started with its batch, and ran until the wait for it was over.
ChildInv ==
  \A b \in Batches :
    /\ b \notin started => child[b] = "none"
    /\ child[b] \in Unfinished => step = "interrupted" \/ (step = "wait" /\ b = Batch)

OutcomeInv ==
  /\ accumulators \in [Tests -> Accumulator]
  /\ outcomes \in [Tests -> OutcomeValues \cup {"none"}]
  /\ \A t \in Tests : Done(t) => outcomes[t] # "none"
  /\ \A i \in 1..Len(Replay(Test)) :
       step = "replay" /\ i <= replayed /\ Terminal(Replay(Test)[i]) => outcomes[Test] # "none"
  /\ step = "teardown" => outcomes[Test] # "none"

-----------------------------------------------------------------------------
(* The recorder *)

LEMMA AccumulateTyped ==
  ASSUME NEW node \in Accumulator, NEW report \in Reports
  PROVE  Accumulate(node, report) \in Accumulator
<1>. USE DEF Accumulator, Accumulate, Reports, Results
<1>1. CASE report.when = "setup"
  <2>1. (report.result = "failed") \in BOOLEAN OBVIOUS
  <2>. QED BY <1>1, <2>1
<1>2. CASE report.when = "call" BY <1>2
<1>3. CASE report.when = "teardown"
  <2>1. (report.result = "failed") \in BOOLEAN OBVIOUS
  <2>. QED BY <1>3, <2>1
<1>4. CASE report.when = "crash" BY <1>4
<1>. QED BY <1>1, <1>2, <1>3, <1>4

LEMMA FinalizeTyped ==
  ASSUME NEW node \in Accumulator
  PROVE  Finalize(node) \in OutcomeValues
<1>1. node.call \in {"none", "passed", "failed", "skipped"} BY DEF Accumulator, Results
<1>. QED BY <1>1 DEF Finalize, OutcomeValues

\* A report is taken in: outcomes stay, and a terminal report brings one.
LEMMA Handled ==
  ASSUME accumulators \in [Tests -> Accumulator],
         outcomes \in [Tests -> OutcomeValues \cup {"none"}],
         NEW t \in Tests, NEW report \in Reports, HandleLogreport(t, report)
  PROVE  /\ accumulators' \in [Tests -> Accumulator]
         /\ outcomes' \in [Tests -> OutcomeValues \cup {"none"}]
         /\ Terminal(report) => outcomes'[t] # "none"
         /\ \A u \in Tests : outcomes[u] # "none" => outcomes'[u] # "none"
<1>. DEFINE node == Accumulate(accumulators[t], report)
<1>1. node \in Accumulator BY AccumulateTyped
<1>2. Finalize(node) \in OutcomeValues /\ Finalize(node) # "none"
  BY <1>1, FinalizeTyped DEF OutcomeValues
<1>3. NoAccumulator \in Accumulator BY DEF NoAccumulator, Accumulator
<1>4. CASE report.when \in {"setup", "call"}
  <2>1. accumulators' = [accumulators EXCEPT ![t] = node] /\ outcomes' = outcomes
    BY <1>4 DEF HandleLogreport
  <2>. HIDE DEF node
  <2>. QED BY <1>1, <1>4, <2>1 DEF Terminal
<1>5. CASE report.when \notin {"setup", "call"}
  <2>1. /\ accumulators' = [accumulators EXCEPT ![t] = NoAccumulator]
        /\ outcomes' = [outcomes EXCEPT ![t] = Finalize(node)]
    BY <1>5 DEF HandleLogreport
  <2>. HIDE DEF node
  <2>. QED BY <1>2, <1>3, <2>1
<1>. QED BY <1>4, <1>5

-----------------------------------------------------------------------------
(* Where the session is *)

LEMMA DueTest ==
  ASSUME BatchAssumption, due \in 1..Len(Order)
  PROVE  Test \in Tests /\ Batch \in Batches
BY DEF BatchAssumption, Test, Batch

LEMMA NextPlace ==
  ASSUME BatchAssumption, PlaceInv, [BatchNext]_sessionVars
  PROVE  PlaceInv'
<1>. Len(Order) \in Nat BY DEF BatchAssumption
<1>. USE DEF PlaceInv, StepTo, Unfinished, NormalExits, childVars, batchVars
<1>1. CASE RunBatch
  <2>1. due \in 1..Len(Order) BY <1>1 DEF RunBatch
  <2>. DEFINE b == Batch
  <2>2. child' = [child EXCEPT ![b] = "running"] BY <1>1 DEF RunBatch
  <2>. HIDE DEF b
  <2>3. child' \in [Batches -> {"none", "killed", "exited"} \cup Unfinished \cup NormalExits]
    BY <2>2
  <2>. QED BY <1>1, <2>1, <2>3 DEF RunBatch
<1>2. CASE BuildFails BY <1>2 DEF BuildFails
<1>3. CASE BatchHasRun BY <1>3 DEF BatchHasRun
<1>4. CASE ChildExits BY <1>4 DEF ChildExits
<1>5. CASE TimeoutExpires BY <1>5 DEF TimeoutExpires
<1>6. CASE AbnormalExit BY <1>6 DEF AbnormalExit
<1>7. CASE Undecodable BY <1>7 DEF Undecodable
<1>8. CASE Decode BY <1>8 DEF Decode
<1>9. CASE ReplayReport BY <1>9 DEF ReplayReport
<1>10. CASE ReplayEnds BY <1>10 DEF ReplayEnds
<1>11. CASE TeardownOfOthers BY <1>11 DEF TeardownOfOthers, NextTest
<1>12. CASE TeardownOfOthersFails BY <1>12 DEF TeardownOfOthersFails, NextTest
<1>13. CASE StopSession BY <1>13 DEF StopSession
<1>14. CASE Interrupt BY <1>14 DEF Interrupt
<1>15. ASSUME NEW b \in Batches, WriteEnvelope(b) PROVE PlaceInv'
  BY <1>15 DEF WriteEnvelope
<1>16. ASSUME NEW b \in Batches, Exit(b) PROVE PlaceInv'
  BY <1>16 DEF Exit
<1>17. CASE UNCHANGED sessionVars BY <1>17 DEF sessionVars
<1>. QED
  BY <1>1, <1>2, <1>3, <1>4, <1>5, <1>6, <1>7, <1>8, <1>9, <1>10, <1>11, <1>12, <1>13,
     <1>14, <1>15, <1>16, <1>17 DEF BatchNext, Protocol, Child

LEMMA NextReports ==
  ASSUME BatchAssumption, ReportsEnd, PlaceInv, ReportsInv, [BatchNext]_sessionVars
  PROVE  ReportsInv'
<1>1. CASE Decode
  <2>1. Batch \in Batches BY <1>1, DueTest DEF Decode, StepTo, PlaceInv
  <2>. DEFINE b == Batch
  <2>2. envelope[b] \in [Tests -> EndedReports] BY <2>1 DEF ReportsInv
  <2>3. /\ reports' = [t \in Tests |-> IF BatchOf[t] = b THEN envelope[b][t] ELSE reports[t]]
        /\ envelope' = envelope
    BY <1>1 DEF Decode, childVars
  <2>. HIDE DEF b
  <2>. QED BY <2>2, <2>3 DEF ReportsInv
<1>2. ASSUME NEW b \in Batches, WriteEnvelope(b) PROVE ReportsInv'
  <2>1. PICK written \in [Tests -> ChildReports \cup CutReports \cup {<<>>}] :
          envelope' = [envelope EXCEPT ![b] = written]
    BY <1>2 DEF WriteEnvelope
  <2>2. ChildReports \cup CutReports \cup {<<>>} \subseteq EndedReports
    <3>1. <<>> \in EndedReports BY DEF EndedReports
    <3>2. ASSUME NEW s \in ChildReports \cup CutReports PROVE s \in EndedReports
      BY DEF ReportsEnd, EndedReports
    <3>. QED BY <3>1, <3>2
  <2>3. written \in [Tests -> EndedReports] BY <2>2
  <2>. QED BY <1>2, <2>1, <2>3 DEF WriteEnvelope, batchVars, ReportsInv
<1>3. CASE UNCHANGED <<reports, envelope>> BY <1>3 DEF ReportsInv
<1>. QED
  BY <1>1, <1>2, <1>3
  DEF BatchNext, Protocol, Child, sessionVars, batchVars, childVars,
      RunBatch, BuildFails, BatchHasRun,
      ChildExits, TimeoutExpires, AbnormalExit, Undecodable, ReplayReport, ReplayEnds,
      TeardownOfOthers, TeardownOfOthersFails, StopSession, Interrupt, Exit

-----------------------------------------------------------------------------
(* Children *)

LEMMA NextChild ==
  ASSUME BatchAssumption, PlaceInv, ChildInv, [BatchNext]_sessionVars
  PROVE  ChildInv'
<1>. USE DEF ChildInv, StepTo, Unfinished, NormalExits
<1>1. CASE RunBatch
  <2>1. due' = due /\ Batch \in Batches
    <3>1. due \in 1..Len(Order) BY <1>1 DEF RunBatch, PlaceInv, BatchAssumption
    <3>. QED BY <1>1, <3>1, DueTest DEF RunBatch
  <2>2. Batch' = Batch BY <2>1 DEF Batch, Test
  <2>. QED BY <1>1, <2>1, <2>2 DEF RunBatch, PlaceInv
<1>2. CASE BuildFails BY <1>2 DEF BuildFails, childVars
<1>3. CASE BatchHasRun BY <1>3 DEF BatchHasRun, childVars, batchVars
<1>4. CASE ChildExits BY <1>4 DEF ChildExits, childVars, batchVars
<1>5. CASE TimeoutExpires
  <2>1. Batch \in Batches BY <1>5, DueTest DEF TimeoutExpires, PlaceInv
  <2>. QED BY <1>5, <2>1 DEF TimeoutExpires, PlaceInv
<1>6. CASE AbnormalExit BY <1>6 DEF AbnormalExit, childVars
<1>7. CASE Undecodable BY <1>7 DEF Undecodable, childVars
<1>8. CASE Decode BY <1>8 DEF Decode, childVars
<1>9. CASE ReplayReport BY <1>9 DEF ReplayReport, childVars, batchVars
<1>10. CASE ReplayEnds BY <1>10 DEF ReplayEnds, childVars, batchVars
<1>11. CASE TeardownOfOthers BY <1>11 DEF TeardownOfOthers, NextTest, childVars, batchVars
<1>12. CASE TeardownOfOthersFails
  BY <1>12 DEF TeardownOfOthersFails, NextTest, childVars, batchVars
<1>13. CASE StopSession BY <1>13 DEF StopSession, childVars, batchVars
<1>14. CASE Interrupt BY <1>14 DEF Interrupt, childVars, batchVars
<1>15. ASSUME NEW b \in Batches, WriteEnvelope(b) \/ Exit(b) PROVE ChildInv'
  <2>1. UNCHANGED <<due, step, started>> BY <1>15 DEF WriteEnvelope, Exit, batchVars
  <2>2. Batch' = Batch BY <2>1 DEF Batch, Test
  <2>3. child[b] \in Unfinished BY <1>15 DEF WriteEnvelope, Exit
  <2>4. b \in started /\ (step = "interrupted" \/ (step = "wait" /\ b = Batch)) BY <2>3
  <2>5. \A c \in Batches \ {b} : child'[c] = child[c]
    BY <1>15 DEF WriteEnvelope, Exit, PlaceInv
  <2>. QED BY <2>1, <2>2, <2>4, <2>5
<1>16. CASE UNCHANGED sessionVars BY <1>16 DEF sessionVars, childVars, batchVars, Batch, Test
<1>. QED
  BY <1>1, <1>2, <1>3, <1>4, <1>5, <1>6, <1>7, <1>8, <1>9, <1>10, <1>11, <1>12, <1>13,
     <1>14, <1>15, <1>16 DEF BatchNext, Protocol, Child

-----------------------------------------------------------------------------
(* Outcomes *)

\* Whatever is replayed for a test includes its end.
LEMMA ReplayEnded ==
  ASSUME ReportsInv, NEW t \in Tests
  PROVE  Replay(t) \in Seq(Reports) /\ Ends(Replay(t))
<1>1. CASE BatchOf[t] \in failure \/ reports[t] = <<>>
  <2>1. Replay(t) = SynthesizedFailure BY <1>1 DEF Replay
  <2>2. SynthesizedFailure \in Seq(Reports)
    BY DEF SynthesizedFailure, Report, Reports, Results
  <2>3. 2 \in 1..Len(SynthesizedFailure) /\ Terminal(SynthesizedFailure[2])
    BY DEF SynthesizedFailure, Report, Terminal
  <2>. QED BY <2>1, <2>2, <2>3 DEF Ends
<1>2. CASE ~(BatchOf[t] \in failure \/ reports[t] = <<>>)
  BY <1>2 DEF Replay, ReportsInv, EndedReports
<1>. QED BY <1>1, <1>2

\* A step that touches neither the recording nor what is being replayed.
LEMMA OutcomesStay ==
  ASSUME OutcomeInv, UNCHANGED <<accumulators, outcomes, due, replayed, reports, failure>>,
         step' \in {"replay", "teardown"} => step' = step
  PROVE  OutcomeInv'
BY DEF OutcomeInv, Done, Replay, Test

\* Nothing was replayed yet.
LEMMA ReplayBegins ==
  ASSUME OutcomeInv, UNCHANGED <<accumulators, outcomes, due>>, replayed' = 0,
         step' # "teardown"
  PROVE  OutcomeInv'
<1>1. \A i \in 1..Len(Replay(Test))' : ~(i <= replayed') OBVIOUS
<1>. QED BY <1>1 DEF OutcomeInv, Done, Test

\* The next test is due: the previous one has its outcome.
LEMMA NextDue ==
  ASSUME BatchAssumption, PlaceInv, due \in 1..Len(Order), NextTest,
         accumulators' \in [Tests -> Accumulator],
         outcomes' \in [Tests -> OutcomeValues \cup {"none"}],
         \A t \in Tests : Done(t) \/ t = Test => outcomes'[t] # "none"
  PROVE  OutcomeInv'
<1>1. \A t \in Tests : Done(t)' => Done(t) \/ t = Test
  BY DEF Done, NextTest, Test, PlaceInv
<1>. QED BY <1>1 DEF OutcomeInv, NextTest, StepTo

LEMMA NextOutcome ==
  ASSUME BatchAssumption, PlaceInv, ReportsInv, OutcomeInv, [BatchNext]_sessionVars
  PROVE  OutcomeInv'
<1>. USE DEF StepTo, recordVars, batchVars, childVars
<1>1. CASE RunBatch BY <1>1, OutcomesStay DEF RunBatch
<1>2. CASE BuildFails \/ BatchHasRun
  BY <1>2, ReplayBegins DEF BuildFails, BatchHasRun, PlaceInv
<1>3. CASE ChildExits BY <1>3, OutcomesStay DEF ChildExits
<1>4. CASE TimeoutExpires \/ AbnormalExit \/ Undecodable \/ Decode
  BY <1>4, ReplayBegins DEF TimeoutExpires, AbnormalExit, Undecodable, Decode, PlaceInv
<1>5. CASE ReplayReport
  <2>. DEFINE report == Replay(Test)[replayed + 1]
  <2>1. Test \in Tests BY <1>5, DueTest DEF ReplayReport, PlaceInv
  <2>2. Replay(Test) \in Seq(Reports) BY <2>1, ReplayEnded
  <2>3. report \in Reports BY <1>5, <2>2 DEF ReplayReport, PlaceInv
  <2>4. HandleLogreport(Test, report) /\ UNCHANGED <<due, step, reports, failure>>
        /\ replayed' = replayed + 1 /\ step = "replay"
    BY <1>5 DEF ReplayReport
  <2>5. /\ accumulators' \in [Tests -> Accumulator]
        /\ outcomes' \in [Tests -> OutcomeValues \cup {"none"}]
        /\ Terminal(report) => outcomes'[Test] # "none"
        /\ \A u \in Tests : outcomes[u] # "none" => outcomes'[u] # "none"
    BY <2>1, <2>3, <2>4, Handled DEF OutcomeInv
  <2>6. Test' = Test /\ Replay(Test)' = Replay(Test) BY <2>4 DEF Test, Replay
  <2>7. \A t \in Tests : Done(t)' => outcomes'[t] # "none"
    BY <2>4, <2>5 DEF Done, OutcomeInv
  <2>8. ASSUME NEW i \in 1..Len(Replay(Test)), i <= replayed', Terminal(Replay(Test)[i])
        PROVE  outcomes'[Test] # "none"
    <3>1. CASE i = replayed + 1 BY <2>5, <2>8, <3>1
    <3>2. CASE i # replayed + 1
      <4>1. i <= replayed BY <2>4, <2>8, <3>2 DEF PlaceInv
      <4>. QED BY <2>1, <2>4, <2>5, <2>8, <4>1 DEF OutcomeInv
    <3>. QED BY <3>1, <3>2
  <2>. QED BY <2>4, <2>5, <2>6, <2>7, <2>8 DEF OutcomeInv
<1>6. CASE ReplayEnds
  <2>1. Test \in Tests BY <1>6, DueTest DEF ReplayEnds, PlaceInv
  <2>2. Replay(Test) \in Seq(Reports) /\ Ends(Replay(Test)) BY <2>1, ReplayEnded
  <2>3. PICK i \in 1..Len(Replay(Test)) : Terminal(Replay(Test)[i]) BY <2>2 DEF Ends
  <2>4. outcomes[Test] # "none" BY <1>6, <2>2, <2>3 DEF ReplayEnds, OutcomeInv
  <2>. QED BY <1>6, <2>4 DEF ReplayEnds, OutcomeInv, Done, Test
<1>7. CASE TeardownOfOthers
  BY <1>7, NextDue DEF TeardownOfOthers, NextTest, OutcomeInv, PlaceInv
<1>8. CASE TeardownOfOthersFails
  <2>. DEFINE report == Report("teardown", "failed", FALSE)
  <2>1. Test \in Tests /\ due \in 1..Len(Order)
    BY <1>8, DueTest DEF TeardownOfOthersFails, NextTest, PlaceInv
  <2>2. report \in Reports /\ Terminal(report) BY DEF Report, Reports, Results, Terminal
  <2>3. HandleLogreport(Test, report) /\ NextTest BY <1>8 DEF TeardownOfOthersFails
  <2>4. /\ accumulators' \in [Tests -> Accumulator]
        /\ outcomes' \in [Tests -> OutcomeValues \cup {"none"}]
        /\ outcomes'[Test] # "none"
        /\ \A u \in Tests : outcomes[u] # "none" => outcomes'[u] # "none"
    BY <2>1, <2>2, <2>3, Handled DEF OutcomeInv
  <2>. QED BY <2>1, <2>3, <2>4, NextDue DEF OutcomeInv
<1>9. CASE StopSession BY <1>9, OutcomesStay DEF StopSession
<1>10. CASE Interrupt BY <1>10, OutcomesStay DEF Interrupt
<1>11. ASSUME NEW b \in Batches, WriteEnvelope(b) \/ Exit(b) PROVE OutcomeInv'
  BY <1>11, OutcomesStay DEF WriteEnvelope, Exit
<1>12. CASE UNCHANGED sessionVars BY <1>12, OutcomesStay DEF sessionVars
<1>. QED
  BY <1>1, <1>2, <1>3, <1>4, <1>5, <1>6, <1>7, <1>8, <1>9, <1>10, <1>11, <1>12
  DEF BatchNext, Protocol, Child

-----------------------------------------------------------------------------
\* The whole invariant of a session in which no test is cut short.
THEOREM Consistent ==
  ASSUME BatchAssumption, ReportsEnd
  PROVE  BatchSpec => [](PlaceInv /\ ReportsInv /\ ChildInv /\ OutcomeInv)
<1>1. BatchInit => PlaceInv /\ ReportsInv /\ ChildInv /\ OutcomeInv
  <2>. SUFFICES ASSUME BatchInit PROVE PlaceInv /\ ReportsInv /\ ChildInv /\ OutcomeInv OBVIOUS
  <2>1. PlaceInv
    <3>. Len(Order) \in Nat BY DEF BatchAssumption
    <3>. QED BY DEF BatchInit, PlaceInv
  <2>2. ReportsInv
    <3>1. <<>> \in EndedReports BY DEF EndedReports
    <3>. DEFINE crash == Report("crash", "skipped", FALSE)
    <3>2. crash \in Reports /\ Terminal(crash) BY DEF Report, Reports, Results, Terminal
    <3>. HIDE DEF crash
    <3>3. <<crash>> \in Seq(Reports) /\ Len(<<crash>>) = 1 /\ <<crash>>[1] = crash BY <3>2
    <3>4. <<crash>> \in EndedReports BY <3>2, <3>3 DEF EndedReports, Ends
    <3>5. NoEnvelope = [t \in Tests |-> <<crash>>] BY DEF NoEnvelope, crash
    <3>. QED BY <3>1, <3>4, <3>5 DEF BatchInit, ReportsInv
  <2>3. ChildInv BY DEF BatchInit, ChildInv, Unfinished
  <2>4. OutcomeInv
    <3>1. NoAccumulator \in Accumulator BY DEF NoAccumulator, Accumulator
    <3>2. \A t \in Tests : ~Done(t) BY DEF BatchInit, Done
    <3>. QED BY <3>1, <3>2 DEF BatchInit, RecordInit, OutcomeInv
  <2>. QED BY <2>1, <2>2, <2>3, <2>4
<1>2. PlaceInv /\ ReportsInv /\ ChildInv /\ OutcomeInv /\ [BatchNext]_sessionVars
        => (PlaceInv /\ ReportsInv /\ ChildInv /\ OutcomeInv)'
  BY NextPlace, NextReports, NextChild, NextOutcome
<1>. QED BY <1>1, <1>2, PTL DEF BatchSpec

\* While reports are replayed no child is left, and there never are two (_run_batch).
THEOREM ChildrenAreReaped ==
  ASSUME BatchAssumption, ReportsEnd
  PROVE  BatchSpec => []ChildrenReaped
<1>1. ChildInv => ChildrenReaped BY DEF ChildInv, ChildrenReaped
<1>. QED BY <1>1, Consistent, PTL

\* No test whose protocol was claimed vanishes from the recording, if what a child
\* reports of a test includes its end (_synthesized_failure, _replay_item).
THEOREM NoTestVanishes ==
  ASSUME BatchAssumption, ReportsEnd
  PROVE  BatchSpec => []NothingVanishes
<1>1. OutcomeInv => NothingVanishes BY DEF OutcomeInv, NothingVanishes
<1>. QED BY <1>1, Consistent, PTL

-----------------------------------------------------------------------------
(* Passes are real *)

\* What the type invariant says beyond PlaceInv, ReportsInv and OutcomeInv.
StageInv ==
  /\ step \in {"protocol", "wait", "exited", "replay", "teardown", "stopped", "interrupted"}
  /\ step \in {"wait", "exited"} => Batch \in started
  /\ started \subseteq Batches
  /\ failure \subseteq started
  /\ complete \in BOOLEAN

WholeReports == {s \in Seq(Reports) : s = <<>> \/ WholeProtocol(s)}

\* Decoded reports are those of a child that exited normally, and whole protocols.
SourceInv ==
  /\ \A b \in Batches : envelope[b] = NoEnvelope \/ envelope[b] \in [Tests -> WholeReports]
  /\ \A t \in Tests : reports[t] # <<>> =>
       /\ WholeProtocol(reports[t])
       /\ child[BatchOf[t]] \in NormalExits
       /\ reports[t] = envelope[BatchOf[t]][t]

\* An accumulator holds what was replayed of the due test, or nothing.
OnlyDueInv ==
  \A t \in Tests : accumulators[t] # NoAccumulator =>
    step \in {"replay", "interrupted"} /\ due \in 1..Len(Order) /\ t = Test

\* What the accumulator node of a test knows of the first n reports of it.
Reflects(node, s, n) ==
  /\ n < Len(s) =>
       \A i \in 1..Len(s) : i <= n =>
         /\ s[i].when = "setup" /\ s[i].result = "failed" => node.setupFailed
         /\ s[i].when = "call" => node.call = s[i].result
  /\ node.call # "none" => \E i \in 1..Len(s) : i <= n /\ s[i].when = "call"

ReplayedInv ==
  step = "replay" =>
    /\ Reflects(accumulators[Test], Replay(Test), replayed)
    /\ replayed = Len(Replay(Test)) => accumulators[Test] = NoAccumulator

LEMMA NextStage ==
  ASSUME BatchAssumption, PlaceInv, StageInv, [BatchNext]_sessionVars
  PROVE  StageInv'
<1>. USE DEF StageInv, StepTo, batchVars, childVars
<1>1. CASE RunBatch
  <2>1. due \in 1..Len(Order) BY <1>1 DEF RunBatch, PlaceInv, BatchAssumption
  <2>2. Batch \in Batches BY <2>1, DueTest
  <2>3. Batch' = Batch BY <1>1 DEF RunBatch, Batch, Test
  <2>. QED BY <1>1, <2>2, <2>3 DEF RunBatch
<1>2. CASE BuildFails
  <2>1. due \in 1..Len(Order) BY <1>2 DEF BuildFails, PlaceInv, BatchAssumption
  <2>2. Batch \in Batches BY <2>1, DueTest
  <2>. QED BY <1>2, <2>2 DEF BuildFails
<1>3. CASE BatchHasRun BY <1>3 DEF BatchHasRun
<1>4. CASE ChildExits
  <2>1. Batch' = Batch BY <1>4 DEF ChildExits, Batch, Test
  <2>. QED BY <1>4, <2>1 DEF ChildExits
<1>5. CASE TimeoutExpires \/ AbnormalExit \/ Undecodable
  BY <1>5 DEF TimeoutExpires, AbnormalExit, Undecodable
<1>6. CASE Decode BY <1>6 DEF Decode
<1>7. CASE ReplayReport \/ ReplayEnds BY <1>7 DEF ReplayReport, ReplayEnds
<1>8. CASE TeardownOfOthers \/ TeardownOfOthersFails
  BY <1>8 DEF TeardownOfOthers, TeardownOfOthersFails, NextTest
<1>9. CASE StopSession \/ Interrupt BY <1>9 DEF StopSession, Interrupt
<1>10. ASSUME NEW b \in Batches, WriteEnvelope(b) \/ Exit(b) PROVE StageInv'
  <2>1. Batch' = Batch BY <1>10 DEF WriteEnvelope, Exit, Batch, Test
  <2>. QED BY <1>10, <2>1 DEF WriteEnvelope, Exit
<1>11. CASE UNCHANGED sessionVars
  <2>1. Batch' = Batch BY <1>11 DEF sessionVars, Batch, Test
  <2>. QED BY <1>11, <2>1 DEF sessionVars
<1>. QED
  BY <1>1, <1>2, <1>3, <1>4, <1>5, <1>6, <1>7, <1>8, <1>9, <1>10, <1>11
  DEF BatchNext, Protocol, Child

\* What a child that exited normally has written stays.
LEMMA ExitsStay ==
  ASSUME BatchAssumption, PlaceInv, ReportsInv, ChildInv, [BatchNext]_sessionVars,
         NEW b \in Batches, child[b] \in NormalExits
  PROVE  child'[b] = child[b] /\ envelope'[b] = envelope[b]
<1>. USE DEF ChildInv, PlaceInv, ReportsInv, Unfinished, NormalExits, childVars
<1>1. CASE RunBatch
  <2>. DEFINE c == Batch
  <2>1. /\ child' = [child EXCEPT ![c] = "running"] /\ envelope' = envelope
        /\ c \notin started
    BY <1>1 DEF RunBatch
  <2>2. b # c BY <2>1
  <2>. QED BY <2>1, <2>2
<1>2. CASE TimeoutExpires
  <2>. DEFINE c == Batch
  <2>1. /\ child' = [child EXCEPT ![c] = IF @ \in Unfinished THEN "killed" ELSE @]
        /\ envelope' = envelope
    BY <1>2 DEF TimeoutExpires
  <2>. QED BY <2>1
<1>3. ASSUME NEW c \in Batches, WriteEnvelope(c) \/ Exit(c)
      PROVE  child'[b] = child[b] /\ envelope'[b] = envelope[b]
  <2>1. b # c BY <1>3 DEF WriteEnvelope, Exit
  <2>. QED BY <1>3, <2>1 DEF WriteEnvelope, Exit
<1>4. CASE UNCHANGED childVars BY <1>4
<1>. QED
  BY <1>1, <1>2, <1>3, <1>4
  DEF BatchNext, Protocol, Child, sessionVars, BuildFails, BatchHasRun, ChildExits, AbnormalExit,
      Undecodable, Decode, ReplayReport, ReplayEnds, TeardownOfOthers,
      TeardownOfOthersFails, StopSession, Interrupt

LEMMA NextSource ==
  ASSUME BatchAssumption, ProtocolsAreWhole, PlaceInv, ReportsInv, ChildInv, SourceInv,
         [BatchNext]_sessionVars
  PROVE  SourceInv'
<1>1. \A t \in Tests : BatchOf[t] \in Batches BY DEF BatchAssumption
<1>2. ASSUME reports' = reports PROVE \A t \in Tests : reports'[t] # <<>> =>
        /\ WholeProtocol(reports'[t])
        /\ child'[BatchOf[t]] \in NormalExits
        /\ reports'[t] = envelope'[BatchOf[t]][t]
  BY <1>1, <1>2, ExitsStay DEF SourceInv
<1>3. CASE Decode
  <2>. DEFINE b == Batch
  <2>1. b \in Batches BY <1>3, DueTest DEF Decode, StepTo, PlaceInv
  <2>2. /\ reports' = [t \in Tests |-> IF BatchOf[t] = b THEN envelope[b][t] ELSE reports[t]]
        /\ envelope' = envelope /\ child' = child
        /\ child[b] \in NormalExits /\ envelope[b] # NoEnvelope
    BY <1>3 DEF Decode, childVars
  <2>. HIDE DEF b
  <2>3. envelope[b] \in [Tests -> WholeReports] BY <2>1, <2>2 DEF SourceInv
  <2>. QED BY <2>2, <2>3 DEF SourceInv, WholeReports
<1>4. ASSUME NEW b \in Batches, WriteEnvelope(b) PROVE SourceInv'
  <2>1. PICK written \in [Tests -> ChildReports \cup CutReports \cup {<<>>}] :
          envelope' = [envelope EXCEPT ![b] = written]
    BY <1>4 DEF WriteEnvelope
  <2>2. ChildReports \cup CutReports \cup {<<>>} \subseteq WholeReports
    <3>1. <<>> \in WholeReports BY DEF WholeReports
    <3>2. ASSUME NEW s \in ChildReports \cup CutReports PROVE s \in WholeReports
      BY DEF ProtocolsAreWhole, WholeReports, WholeProtocol
    <3>. QED BY <3>1, <3>2
  <2>3. written \in [Tests -> WholeReports] BY <2>2
  <2>4. \A c \in Batches : envelope'[c] = NoEnvelope \/ envelope'[c] \in [Tests -> WholeReports]
    <3>1. ASSUME NEW c \in Batches
          PROVE  envelope'[c] = written \/ envelope'[c] = envelope[c]
      BY <2>1 DEF ReportsInv
    <3>. QED BY <2>3, <3>1 DEF SourceInv
  <2>5. reports' = reports BY <1>4 DEF WriteEnvelope, batchVars
  <2>. QED BY <1>2, <2>4, <2>5 DEF SourceInv
<1>5. CASE UNCHANGED <<reports, envelope>> BY <1>2, <1>5 DEF SourceInv
<1>. QED
  BY <1>3, <1>4, <1>5
  DEF BatchNext, Protocol, Child, sessionVars, batchVars, childVars,
      RunBatch, BuildFails, BatchHasRun,
      ChildExits, TimeoutExpires, AbnormalExit, Undecodable, ReplayReport, ReplayEnds,
      TeardownOfOthers, TeardownOfOthersFails, StopSession, Interrupt, Exit

\* Each phase occurs once in what is replayed, and what ends it comes last; an
\* invented replay has a failed call.
LEMMA ReplayShape ==
  ASSUME SourceInv, NEW t \in Tests
  PROVE  /\ Replay(t) \in Seq(Reports)
         /\ \A i, j \in 1..Len(Replay(t)) : Replay(t)[i].when = Replay(t)[j].when => i = j
         /\ \A i \in 1..Len(Replay(t)) :
              /\ Terminal(Replay(t)[i]) <=> i = Len(Replay(t))
              /\ Terminal(Replay(t)[i]) => Replay(t)[i].when = "teardown"
         /\ \/ Replay(t) = reports[t] /\ reports[t] # <<>> /\ WholeProtocol(reports[t])
            \/ \A i \in 1..Len(Replay(t)) :
                 Replay(t)[i].when = "call" => Replay(t)[i].result = "failed"
<1>1. CASE BatchOf[t] \in failure \/ reports[t] = <<>>
  <2>. DEFINE s == SynthesizedFailure
  <2>1. Replay(t) = s BY <1>1 DEF Replay
  <2>2. s \in Seq(Reports) /\ Len(s) = 2
    BY DEF SynthesizedFailure, Report, Reports, Results
  <2>3. s[1].when = "call" /\ s[1].result = "failed" /\ s[2].when = "teardown"
    BY DEF SynthesizedFailure, Report
  <2>. HIDE DEF s
  <2>4. \A i \in 1..Len(s) : i = 1 \/ i = 2 BY <2>2
  <2>. QED BY <2>1, <2>2, <2>3, <2>4 DEF Terminal
<1>2. CASE ~(BatchOf[t] \in failure \/ reports[t] = <<>>)
  <2>. DEFINE s == reports[t]
  <2>1. Replay(t) = s /\ s # <<>> BY <1>2 DEF Replay
  <2>2. WholeProtocol(s) BY <2>1 DEF SourceInv
  <2>. HIDE DEF s
  <2>3. CASE Len(s) = 2
    <3>1. \A i \in 1..Len(s) : i = 1 \/ i = 2 BY <2>3
    <3>2. s[1].when = "setup" /\ s[2].when = "teardown" /\ s \in Seq(Reports)
      BY <2>2, <2>3 DEF WholeProtocol
    <3>3. \A i, j \in 1..Len(s) : s[i].when = s[j].when => i = j BY <3>1, <3>2
    <3>4. \A i \in 1..Len(s) : (Terminal(s[i]) <=> i = Len(s))
                                /\ (Terminal(s[i]) => s[i].when = "teardown")
      BY <2>3, <3>1, <3>2 DEF Terminal
    <3>. QED BY <2>1, <2>2, <3>2, <3>3, <3>4 DEF s
  <2>4. CASE Len(s) = 3
    <3>1. \A i \in 1..Len(s) : i = 1 \/ i = 2 \/ i = 3 BY <2>4
    <3>2. /\ s[1].when = "setup" /\ s[2].when = "call" /\ s[3].when = "teardown"
          /\ s \in Seq(Reports)
      BY <2>2, <2>4 DEF WholeProtocol
    <3>3. \A i, j \in 1..Len(s) : s[i].when = s[j].when => i = j BY <3>1, <3>2
    <3>4. \A i \in 1..Len(s) : (Terminal(s[i]) <=> i = Len(s))
                                /\ (Terminal(s[i]) => s[i].when = "teardown")
      BY <2>4, <3>1, <3>2 DEF Terminal
    <3>. QED BY <2>1, <2>2, <3>2, <3>3, <3>4 DEF s
  <2>. QED BY <2>2, <2>3, <2>4 DEF WholeProtocol
<1>. QED BY <1>1, <1>2

\* An accumulator that takes in one more report knows of one more.
LEMMA ReflectsMore ==
  ASSUME NEW node \in Accumulator, NEW s \in Seq(Reports), NEW n \in Nat, n < Len(s),
         \A i, j \in 1..Len(s) : s[i].when = s[j].when => i = j,
         ~Terminal(s[n + 1]), Reflects(node, s, n)
  PROVE  Reflects(Accumulate(node, s[n + 1]), s, n + 1)
<1>. DEFINE more == Accumulate(node, s[n + 1])
<1>1. n + 1 \in 1..Len(s) /\ s[n + 1] \in Reports OBVIOUS
<1>2. s[n + 1].when \in {"setup", "call"} BY DEF Terminal
<1>3. s[n + 1].when = "setup" =>
        (more.setupFailed <=> s[n + 1].result = "failed") /\ more.call = node.call
  <2>1. \/ more.setupFailed = (s[n + 1].result = "failed") /\ more.call = node.call
        \/ s[n + 1].when # "setup"
    BY DEF Accumulate, Accumulator
  <2>. QED BY <2>1
<1>4. s[n + 1].when = "call" =>
        more.setupFailed = node.setupFailed /\ more.call = s[n + 1].result
  BY DEF Accumulate, Accumulator
<1>. HIDE DEF more
<1>5. ASSUME NEW i \in 1..Len(s), i <= n + 1
      PROVE  /\ s[i].when = "setup" /\ s[i].result = "failed" => more.setupFailed
             /\ s[i].when = "call" => more.call = s[i].result
  <2>1. CASE i = n + 1 BY <1>3, <1>4, <2>1
  <2>2. CASE i # n + 1
    <3>1. i <= n /\ s[i].when # s[n + 1].when BY <1>1, <1>5, <2>2
    <3>2. /\ s[i].when = "setup" /\ s[i].result = "failed" => node.setupFailed
          /\ s[i].when = "call" => node.call = s[i].result
      BY <3>1 DEF Reflects
    <3>. QED BY <1>2, <1>3, <1>4, <3>1, <3>2
  <2>. QED BY <2>1, <2>2
<1>6. ASSUME more.call # "none"
      PROVE  \E i \in 1..Len(s) : i <= n + 1 /\ s[i].when = "call"
  <2>1. CASE s[n + 1].when = "call" BY <1>1, <2>1
  <2>2. CASE s[n + 1].when = "setup"
    <3>1. PICK i \in 1..Len(s) : i <= n /\ s[i].when = "call"
      BY <1>3, <1>6, <2>2 DEF Reflects
    <3>. QED BY <3>1
  <2>. QED BY <1>2, <2>1, <2>2
<1>. QED BY <1>5, <1>6 DEF Reflects, more

\* A passed outcome comes of a passed call and no failure.
LEMMA FinalizePassed ==
  ASSUME NEW node \in Accumulator, NEW report \in Reports, report.when = "teardown",
         Finalize(Accumulate(node, report)) = "passed"
  PROVE  ~node.setupFailed /\ node.call = "passed" /\ report.result # "failed"
<1>. DEFINE last == Accumulate(node, report)
<1>1. last.teardownFailed = (report.result = "failed") /\ last.setupFailed = node.setupFailed
      /\ last.call = node.call
  BY DEF Accumulate, Accumulator
<1>2. last \in Accumulator BY AccumulateTyped
<1>. HIDE DEF last
<1>3. ~last.teardownFailed /\ ~last.setupFailed /\ last.call = "passed"
  <2>1. last.call \in {"none", "passed", "failed", "skipped"} BY <1>2 DEF Accumulator, Results
  <2>. QED BY <2>1 DEF Finalize, last
<1>. QED BY <1>1, <1>3

\* The report that ends a test brings a pass only if its child saw one.
LEMMA PassIsReal ==
  ASSUME BatchAssumption, SourceInv, NEW t \in Tests, NEW node \in Accumulator,
         NEW n \in Nat, n < Len(Replay(t)), Terminal(Replay(t)[n + 1]),
         Reflects(node, Replay(t), n), Finalize(Accumulate(node, Replay(t)[n + 1])) = "passed"
  PROVE  LET written == envelope[BatchOf[t]][t] IN
         /\ child[BatchOf[t]] \in NormalExits
         /\ \A i \in DOMAIN written : written[i].result # "failed"
         /\ \E i \in DOMAIN written : written[i].when = "call" /\ written[i].result = "passed"
<1>. DEFINE s == Replay(t)
<1>1. /\ s \in Seq(Reports)
      /\ \A i, j \in 1..Len(s) : s[i].when = s[j].when => i = j
      /\ \A i \in 1..Len(s) : /\ Terminal(s[i]) <=> i = Len(s)
                              /\ Terminal(s[i]) => s[i].when = "teardown"
      /\ \/ s = reports[t] /\ reports[t] # <<>> /\ WholeProtocol(reports[t])
         \/ \A i \in 1..Len(s) : s[i].when = "call" => s[i].result = "failed"
  BY ReplayShape
<1>. HIDE DEF s
<1>2. n < Len(s) /\ Terminal(s[n + 1]) /\ Reflects(node, s, n)
      /\ Finalize(Accumulate(node, s[n + 1])) = "passed"
  BY DEF s
<1>3. n + 1 \in 1..Len(s) /\ s[n + 1] \in Reports BY <1>1, <1>2
<1>4. n + 1 = Len(s) /\ s[n + 1].when = "teardown" BY <1>1, <1>2, <1>3
<1>5. ~node.setupFailed /\ node.call = "passed" /\ s[n + 1].result # "failed"
  BY <1>2, <1>3, <1>4, FinalizePassed
<1>6. PICK k \in 1..Len(s) : k <= n /\ s[k].when = "call" /\ s[k].result = "passed"
  <2>1. PICK k \in 1..Len(s) : k <= n /\ s[k].when = "call" BY <1>2, <1>5 DEF Reflects
  <2>. QED BY <1>2, <1>5, <2>1 DEF Reflects
<1>7. s = reports[t] /\ reports[t] # <<>> /\ WholeProtocol(s) BY <1>1, <1>6
<1>8. /\ child[BatchOf[t]] \in NormalExits
      /\ envelope[BatchOf[t]][t] = s
  BY <1>7 DEF SourceInv
<1>9. ASSUME NEW i \in 1..Len(s) PROVE s[i].result # "failed"
  <2>1. i = 1 \/ i = Len(s) \/ (i = 2 /\ Len(s) = 3) BY <1>7 DEF WholeProtocol
  <2>2. CASE i = Len(s) BY <1>4, <1>5, <2>2
  <2>3. CASE i = 1 /\ i # Len(s)
    <3>1. s[i].when = "setup" /\ i <= n BY <1>4, <1>7, <2>3 DEF WholeProtocol
    <3>. QED BY <1>2, <1>5, <3>1 DEF Reflects
  <2>4. CASE i = 2 /\ Len(s) = 3
    <3>1. s[i].when = "call" BY <1>7, <2>4 DEF WholeProtocol
    <3>2. i = k BY <1>1, <1>6, <3>1
    <3>. QED BY <1>6, <3>2
  <2>. QED BY <2>1, <2>2, <2>3, <2>4
<1>10. DOMAIN s = 1..Len(s) BY <1>1
<1>. QED BY <1>6, <1>8, <1>9, <1>10

\* The recording of a session whose children write whole protocols.
PassInv ==
  /\ accumulators \in [Tests -> Accumulator]
  /\ outcomes \in [Tests -> OutcomeValues \cup {"none"}]
  /\ OnlyDueInv
  /\ ReplayedInv
  /\ PassesAreReal

\* A step that leaves the recording alone.
LEMMA PassStays ==
  ASSUME BatchAssumption, PlaceInv, PlaceInv', ReportsInv, ChildInv, PassInv,
         [BatchNext]_sessionVars,
         UNCHANGED <<accumulators, outcomes>>,
         \/ step' = "replay" /\ step # "replay" /\ step # "interrupted" /\ replayed' = 0
         \/ step' = step /\ UNCHANGED <<due, replayed, reports, failure>>
         \/ step' = "interrupted" /\ due' = due
         \/ step \notin {"replay", "interrupted"} /\ step' \notin {"replay", "interrupted"}
  PROVE  PassInv'
<1>1. PassesAreReal'
  <2>1. ASSUME NEW t \in Tests, outcomes'[t] = "passed"
        PROVE  LET written == envelope'[BatchOf[t]][t] IN
               /\ child'[BatchOf[t]] \in NormalExits
               /\ \A i \in DOMAIN written : written[i].result # "failed"
               /\ \E i \in DOMAIN written :
                    written[i].when = "call" /\ written[i].result = "passed"
    <3>1. BatchOf[t] \in Batches BY DEF BatchAssumption
    <3>2. outcomes[t] = "passed" BY <2>1
    <3>3. child[BatchOf[t]] \in NormalExits BY <3>2 DEF PassInv, PassesAreReal
    <3>4. child'[BatchOf[t]] = child[BatchOf[t]] /\ envelope'[BatchOf[t]] = envelope[BatchOf[t]]
      BY <3>1, <3>3, ExitsStay
    <3>. QED BY <3>2, <3>4 DEF PassInv, PassesAreReal
  <2>. QED BY <2>1 DEF PassesAreReal
<1>2. CASE step' = "replay" /\ step # "replay" /\ step # "interrupted" /\ replayed' = 0
  <2>1. \A t \in Tests : accumulators[t] = NoAccumulator BY <1>2 DEF PassInv, OnlyDueInv
  <2>2. OnlyDueInv' BY <2>1 DEF OnlyDueInv
  <2>3. Test' \in Tests BY <1>2 DEF PlaceInv, BatchAssumption, Test
  <2>4. accumulators'[Test'] = NoAccumulator /\ NoAccumulator.call = "none"
    BY <2>1, <2>3 DEF NoAccumulator
  <2>5. \A s : \A i \in 1..Len(s) : ~(i <= 0) OBVIOUS
  <2>6. \A s : Reflects(NoAccumulator, s, 0) BY <2>4, <2>5 DEF Reflects
  <2>7. ReplayedInv' BY <1>2, <2>4, <2>6 DEF ReplayedInv
  <2>. QED BY <1>1, <2>2, <2>7 DEF PassInv
<1>3. CASE step' = step /\ UNCHANGED <<due, replayed, reports, failure>>
  BY <1>1, <1>3 DEF PassInv, OnlyDueInv, ReplayedInv, Replay, Test
<1>4. CASE step' = "interrupted" /\ due' = due
  BY <1>1, <1>4 DEF PassInv, OnlyDueInv, ReplayedInv, Test
<1>5. CASE step \notin {"replay", "interrupted"} /\ step' \notin {"replay", "interrupted"}
  BY <1>1, <1>5 DEF PassInv, OnlyDueInv, ReplayedInv
<1>. QED BY <1>2, <1>3, <1>4, <1>5

LEMMA NextPass ==
  ASSUME BatchAssumption, PlaceInv, PlaceInv', ReportsInv, ChildInv, SourceInv, PassInv,
         [BatchNext]_sessionVars
  PROVE  PassInv'
<1>. USE DEF StepTo, recordVars, batchVars, childVars
<1>1. CASE RunBatch \/ ChildExits BY <1>1, PassStays DEF RunBatch, ChildExits
<1>2. CASE BuildFails \/ BatchHasRun
  BY <1>2, PassStays DEF BuildFails, BatchHasRun, PlaceInv
<1>3. CASE TimeoutExpires \/ AbnormalExit \/ Undecodable \/ Decode
  BY <1>3, PassStays DEF TimeoutExpires, AbnormalExit, Undecodable, Decode, PlaceInv
<1>4. CASE ReplayEnds
  <2>1. Test \in Tests BY <1>4, DueTest DEF ReplayEnds, PlaceInv
  <2>2. \A t \in Tests : accumulators[t] = NoAccumulator
    BY <1>4, <2>1 DEF ReplayEnds, PassInv, OnlyDueInv, ReplayedInv
  <2>3. UNCHANGED <<accumulators, outcomes, child, envelope>> /\ step' = "teardown"
    BY <1>4 DEF ReplayEnds
  <2>4. OnlyDueInv' /\ ReplayedInv' BY <2>2, <2>3 DEF OnlyDueInv, ReplayedInv
  <2>5. PassesAreReal' BY <2>3 DEF PassInv, PassesAreReal
  <2>. QED BY <2>3, <2>4, <2>5 DEF PassInv
<1>5. CASE ReplayReport
  <2>. DEFINE report == Replay(Test)[replayed + 1]
              node == accumulators[Test]
  <2>1. Test \in Tests /\ due \in 1..Len(Order)
    BY <1>5, DueTest DEF ReplayReport, PlaceInv
  <2>2. /\ step = "replay" /\ HandleLogreport(Test, report)
        /\ UNCHANGED <<due, step, reports, failure, child, envelope>>
        /\ replayed' = replayed + 1 /\ replayed < Len(Replay(Test)) /\ replayed \in Nat
    BY <1>5 DEF ReplayReport, PlaceInv
  <2>3. /\ Replay(Test) \in Seq(Reports)
        /\ \A i, j \in 1..Len(Replay(Test)) :
             Replay(Test)[i].when = Replay(Test)[j].when => i = j
        /\ Terminal(report) <=> replayed + 1 = Len(Replay(Test))
    <3>1. replayed + 1 \in 1..Len(Replay(Test)) BY <2>1, <2>2, ReplayShape
    <3>. QED BY <2>1, <3>1, ReplayShape
  <2>4. report \in Reports /\ node \in Accumulator /\ Reflects(node, Replay(Test), replayed)
    BY <2>1, <2>2, <2>3 DEF PassInv, ReplayedInv
  <2>5. Test' = Test /\ Replay(Test)' = Replay(Test) BY <2>2 DEF Test, Replay
  <2>6. /\ accumulators' \in [Tests -> Accumulator]
        /\ outcomes' \in [Tests -> OutcomeValues \cup {"none"}]
    BY <2>1, <2>2, <2>4, Handled DEF PassInv
  <2>7. OnlyDueInv'
    <3>1. \A t \in Tests : t # Test => accumulators'[t] = accumulators[t]
      BY <2>2 DEF HandleLogreport, PassInv
    <3>2. \A t \in Tests : accumulators'[t] # NoAccumulator => t = Test
      BY <2>1, <2>2, <3>1 DEF PassInv, OnlyDueInv
    <3>. QED BY <2>1, <2>2, <2>5, <3>2 DEF OnlyDueInv
  <2>8. CASE Terminal(report)
    <3>1. /\ accumulators' = [accumulators EXCEPT ![Test] = NoAccumulator]
          /\ outcomes' = [outcomes EXCEPT ![Test] = Finalize(Accumulate(node, report))]
      BY <2>2, <2>8 DEF HandleLogreport, Terminal
    <3>2. accumulators'[Test] = NoAccumulator BY <2>1, <3>1 DEF PassInv
    <3>3. Reflects(NoAccumulator, Replay(Test), replayed + 1)
      BY <2>3, <2>8 DEF Reflects, NoAccumulator
    <3>4. ReplayedInv' BY <2>2, <2>5, <3>2, <3>3 DEF ReplayedInv
    <3>5. ASSUME NEW t \in Tests, outcomes'[t] = "passed"
          PROVE  LET written == envelope[BatchOf[t]][t] IN
                 /\ child[BatchOf[t]] \in NormalExits
                 /\ \A i \in DOMAIN written : written[i].result # "failed"
                 /\ \E i \in DOMAIN written :
                      written[i].when = "call" /\ written[i].result = "passed"
      <4>1. CASE t = Test
        <5>1. Finalize(Accumulate(node, report)) = "passed"
          BY <2>1, <3>1, <3>5, <4>1 DEF PassInv
        <5>. QED BY <2>1, <2>2, <2>4, <2>8, <4>1, <5>1, PassIsReal
      <4>2. CASE t # Test
        <5>1. outcomes[t] = "passed" BY <3>1, <3>5, <4>2 DEF PassInv
        <5>. QED BY <5>1 DEF PassInv, PassesAreReal
      <4>. QED BY <4>1, <4>2
    <3>6. PassesAreReal' BY <2>2, <3>5 DEF PassesAreReal
    <3>. QED BY <2>6, <2>7, <3>4, <3>6 DEF PassInv
  <2>9. CASE ~Terminal(report)
    <3>1. accumulators' = [accumulators EXCEPT ![Test] = Accumulate(node, report)]
          /\ outcomes' = outcomes
      BY <2>2, <2>9 DEF HandleLogreport, Terminal
    <3>2. accumulators'[Test] = Accumulate(node, report) BY <2>1, <3>1 DEF PassInv
    <3>3. Reflects(Accumulate(node, report), Replay(Test), replayed + 1)
      BY <2>2, <2>3, <2>4, <2>9, ReflectsMore
    <3>4. replayed + 1 # Len(Replay(Test)) BY <2>3, <2>9
    <3>. HIDE DEF report, node
    <3>5. ReplayedInv' BY <2>2, <2>5, <3>2, <3>3, <3>4 DEF ReplayedInv
    <3>6. PassesAreReal' BY <2>2, <3>1 DEF PassInv, PassesAreReal
    <3>. QED BY <2>6, <2>7, <3>5, <3>6 DEF PassInv
  <2>. QED BY <2>8, <2>9
<1>6. CASE TeardownOfOthers
  BY <1>6, PassStays DEF TeardownOfOthers, NextTest
<1>7. CASE TeardownOfOthersFails
  <2>. DEFINE report == Report("teardown", "failed", FALSE)
              node == accumulators[Test]
  <2>1. Test \in Tests BY <1>7, DueTest DEF TeardownOfOthersFails, NextTest, PlaceInv
  <2>2. report \in Reports /\ Terminal(report) /\ report.when = "teardown"
        /\ report.result = "failed"
    BY DEF Report, Reports, Results, Terminal
  <2>3. /\ HandleLogreport(Test, report) /\ step = "teardown" /\ step' = "protocol"
        /\ UNCHANGED <<child, envelope>>
    BY <1>7 DEF TeardownOfOthersFails, NextTest
  <2>. HIDE DEF report
  <2>4. /\ accumulators' \in [Tests -> Accumulator]
        /\ outcomes' \in [Tests -> OutcomeValues \cup {"none"}]
    BY <2>1, <2>2, <2>3, Handled DEF PassInv
  <2>5. /\ accumulators' = [accumulators EXCEPT ![Test] = NoAccumulator]
        /\ outcomes' = [outcomes EXCEPT ![Test] = Finalize(Accumulate(node, report))]
    BY <2>2, <2>3 DEF HandleLogreport, Terminal
  <2>6. Finalize(Accumulate(node, report)) # "passed"
    BY <2>1, <2>2, FinalizePassed DEF PassInv
  <2>7. \A t \in Tests : accumulators'[t] = NoAccumulator
    BY <2>3, <2>5 DEF PassInv, OnlyDueInv
  <2>8. \A t \in Tests : outcomes'[t] = "passed" => outcomes[t] = "passed"
    BY <2>5, <2>6 DEF PassInv
  <2>9. OnlyDueInv' /\ ReplayedInv' BY <2>3, <2>7 DEF OnlyDueInv, ReplayedInv
  <2>10. PassesAreReal' BY <2>3, <2>8 DEF PassInv, PassesAreReal
  <2>. QED BY <2>4, <2>9, <2>10 DEF PassInv
<1>8. CASE StopSession BY <1>8, PassStays DEF StopSession
<1>9. CASE Interrupt BY <1>9, PassStays DEF Interrupt
<1>10. ASSUME NEW b \in Batches, WriteEnvelope(b) \/ Exit(b) PROVE PassInv'
  BY <1>10, PassStays DEF WriteEnvelope, Exit
<1>11. CASE UNCHANGED sessionVars BY <1>11, PassStays DEF sessionVars
<1>. QED
  BY <1>1, <1>2, <1>3, <1>4, <1>5, <1>6, <1>7, <1>8, <1>9, <1>10, <1>11
  DEF BatchNext, Protocol, Child

\* A pass is what a child that exited normally wrote, for children that write the
\* one whole protocol of each test they report (_run_batch, _replay_item).
THEOREM Passes ==
  ASSUME BatchAssumption, ReportsEnd, ProtocolsAreWhole
  PROVE  BatchSpec => [](StageInv /\ SourceInv /\ PassInv)
<1>1. BatchInit => StageInv /\ SourceInv /\ PassInv
  <2>. SUFFICES ASSUME BatchInit PROVE StageInv /\ SourceInv /\ PassInv OBVIOUS
  <2>1. StageInv BY DEF BatchInit, StageInv
  <2>2. SourceInv BY DEF BatchInit, SourceInv
  <2>3. PassInv
    <3>1. NoAccumulator \in Accumulator BY DEF NoAccumulator, Accumulator
    <3>. QED
      BY <3>1 DEF BatchInit, RecordInit, PassInv, OnlyDueInv, ReplayedInv, PassesAreReal
  <2>. QED BY <2>1, <2>2, <2>3
<1>2. PlaceInv /\ PlaceInv' /\ ReportsInv /\ ChildInv /\ (StageInv /\ SourceInv /\ PassInv)
        /\ [BatchNext]_sessionVars
        => (StageInv /\ SourceInv /\ PassInv)'
  BY NextStage, NextSource, NextPass
<1>. QED BY <1>1, <1>2, Consistent, PTL DEF BatchSpec

\* No child outlives its batch, a pass is one its child saw, and no test vanishes,
\* for every session, batch assignment and way a child may end.
THEOREM Sound ==
  ASSUME BatchAssumption, ReportsEnd, ProtocolsAreWhole
  PROVE  BatchSpec => []BatchesSound
<1>1. PlaceInv /\ ReportsInv /\ OutcomeInv /\ (StageInv /\ SourceInv /\ PassInv) => BatchTypeOK
  <2>. SUFFICES ASSUME PlaceInv, ReportsInv, OutcomeInv, StageInv PROVE BatchTypeOK OBVIOUS
  <2>1. reports \in [Tests -> Seq(Reports)] BY DEF ReportsInv, EndedReports
  <2>2. \A b \in Batches : envelope[b] \in [Tests -> Seq(Reports)]
    BY DEF ReportsInv, EndedReports
  <2>. QED BY <2>1, <2>2 DEF BatchTypeOK, RecordTypeOK, PlaceInv, OutcomeInv, StageInv
<1>2. (StageInv /\ SourceInv /\ PassInv) => PassesAreReal BY DEF PassInv
<1>3. BatchTypeOK /\ ChildrenReaped /\ PassesAreReal /\ NothingVanishes => BatchesSound
  BY DEF BatchesSound
<1>. QED BY <1>1, <1>2, <1>3, Consistent, Passes, ChildrenAreReaped, NoTestVanishes, PTL

-----------------------------------------------------------------------------
(***************************************************************************)
(* ApiServer                                                               *)
(*                                                                         *)
(* Proofs about ApiServer, for every number of workers, ports, retries and *)
(* polls.                                                                  *)
(*                                                                         *)
(* ServerInv is the inductive invariant: a process runs only while its     *)
(* launch is between the spawn and the reaping, and a launch that is about *)
(* to try again has lost its own process already.                          *)
(***************************************************************************)

USE ServerAssumption

\* Every variable keeps its type; in particular the attempts stay below
\* API_SERVER_BIND_RETRIES.
THEOREM TypedAndSound == Spec => [](TypeOK /\ ServerInv)
<1>1. Init => TypeOK /\ ServerInv
  BY DEF Init, TypeOK, ServerInv, ServersReaped, EndingInv, Attempts, Steps, Stopped,
         Running, Exited
<1>2. TypeOK /\ ServerInv /\ [Next]_vars => (TypeOK /\ ServerInv)'
  <2>. SUFFICES ASSUME TypeOK, ServerInv, [Next]_vars PROVE (TypeOK /\ ServerInv)'
    OBVIOUS
  <2>. USE DEF Goto, Own, Attempts, Steps, Stopped, Running, Exited, launchVars
  <2>1. ASSUME NEW w \in Workers, Probe(w) PROVE (TypeOK /\ ServerInv)'
    <3>1. TypeOK' BY <2>1 DEF Probe, TypeOK
    <3>2. ServersReaped' BY <2>1 DEF Probe, TypeOK, ServerInv, ServersReaped
    <3>3. EndingInv' BY <2>1 DEF Probe, TypeOK, ServerInv, EndingInv
    <3>. QED BY <3>1, <3>2, <3>3 DEF ServerInv
  <2>2. ASSUME NEW w \in Workers, Spawn(w) PROVE (TypeOK /\ ServerInv)'
    <3>1. TypeOK' BY <2>2 DEF Spawn, TypeOK
    <3>2. ServersReaped' BY <2>2 DEF Spawn, TypeOK, ServerInv, ServersReaped
    <3>3. EndingInv' BY <2>2 DEF Spawn, TypeOK, ServerInv, EndingInv
    <3>. QED BY <3>1, <3>2, <3>3 DEF ServerInv
  <2>3. ASSUME NEW w \in Workers, PollRunning(w) PROVE (TypeOK /\ ServerInv)'
    <3>1. TypeOK' BY <2>3 DEF PollRunning, TypeOK
    <3>2. ServersReaped' BY <2>3 DEF PollRunning, TypeOK, ServerInv, ServersReaped
    <3>3. EndingInv' BY <2>3 DEF PollRunning, TypeOK, ServerInv, EndingInv
    <3>. QED BY <3>1, <3>2, <3>3 DEF ServerInv
  <2>4. ASSUME NEW w \in Workers, PollLost(w) PROVE (TypeOK /\ ServerInv)'
    <3>1. TypeOK' BY <2>4 DEF PollLost, TypeOK
    <3>2. ServersReaped' BY <2>4 DEF PollLost, TypeOK, ServerInv, ServersReaped
    <3>3. EndingInv' BY <2>4 DEF PollLost, TypeOK, ServerInv, EndingInv
    <3>. QED BY <3>1, <3>2, <3>3 DEF ServerInv
  <2>5. ASSUME NEW w \in Workers, PollExited(w) PROVE (TypeOK /\ ServerInv)'
    <3>1. TypeOK' BY <2>5 DEF PollExited, TypeOK
    <3>2. ServersReaped' BY <2>5 DEF PollExited, TypeOK, ServerInv, ServersReaped
    <3>3. EndingInv' BY <2>5 DEF PollExited, TypeOK, ServerInv, EndingInv
    <3>. QED BY <3>1, <3>2, <3>3 DEF ServerInv
  <2>6. ASSUME NEW w \in Workers, Answered(w) PROVE (TypeOK /\ ServerInv)'
    <3>1. TypeOK' BY <2>6 DEF Answered, TypeOK
    <3>2. ServersReaped' BY <2>6 DEF Answered, TypeOK, ServerInv, ServersReaped
    <3>3. EndingInv' BY <2>6 DEF Answered, TypeOK, ServerInv, EndingInv
    <3>. QED BY <3>1, <3>2, <3>3 DEF ServerInv
  <2>7. ASSUME NEW w \in Workers, Unanswered(w) PROVE (TypeOK /\ ServerInv)'
    <3>1. TypeOK' BY <2>7 DEF Unanswered, TypeOK
    <3>2. ServersReaped' BY <2>7 DEF Unanswered, TypeOK, ServerInv, ServersReaped
    <3>3. EndingInv' BY <2>7 DEF Unanswered, TypeOK, ServerInv, EndingInv
    <3>. QED BY <3>1, <3>2, <3>3 DEF ServerInv
  <2>8. ASSUME NEW w \in Workers, Sleep(w) PROVE (TypeOK /\ ServerInv)'
    <3>1. TypeOK' BY <2>8 DEF Sleep, TypeOK
    <3>2. ServersReaped' BY <2>8 DEF Sleep, TypeOK, ServerInv, ServersReaped
    <3>3. EndingInv' BY <2>8 DEF Sleep, TypeOK, ServerInv, EndingInv
    <3>. QED BY <3>1, <3>2, <3>3 DEF ServerInv
  <2>9. ASSUME NEW w \in Workers, DeadlinePasses(w) PROVE (TypeOK /\ ServerInv)'
    <3>1. TypeOK' BY <2>9 DEF DeadlinePasses, TypeOK
    <3>2. ServersReaped' BY <2>9 DEF DeadlinePasses, TypeOK, ServerInv, ServersReaped
    <3>3. EndingInv' BY <2>9 DEF DeadlinePasses, TypeOK, ServerInv, EndingInv
    <3>. QED BY <3>1, <3>2, <3>3 DEF ServerInv
  <2>10. ASSUME NEW w \in Workers, Reap(w) PROVE (TypeOK /\ ServerInv)'
    <3>1. TypeOK' BY <2>10 DEF Reap, AfterFinally, Killed, TypeOK, ServerInv, EndingInv
    <3>2. ServersReaped' BY <2>10 DEF Reap, AfterFinally, Killed, TypeOK, ServerInv, ServersReaped, EndingInv
    <3>3. EndingInv' BY <2>10 DEF Reap, AfterFinally, Killed, TypeOK, ServerInv, EndingInv
    <3>. QED BY <3>1, <3>2, <3>3 DEF ServerInv
  <2>11. ASSUME NEW w \in Workers, InterruptLaunch(w) PROVE (TypeOK /\ ServerInv)'
    <3>1. TypeOK' BY <2>11 DEF InterruptLaunch, TypeOK
    <3>2. ServersReaped' BY <2>11 DEF InterruptLaunch, TypeOK, ServerInv, ServersReaped
    <3>3. EndingInv' BY <2>11 DEF InterruptLaunch, TypeOK, ServerInv, EndingInv
    <3>. QED BY <3>1, <3>2, <3>3 DEF ServerInv
  <2>12. ASSUME NEW w \in Workers, EndSession(w) PROVE (TypeOK /\ ServerInv)'
    <3>1. TypeOK' BY <2>12 DEF EndSession, TypeOK
    <3>2. ServersReaped' BY <2>12 DEF EndSession, TypeOK, ServerInv, ServersReaped
    <3>3. EndingInv' BY <2>12 DEF EndSession, TypeOK, ServerInv, EndingInv
    <3>. QED BY <3>1, <3>2, <3>3 DEF ServerInv
  <2>13. ASSUME NEW w \in Workers, KillWorker(w) PROVE (TypeOK /\ ServerInv)'
    <3>1. TypeOK' BY <2>13 DEF KillWorker, Killed, TypeOK
    <3>2. ServersReaped' BY <2>13 DEF KillWorker, Killed, TypeOK, ServerInv, ServersReaped
    <3>3. EndingInv' BY <2>13 DEF KillWorker, Killed, TypeOK, ServerInv, EndingInv
    <3>. QED BY <3>1, <3>2, <3>3 DEF ServerInv
  <2>14. ASSUME NEW w \in Workers, NEW a \in Attempts, Arm(w, a)
        PROVE  (TypeOK /\ ServerInv)'
    <3>1. TypeOK' BY <2>14 DEF Arm, Become, TypeOK
    <3>2. ServersReaped' BY <2>14 DEF Arm, Become, TypeOK, ServerInv, ServersReaped
    <3>3. EndingInv' BY <2>14 DEF Arm, Become, TypeOK, ServerInv, EndingInv
    <3>. QED BY <3>1, <3>2, <3>3 DEF ServerInv
  <2>15. ASSUME NEW w \in Workers, NEW a \in Attempts, Bind(w, a)
        PROVE  (TypeOK /\ ServerInv)'
    <3>1. TypeOK' BY <2>15 DEF Bind, Become, TypeOK
    <3>2. ServersReaped' BY <2>15 DEF Bind, Become, TypeOK, ServerInv, ServersReaped
    <3>3. EndingInv' BY <2>15 DEF Bind, Become, TypeOK, ServerInv, EndingInv
    <3>. QED BY <3>1, <3>2, <3>3 DEF ServerInv
  <2>16. ASSUME NEW w \in Workers, NEW a \in Attempts, LoseBind(w, a)
        PROVE  (TypeOK /\ ServerInv)'
    <3>1. TypeOK' BY <2>16 DEF LoseBind, Become, TypeOK
    <3>2. ServersReaped' BY <2>16 DEF LoseBind, Become, TypeOK, ServerInv, ServersReaped
    <3>3. EndingInv' BY <2>16 DEF LoseBind, Become, TypeOK, ServerInv, EndingInv
    <3>. QED BY <3>1, <3>2, <3>3 DEF ServerInv
  <2>17. ASSUME NEW w \in Workers, NEW a \in Attempts, Fail(w, a)
        PROVE  (TypeOK /\ ServerInv)'
    <3>1. TypeOK' BY <2>17 DEF Fail, Become, TypeOK
    <3>2. ServersReaped' BY <2>17 DEF Fail, Become, TypeOK, ServerInv, ServersReaped
    <3>3. EndingInv' BY <2>17 DEF Fail, Become, TypeOK, ServerInv, EndingInv
    <3>. QED BY <3>1, <3>2, <3>3 DEF ServerInv
  <2>18. ASSUME NEW w \in Workers, NEW a \in Attempts, ObeySignal(w, a)
        PROVE  (TypeOK /\ ServerInv)'
    <3>1. TypeOK' BY <2>18 DEF ObeySignal, Become, TypeOK
    <3>2. ServersReaped' BY <2>18 DEF ObeySignal, Become, TypeOK, ServerInv, ServersReaped
    <3>3. EndingInv' BY <2>18 DEF ObeySignal, Become, TypeOK, ServerInv, EndingInv
    <3>. QED BY <3>1, <3>2, <3>3 DEF ServerInv
  <2>19. CASE UNCHANGED vars
    BY <2>19 DEF vars, TypeOK, ServerInv, ServersReaped, EndingInv
  <2>. QED BY <2>1, <2>2, <2>3, <2>4, <2>5, <2>6, <2>7, <2>8, <2>9, <2>10, <2>11, <2>12, <2>13, <2>14, <2>15, <2>16, <2>17, <2>18, <2>19 DEF Next, Launch, Process
<1>. QED BY <1>1, <1>2, PTL DEF Spec

\* The attempts stay within their number and every variable keeps its type.
THEOREM Typed == Spec => []TypeOK
BY TypedAndSound, PTL

\* No process outlives its launch: one runs at a time, and none once the launch
\* has ended, raised or gone back to probing (_launch_api_server).
THEOREM Reaped == Spec => []ServersReaped
<1>1. ServerInv => ServersReaped BY DEF ServerInv
<1>. QED BY <1>1, TypedAndSound, PTL

\* The invariant the run checks.
THEOREM ServersSound == Spec => []ServerInv
BY TypedAndSound, PTL

\* A launch takes another attempt only after its own process lost its port
\* (_lost_port_bind_race).
THEOREM Retried == Spec => RetriesLostRaces
<1>. DEFINE LostOnly == \A w \in Workers : attempt'[w] # attempt[w] =>
                          /\ Own(w) = "lost"
                          /\ pc'[w] = "probe"
<1>1. TypeOK /\ ServerInv /\ [Next]_vars => [LostOnly]_vars
  <2>. SUFFICES ASSUME TypeOK, ServerInv, Next, NEW v \in Workers, attempt'[v] # attempt[v]
                PROVE  Own(v) = "lost" /\ pc'[v] = "probe"
    OBVIOUS
  <2>1. PICK w \in Workers : Reap(w)
    BY DEF Next, Launch, Process, launchVars, Probe, Spawn, PollRunning, PollLost,
           PollExited, Answered, Unanswered, Sleep, DeadlinePasses, InterruptLaunch,
           EndSession, KillWorker, Arm, Bind, LoseBind, Fail, ObeySignal, Become
  <2>2. w = v /\ ending[v] = "retry" BY <2>1 DEF Reap, TypeOK
  <2>. QED BY <2>1, <2>2 DEF Reap, Goto, AfterFinally, ServerInv, EndingInv, TypeOK
<1>. QED BY <1>1, TypedAndSound, PTL DEF Spec, RetriesLostRaces

\* No process outlives its launch, and only a lost race is retried.
THEOREM LaunchesAreSound == Spec => LaunchesSound
BY Reaped, Retried, PTL DEF LaunchesSound
=============================================================================
