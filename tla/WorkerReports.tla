--------------------------- MODULE WorkerReports ---------------------------
(***************************************************************************)
(* The recorder on an xdist controller.  Workers run tests phase by phase  *)
(* and send a report of each; the controller takes the events of each      *)
(* worker in order and those of different workers in any order.  A crash   *)
(* loses what the worker had not sent yet, is blamed on the first test the *)
(* controller does not know to be complete, and leads to a replacement.    *)
(*                                                                         *)
(* xdist and pytest's protocol are external: they are modelled from what   *)
(* record.py relies on.                                                    *)
(***************************************************************************)
EXTENDS OutcomeRecord, Naturals, Sequences, SequencesExt

CONSTANTS
  Workers,
  PhaseReports, \* the reports the phases of a test may end with
  Lookahead,    \* tests a worker holds at most
  MaxCrashes,
  MaxReruns     \* further attempts at a test, as a rerun plugin makes them

ASSUME WorkersAssumption ==
  /\ PhaseReports \subseteq Reports \ {CrashReport}
  /\ Lookahead \in Nat \ {0} /\ MaxCrashes \in Nat /\ MaxReruns \in Nat

VARIABLES
  todo,       \* tests no worker holds
  pending,    \* the controller's list of each worker's tests
  queue,      \* each worker's own list, the first being run
  phase,      \* the phase each worker runs next
  channel,    \* events of each worker the controller has not taken yet
  crashes,
  reruns,
  seen        \* reports taken of the last attempt at each test

workVars == <<todo, pending, queue, phase, channel, crashes, reruns>>
vars == <<recordVars, workVars, seen>>

Event(kind, t, report) == [kind |-> kind, test |-> t, report |-> report]
Events == [kind : {"report", "complete"}, test : Tests, report : Reports]
Down == [kind |-> "down"]

TypeOK ==
  /\ RecordTypeOK
  /\ todo \subseteq Tests
  /\ pending \in [Workers -> Seq(Tests)]
  /\ queue \in [Workers -> Seq(Tests)]
  /\ phase \in [Workers -> {"setup", "call", "teardown", "complete", "dead"}]
  /\ channel \in [Workers -> Seq(Events \cup {Down})]
  /\ crashes \in 0..MaxCrashes
  /\ reruns \in 0..MaxReruns
  /\ seen \in [Tests -> SUBSET Reports]

Init ==
  /\ RecordInit
  /\ todo = Tests
  /\ pending = [w \in Workers |-> <<>>]
  /\ queue = [w \in Workers |-> <<>>]
  /\ phase = [w \in Workers |-> "setup"]
  /\ channel = [w \in Workers |-> <<>>]
  /\ crashes = 0
  /\ reruns = 0
  /\ seen = [t \in Tests |-> {}]

-----------------------------------------------------------------------------
(* The workers *)

Assign(w) ==
  /\ phase[w] # "dead"
  /\ Len(pending[w]) < Lookahead
  /\ \E t \in todo :
       /\ todo' = todo \ {t}
       /\ pending' = [pending EXCEPT ![w] = Append(@, t)]
       /\ queue' = [queue EXCEPT ![w] = Append(@, t)]
  /\ UNCHANGED <<recordVars, phase, channel, crashes, reruns, seen>>

NextPhase(report) ==
  CASE report.when = "setup" -> IF report.result = "passed" THEN "call" ELSE "teardown"
    [] report.when = "call" -> "teardown"
    [] report.when = "teardown" -> "complete"

RunPhase(w) ==
  /\ queue[w] # <<>>
  /\ \E report \in PhaseReports :
       /\ report.when = phase[w]
       /\ channel' = [channel EXCEPT ![w] = Append(@, Event("report", Head(queue[w]), report))]
       /\ phase' = [phase EXCEPT ![w] = NextPhase(report)]
  /\ UNCHANGED <<recordVars, todo, pending, queue, crashes, reruns, seen>>

Complete(w) ==
  /\ phase[w] = "complete"
  /\ phase' = [phase EXCEPT ![w] = "setup"]
  /\ queue' = [queue EXCEPT ![w] = Tail(@)]
  /\ channel' = [channel EXCEPT ![w] = Append(@, Event("complete", Head(queue[w]), CrashReport))]
  /\ UNCHANGED <<recordVars, todo, pending, crashes, reruns, seen>>

Rerun(w) ==
  /\ phase[w] = "complete"
  /\ reruns < MaxReruns
  /\ reruns' = reruns + 1
  /\ phase' = [phase EXCEPT ![w] = "setup"]
  /\ UNCHANGED <<recordVars, todo, pending, queue, channel, crashes, seen>>

Crash(w) ==
  /\ phase[w] # "dead"
  /\ crashes < MaxCrashes
  /\ crashes' = crashes + 1
  /\ phase' = [phase EXCEPT ![w] = "dead"]
  /\ queue' = [queue EXCEPT ![w] = <<>>]
  /\ \E sent \in 0..Len(channel[w]) :
       channel' = [channel EXCEPT ![w] = Append(SubSeq(@, 1, sent), Down)]
  /\ UNCHANGED <<recordVars, todo, pending, reruns, seen>>

-----------------------------------------------------------------------------
(* The controller *)

Take(w) == channel' = [channel EXCEPT ![w] = Tail(@)]

\* The test an event is about, without the suffix `--dist loadgroup` adds to its
\* name on the worker (_strip_xdist_group_suffix).
TakeReport(w) ==
  /\ channel[w] # <<>> /\ Head(channel[w]).kind = "report"
  /\ LET event == Head(channel[w]) IN
       /\ HandleLogreport(event.test, event.report)
       /\ seen' = [seen EXCEPT ![event.test] =
            IF event.report.when = "setup" THEN {event.report} ELSE @ \cup {event.report}]
  /\ Take(w)
  /\ UNCHANGED <<todo, pending, queue, phase, crashes, reruns>>

TakeComplete(w) ==
  /\ channel[w] # <<>> /\ Head(channel[w]).kind = "complete"
  /\ pending' = [pending EXCEPT ![w] = Tail(@)]
  /\ Take(w)
  /\ UNCHANGED <<recordVars, todo, queue, phase, crashes, reruns, seen>>

\* handle_crashitem: a crash report for the first test that is not complete; the
\* others are handed out again, and a new worker takes the place.
TakeDown(w) ==
  /\ channel[w] # <<>> /\ Head(channel[w]).kind = "down"
  /\ IF pending[w] = <<>>
     THEN UNCHANGED <<recordVars, todo, seen>>
     ELSE /\ HandleLogreport(Head(pending[w]), CrashReport)
          /\ seen' = [seen EXCEPT ![Head(pending[w])] = @ \cup {CrashReport}]
          /\ todo' = todo \cup ToSet(Tail(pending[w]))
  /\ pending' = [pending EXCEPT ![w] = <<>>]
  /\ phase' = [phase EXCEPT ![w] = "setup"]
  /\ Take(w)
  /\ UNCHANGED <<queue, crashes, reruns>>

-----------------------------------------------------------------------------
Work(w) == RunPhase(w) \/ Complete(w)

Control(w) == TakeReport(w) \/ TakeComplete(w) \/ TakeDown(w)

Next ==
  \E w \in Workers : Assign(w) \/ Work(w) \/ Rerun(w) \/ Crash(w) \/ Control(w)

Spec == Init /\ [][Next]_vars

\* Workers and the controller go on, and tests are handed out; reruns and
\* crashes need not happen.
FairSpec ==
  /\ Spec
  /\ \A w \in Workers : WF_vars(Assign(w)) /\ WF_vars(Work(w)) /\ WF_vars(Control(w))

-----------------------------------------------------------------------------
(* Properties *)

Ended(t) == \E report \in seen[t] : report.when \in {"teardown", "crash"}

\* The recorder keeps its promise with what it accumulated of an attempt in place
\* of the reports themselves.
Recording == INSTANCE Recording WITH attempt <- seen, outcome <- outcomes

\* The outcome of a test is the one its last attempt's reports imply, however
\* the events of the workers interleave and wherever one crashed
\* (_accumulate, _finalize).
OutcomeFollowsReports ==
  \A t \in Tests : Ended(t) => outcomes[t] = Recording!Verdict(seen[t])

\* An accumulator is open only for the test at the head of a worker's list, so
\* that whatever ends that list, the test's completion or a crash, finalizes it
\* and none "would sit unfinished forever" (module docstring of record.py).
OpenIsRunning ==
  \A t \in Tests : accumulators[t].open =>
    \E w \in Workers : pending[w] # <<>> /\ Head(pending[w]) = t

\* Whatever the order of events, an outcome is real and no report is stranded
\* (handle_logreport).
ReportsAccounted == TypeOK /\ OutcomeFollowsReports /\ OpenIsRunning

\* No attempt begins before the last one is over, and an outcome is replaced at the
\* end of an attempt only, by what its reports imply: not by a rerun under way, nor by
\* the reports or the crash of another test (handle_logreport, _accumulate, _finalize).
RecordingSpec == Recording!Spec

\* The recorder keeps its promise, and at no time strands a report.
ReportsSound == RecordingSpec /\ []ReportsAccounted

\* Every test gets an outcome, and no report stays in an accumulator.
EveryTestRecorded ==
  <>[](\A t \in Tests : outcomes[t] # "none" /\ ~accumulators[t].open)
=============================================================================
