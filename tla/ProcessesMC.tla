----------------------------- MODULE ProcessesMC ----------------------------
(***************************************************************************)
(* Who starts processes of its own and waits for them: a worker its API    *)
(* server (ApiServer), the session a child for every isolated batch        *)
(* (IsolatedBatch).  The two share no state: a behaviour is one of them,   *)
(* and the other part stays where it has nothing to do.                    *)
(***************************************************************************)
EXTENDS ApiServer, IsolatedBatch, TLC

CONSTANTS a1, a2, b1, A, B

VARIABLE isolating

ASSUME BatchAssumption /\ ReportsEnd /\ ProtocolsAreWhole

\* The tests of a module need not be neighbours in the run.
MCOrder == <<a1, b1, a2>>
MCBatchOf == [t \in {a1, a2, b1} |-> IF t = b1 THEN B ELSE A]

Passed(when) == Report(when, "passed", FALSE)
Failed(when) == Report(when, "failed", FALSE)

MCChildReports ==
  {<<Passed("setup"), Passed("call"), Passed("teardown")>>,
   <<Passed("setup"), Failed("call"), Passed("teardown")>>,
   <<Failed("setup"), Passed("teardown")>>}

\* A session interrupted before its first batch.
NotIsolating ==
  /\ RecordInit
  /\ due = 1 /\ step = "interrupted" /\ replayed = 0
  /\ started = {} /\ failure = {} /\ reports = [t \in Tests |-> <<>>]
  /\ child = [b \in Batches |-> "none"] /\ envelope = [b \in Batches |-> NoEnvelope]
  /\ complete = FALSE

NotLaunching ==
  /\ pc = [w \in Workers |-> "stopped"]
  /\ attempt = [w \in Workers |-> 1] /\ polls = [w \in Workers |-> 0]
  /\ ending = [w \in Workers |-> "none"]
  /\ port = [w \in Workers |-> [a \in Attempts |-> CHOOSE p \in Ports : TRUE]]
  /\ server = [w \in Workers |-> [a \in Attempts |-> "none"]]

MCInit ==
  /\ isolating \in BOOLEAN
  /\ IF isolating THEN NotLaunching /\ BatchInit ELSE Init /\ NotIsolating

MCNext ==
  /\ UNCHANGED isolating
  /\ \/ ~isolating /\ Next /\ UNCHANGED sessionVars
     \/ isolating /\ BatchNext /\ UNCHANGED vars

\* The fairness of both.
MCSpec ==
  /\ MCInit /\ [][MCNext]_<<vars, sessionVars, isolating>>
  /\ \A w \in Workers : WF_vars(Launch(w))
  /\ \A w \in Workers : \A a \in Attempts : WF_vars(Process(w, a))
  /\ WF_sessionVars(Protocol)
=============================================================================
