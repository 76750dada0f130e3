---------------------------- MODULE DriveDagRun ----------------------------
(***************************************************************************)
(* How run_dag and dag_maker.run drive one DagRun to its end: drive_dag_run*)
(* (_compat/taskrun.py) walks the task instances in topological order and  *)
(* settles each through one of two adapters, in this process or through an *)
(* executor whose workers are other processes (_compat/executor.py).       *)
(*                                                                         *)
(* Airflow's own part is external: when a trigger rule is met, what one    *)
(* pass of DagRun.update_state marks, how a task body may end.             *)
(***************************************************************************)
EXTENDS Integers, FiniteSets

CONSTANTS
  N,             \* tasks are 1..N, in topological order
  Graphs,        \* the graphs to drive: upstream, mapped and all_done tasks
  MaxMap         \* bound on the instances a mapped task expands to

\* An upstream task comes first in topological order.
ASSUME DriveAssumption ==
  /\ N \in Nat \ {0} /\ MaxMap \in Nat
  /\ \A g \in Graphs :
       /\ g \in [up : [1..N -> SUBSET (1..N)], mapped : SUBSET (1..N), all_done : SUBSET (1..N)]
       /\ \A t \in 1..N : \A u \in g.up[t] : u < t

VARIABLES
  graph,         \* the Dag: [up, mapped, all_done]
  adapter,       \* "in_process" or "executor"
  triggerer,     \* run_triggerer
  state,         \* each task instance's row
  run,           \* the DagRun's state
  runtime,       \* whether the executor was started and not ended
  step, ti,        \* where the driver stands, and with which instance
  attempted, expansion_attempted, executed, errors,   \* drive_dag_run's locals
  reported, late,                     \* _await_settled: an exception, the clock
  previous, passes,                                   \* _settle_dag_run's locals
  working,       \* instances a worker process holds
  events,        \* the executor's event buffer, [of, error]
  ran, raised,   \* whose body started, and whose ended with an exception
  unexpanded     \* tasks whose expansion raised (not variables of the code)

driver == <<attempted, expansion_attempted, executed, errors, reported, late, previous, passes,
            unexpanded>>
call == <<graph, adapter, triggerer, runtime>>
workers == <<working, events, ran, raised>>
driveVars == <<call, state, run, step, ti, driver, workers>>

Tasks == 1..N
Instances == Tasks \X (-1..(MaxMap - 1))
NoTi == <<0, -1>>
Task(i) == i[1]

Terminal == {"success", "failed", "skipped", "upstream_failed"}
InFlight == {"queued", "running"}
\* Neither terminal nor in flight: what a triggerer or a scheduler goes on from.
\* (up_for_reschedule goes the way of a deferral nobody resumes.)
Parked == {"deferred", "up_for_retry"}
States == {"absent", "none", "scheduled"} \cup Terminal \cup InFlight \cup Parked

DriveTypeOK ==
  /\ graph \in Graphs
  /\ adapter \in {"in_process", "executor"} /\ triggerer \in BOOLEAN
  /\ state \in [Instances -> States]
  /\ run \in {"running", "success", "failed"}
  /\ runtime \in {"off", "on"}
  /\ step \in {"open", "pick", "dispatch", "resume", "resumed", "await", "look", "settle", "snapshot",
             "done", "aborted"}
  /\ ti \in Instances \cup {NoTi}
  /\ attempted \subseteq Instances /\ expansion_attempted \subseteq Tasks
  /\ executed \subseteq Instances /\ errors \subseteq Instances
  /\ reported \in BOOLEAN /\ late \in BOOLEAN
  /\ previous \in [Instances -> States] /\ passes \in Nat
  /\ working \subseteq Instances
  /\ events \subseteq [of : Instances, error : BOOLEAN]
  /\ ran \subseteq Instances /\ raised \subseteq Instances /\ unexpanded \subseteq Tasks

DriveInit ==
  /\ graph \in Graphs
  /\ adapter \in {"in_process", "executor"}
  /\ triggerer \in IF adapter = "executor" THEN {FALSE} ELSE BOOLEAN
  /\ state = [i \in Instances |-> IF i[2] = -1 THEN "none" ELSE "absent"]
  /\ run = "running" /\ runtime = "off"
  /\ step = (IF adapter = "executor" THEN "open" ELSE "pick") /\ ti = NoTi
  /\ attempted = {} /\ expansion_attempted = {} /\ executed = {} /\ errors = {}
  /\ reported = FALSE /\ late = FALSE
  /\ previous = [i \in Instances |-> "absent"] /\ passes = 0
  /\ working = {} /\ events = {} /\ ran = {} /\ raised = {} /\ unexpanded = {}

-----------------------------------------------------------------------------
(* executor_runtime *)

\* What an executor-driven run needs: the Dag's file lies in the folder the
\* workers parse, the selector names an executor class - an alias, a dotted
\* path, a class or an instance - and the class passes the static checks.
Prerequisites == [dag_file : {"none", "outside", "inside"}, is_executor : BOOLEAN, conforms : BOOLEAN,
                  selector : {"instance", "class", "alias", "path", "unresolved"}]

LocatesDag(q) == q.dag_file = "inside"
ResolvesExecutor(q) == q.selector # "unresolved" /\ q.is_executor

\* An executor whose start raises is not ended: it never started.
OpenRuntime ==
  /\ step = "open"
  /\ \E q \in Prerequisites, starts \in BOOLEAN :
       IF LocatesDag(q) /\ ResolvesExecutor(q) /\ q.conforms /\ starts
       THEN runtime' = "on" /\ step' = "pick"
       ELSE step' = "aborted" /\ UNCHANGED runtime
  /\ UNCHANGED <<graph, adapter, triggerer, state, run, ti, driver, workers>>

\* The finally clause: end is called however the drive went; it may raise, and
\* the result is lost.
CloseRuntime ==
  /\ step \in {"done", "aborted"} /\ runtime = "on"
  /\ runtime' = "off"
  /\ step' \in {step, "aborted"}
  /\ UNCHANGED <<graph, adapter, triggerer, state, run, ti, driver, workers>>

-----------------------------------------------------------------------------
(* Task instances *)

Present == {i \in Instances : state[i] # "absent"}
Of(tasks) == {i \in Present : Task(i) \in tasks}
Upstream(i) == Of(graph.up[Task(i)])

-----------------------------------------------------------------------------
(* Airflow's trigger rules *)

Settled(i) == \A u \in Upstream(i) : state[u] \in Terminal

\* all_success and all_done, the two rules of the graphs.
Met(i) ==
  IF Task(i) \in graph.all_done THEN Settled(i)
  ELSE \A u \in Upstream(i) : state[u] = "success"

\* flag_upstream_failed: what the evaluation of an unmet rule writes.
Flagged(i) ==
  IF Task(i) \in graph.all_done THEN "none"
  ELSE IF \E u \in Upstream(i) : state[u] \in {"failed", "upstream_failed"} THEN "upstream_failed"
  ELSE IF \E u \in Upstream(i) : state[u] = "skipped" THEN "skipped"
  ELSE "none"

-----------------------------------------------------------------------------
(* drive_dag_run *)

\* Mutant: the instances are listed once, before any mapped task expands.
PendingAtStart(i) == state[i] # "absent" /\ i \notin attempted /\ i[2] = -1

\* _next_pending_task_instance: listed anew for every instance.
Pending(i) == state[i] # "absent" /\ i \notin attempted

Before(i, j) == i[1] < j[1] \/ (i[1] = j[1] /\ i[2] < j[2])

Next1(i) == step = "pick" /\ Pending(i) /\ \A j \in Instances : Pending(j) => ~Before(j, i)

IsMapped(i) == i[2] < 0 /\ Task(i) \in graph.mapped

\* An instance a branch skipped, or an expansion to nothing.
VisitSettled ==
  /\ \E i \in Instances :
       /\ Next1(i) /\ state[i] # "none"
       /\ attempted' = attempted \cup {i}
  /\ UNCHANGED <<call, state, run, step, ti, expansion_attempted, executed,
                 errors, reported, late, previous, passes, unexpanded, workers>>

ExpandsNow(i) ==
  /\ Next1(i) /\ state[i] = "none"
  /\ IsMapped(i) /\ Task(i) \notin expansion_attempted

\* A mapped task expands once its upstreams settled: the placeholder becomes its
\* first instance, or is skipped if there is nothing to map over, or fails if
\* an upstream left no value to map over.
Expand ==
  /\ \E i \in Instances, count \in 0..MaxMap, missing \in BOOLEAN :
       /\ ExpandsNow(i) /\ Settled(i)
       /\ missing => count = 0 /\ \E u \in Upstream(i) : state[u] # "success"
       /\ expansion_attempted' = expansion_attempted \cup {Task(i)}
       /\ state' = [j \in Instances |->
            IF Task(j) # Task(i) THEN state[j]
            ELSE IF count = 0 THEN IF j # i THEN "absent" ELSE IF missing THEN "upstream_failed" ELSE "skipped"
            ELSE IF j[2] \in 0..(count - 1) THEN "none" ELSE "absent"]
  /\ UNCHANGED <<call, run, step, ti, attempted, executed, errors, reported, late,
                 previous, passes, unexpanded, workers>>

\* It does not: some upstream is unsettled, or the expansion raises.
ExpandFails ==
  /\ \E i \in Instances :
       /\ ExpandsNow(i)
       /\ expansion_attempted' = expansion_attempted \cup {Task(i)}
       /\ attempted' = attempted \cup {i}
       /\ unexpanded' = IF Settled(i) THEN unexpanded \cup {Task(i)} ELSE unexpanded
  /\ UNCHANGED <<call, state, run, step, ti, executed, errors, reported, late,
                 previous, passes, workers>>

Runnable(i) ==
  /\ Next1(i) /\ state[i] = "none"
  /\ ~(IsMapped(i) /\ Task(i) \notin expansion_attempted)

\* dependencies_met refuses, and writes what it flagged.
Blocked ==
  /\ \E i \in Instances :
       /\ Runnable(i) /\ ~Met(i)
       /\ attempted' = attempted \cup {i}
       /\ state' = [state EXCEPT ![i] = Flagged(i)]
  /\ UNCHANGED <<call, run, step, ti, expansion_attempted, executed, errors,
                 reported, late, previous, passes, unexpanded, workers>>

Dispatch ==
  /\ \E i \in Instances :
       /\ Runnable(i) /\ Met(i)
       /\ attempted' = attempted \cup {i}
       /\ ti' = i
  /\ step' = "dispatch"
  /\ UNCHANGED <<call, state, run, expansion_attempted, executed, errors,
                 reported, late, previous, passes, unexpanded, workers>>

\* A DagRunDriveError: the task is not resolved, its trigger has no row or yields
\* no event in time. Nothing settles the run, nothing is returned.
Abort ==
  /\ step \in {"dispatch", "resume", "resumed"}
  /\ step' = "aborted"
  /\ UNCHANGED <<call, state, run, ti, driver, workers>>

\* settle returned, or raised what drive_dag_run records; `after` is the state
\* it left the instance in.
Returned(error, after) ==
  /\ errors' = IF error THEN errors \cup {ti} ELSE errors
  /\ executed' = IF after # "none" THEN executed \cup {ti} ELSE executed
  /\ ti' = NoTi
  /\ step' = "pick"

-----------------------------------------------------------------------------
(* The in-process adapter: run_task_instance *)

Outcomes == {"success", "failed", "skipped"} \cup Parked
Fails(outcome) == outcome \in {"failed", "up_for_retry"}

\* A body that succeeds may branch: tasks right below it are skipped.
AfterBody(i, outcome, branched) ==
  [j \in Instances |-> IF j = i THEN outcome
                       ELSE IF state[j] = "none" /\ Task(j) \in branched THEN "skipped"
                       ELSE state[j]]

MayBranch(i, outcome, branched) ==
  /\ branched \subseteq {t \in Tasks : Task(i) \in graph.up[t]}
  /\ outcome # "success" => branched = {}

\* _run_sdk_task_instance: the gate was just evaluated, and lets the body run.
Attempt(outcome, branched) ==
  /\ MayBranch(ti, outcome, branched)
  /\ state' = AfterBody(ti, outcome, branched)
  /\ ran' = ran \cup {ti}
  /\ raised' = IF Fails(outcome) THEN raised \cup {ti} ELSE raised

\* The exception of the body is raised again and recorded.  A deferral is
\* resumed, once, if the caller asked for it.
RunBody ==
  /\ step \in {"dispatch", "resumed"} /\ adapter = "in_process"
  /\ \E outcome \in Outcomes, branched \in SUBSET Tasks :
       /\ Attempt(outcome, branched)
       /\ IF outcome = "deferred" /\ triggerer /\ step = "dispatch"
          THEN step' = "resume" /\ UNCHANGED <<ti, errors, executed>>
          ELSE Returned(Fails(outcome), outcome)
  /\ UNCHANGED <<call, run, attempted, expansion_attempted, reported, late,
                 previous, passes, unexpanded, working, events>>

\* run_trigger: the first event is submitted to the instance ...
ResumeDeferred ==
  /\ step = "resume"
  /\ state' = [state EXCEPT ![ti] = "scheduled"]
  /\ step' = "resumed"
  /\ UNCHANGED <<call, run, ti, driver, workers>>

\* ... or the trigger raises, which is recorded as the instance's own error.
TriggerRaises ==
  /\ step = "resume"
  /\ raised' = raised \cup {ti}
  /\ Returned(TRUE, state[ti])
  /\ UNCHANGED <<call, state, run, attempted, expansion_attempted, reported, late,
                 previous, passes, unexpanded, working, events, ran>>

-----------------------------------------------------------------------------
(* The executor adapter: _queue, _await_settled *)

Queue ==
  /\ step = "dispatch" /\ adapter = "executor"
  /\ state' = [state EXCEPT ![ti] = "queued"]
  /\ working' = working \cup {ti}
  /\ step' = "await" /\ reported' = FALSE /\ late' = FALSE
  /\ UNCHANGED <<call, run, ti, attempted, expansion_attempted, executed,
                 errors, previous, passes, unexpanded, events, ran, raised>>

\* The row is committed as queued, then the workload is refused.
QueueRaises ==
  /\ step = "dispatch" /\ adapter = "executor"
  /\ state' = [state EXCEPT ![ti] = "queued"]
  /\ raised' = raised \cup {ti}
  /\ Returned(TRUE, "queued")
  /\ UNCHANGED <<call, run, attempted, expansion_attempted, reported, late,
                 previous, passes, unexpanded, working, events, ran>>

\* The workers are followed while the driver waits: nothing else reads what they do.
Waiting == step \in {"await", "look"}

WorkerStarts ==
  /\ Waiting
  /\ \E i \in working :
       /\ state[i] = "queued"
       /\ state' = [state EXCEPT ![i] = "running"]
       /\ ran' = ran \cup {i}
  /\ UNCHANGED <<call, run, step, ti, driver, working, events, raised>>

\* The worker reports its final state to the API server ...
WorkerReports ==
  /\ Waiting
  /\ \E i \in working, outcome \in Outcomes, branched \in SUBSET Tasks :
       /\ state[i] = "running"
       /\ MayBranch(i, outcome, branched)
       /\ state' = AfterBody(i, outcome, branched)
       /\ raised' = IF Fails(outcome) THEN raised \cup {i} ELSE raised
  /\ UNCHANGED <<call, run, step, ti, driver, working, events, ran>>

\* ... and some time later its exit, clean or with an exception, reaches the
\* executor's buffer; a worker that dies before that leaves the row as it is.
\* (Only a heartbeat reads the buffer: exits are taken right before one.)
WorkerExits ==
  /\ step = "await"
  /\ \E i \in working, error \in BOOLEAN :
       /\ state[i] \in InFlight => error
       /\ state[i] \in Terminal \cup Parked => (error => i \in raised)
       /\ working' = working \ {i}
       /\ events' = events \cup {[of |-> i, error |-> error]}
       /\ raised' = IF error THEN raised \cup {i} ELSE raised
  /\ UNCHANGED <<call, state, run, step, ti, driver, ran>>

\* _drain_events drops the events of other instances.
Reported(i) == \E e \in events : e.of = i /\ e.error

Heartbeat ==
  /\ step = "await"
  /\ reported' = (Reported(ti) \/ reported)
  /\ events' = {}
  /\ step' = "look"
  /\ UNCHANGED <<call, state, run, ti, attempted, expansion_attempted,
                 executed, errors, previous, passes, unexpanded, late, working, ran, raised>>

LookSettled ==
  /\ step = "look" /\ state[ti] \notin InFlight
  /\ Returned(reported, state[ti])
  /\ UNCHANGED <<call, state, run, attempted, expansion_attempted, reported, late,
                 previous, passes, unexpanded, workers>>

\* Mutant: the deadline is never looked at.
NoDeadline == FALSE

PastDeadline == late

LookAgain ==
  /\ step = "look" /\ state[ti] \in InFlight /\ ~PastDeadline
  /\ step' = "await"
  /\ UNCHANGED <<call, state, run, ti, driver, workers>>

\* ExecutorRunError: the instance is still in flight at the deadline.
Deadline ==
  /\ step = "look" /\ state[ti] \in InFlight /\ PastDeadline
  /\ step' = "aborted"
  /\ UNCHANGED <<call, state, run, ti, driver, workers>>

\* time.monotonic() goes on.
Clock ==
  /\ step \in {"await", "look"} /\ ~late
  /\ late' = TRUE
  /\ UNCHANGED <<call, state, run, step, ti, attempted, expansion_attempted,
                 executed, errors, reported, previous, passes, unexpanded, workers>>

-----------------------------------------------------------------------------
(* _settle_dag_run *)

EndOfWalk ==
  /\ step = "pick" /\ \A i \in Instances : ~Pending(i)
  /\ step' = "settle"
  /\ UNCHANGED <<call, state, run, ti, driver, workers>>

\* One pass of DagRun.update_state: rules are evaluated on the states before it.
Marked == [i \in Instances |-> IF state[i] = "none" /\ ~Met(i) THEN Flagged(i) ELSE state[i]]

Leaves == {t \in Tasks : \A s \in Tasks : t \notin graph.up[s]}

\* With nothing unfinished, the leaves decide; a run whose unfinished instances
\* all wait for each other has failed.
RunState(marked) ==
  LET unfinished == {i \in Present : marked[i] \notin Terminal} IN
  IF unfinished = {}
  THEN IF \E i \in Of(Leaves) : marked[i] \in {"failed", "upstream_failed"} THEN "failed" ELSE "success"
  ELSE IF marked = state /\ \A i \in unfinished : marked[i] = "none" /\ ~Met(i) THEN "failed"
  ELSE "running"

Bound == Cardinality(Present) + 2

\* Past the bound, the loop gives up with a warning.
UpdateState ==
  /\ step = "settle"
  /\ IF passes = Bound
     THEN step' = "snapshot" /\ UNCHANGED <<state, run, passes, previous>>
     ELSE /\ state' = Marked /\ run' = RunState(Marked)
          /\ passes' = passes + 1 /\ previous' = Marked
          /\ step' = IF run' # "running" \/ Marked = previous THEN "snapshot" ELSE "settle"
  /\ UNCHANGED <<call, ti, attempted, expansion_attempted, executed, errors,
                 reported, late, workers, unexpanded>>

\* _snapshot_dag_run reads every instance and its return value, which may not
\* deserialize.
Snapshot ==
  /\ step = "snapshot"
  /\ step' \in {"done", "aborted"}
  /\ UNCHANGED <<call, state, run, ti, driver, workers>>

Ended == step \in {"done", "aborted"} /\ runtime = "off" /\ UNCHANGED driveVars

Drive ==
  \/ VisitSettled \/ Expand \/ ExpandFails \/ Blocked \/ Dispatch
  \/ OpenRuntime \/ CloseRuntime \/ ResumeDeferred \/ TriggerRaises \/ Snapshot
  \/ RunBody \/ Queue \/ QueueRaises \/ Heartbeat \/ LookSettled \/ LookAgain \/ Deadline
  \/ EndOfWalk \/ UpdateState

DriveNext == Drive \/ Abort \/ Clock \/ WorkerStarts \/ WorkerReports \/ WorkerExits \/ Ended

\* The driver is an ordinary thread and the clock goes on; of the workers
\* nothing is assumed: they may hang.
Fairness == WF_driveVars(Drive) /\ WF_driveVars(Clock)

DriveSpec == DriveInit /\ [][DriveNext]_driveVars /\ Fairness

-----------------------------------------------------------------------------
(* Properties *)

\* A drive that returns left nothing behind: unless an instance is parked or in
\* flight, or an expansion raised, every instance is in a terminal state, those
\* of mapped tasks that expanded under way included.
AllDriven ==
  (step = "done" /\ unexpanded = {} /\ \A i \in Present : state[i] \notin Parked \cup InFlight)
    => \A i \in Present : state[i] \in Terminal

\* When the run is settled, another pass of update_state would change nothing:
\* the bound on the passes is long enough for every chain of failures.
SettlesAtFixedPoint == step \in {"snapshot", "done"} => state = Marked

\* A returned error is of the instance it is filed under: late events of the
\* instances before it are not charged to it.
ErrorsAreOwn == errors \subseteq raised

\* A drive that returns has driven every instance, to the states update_state would give
\* them, and reports the errors under the instances that raised them (drive_dag_run,
\* _settle_dag_run, _await_settled).
DriveSound == DriveTypeOK /\ AllDriven /\ SettlesAtFixedPoint /\ ErrorsAreOwn

\* The drive ends and its executor is ended, whatever the workers do.
DriveEnds == <>[](step \in {"done", "aborted"} /\ runtime = "off")
=============================================================================
