---------------------------- MODULE DagMetadata ----------------------------
(***************************************************************************)
(* The Dags that dag_maker and run_dag register in the metadata database   *)
(* (_compat/dag.py, fixtures/dag.py, _compat/registry.py).  The database is*)
(* one SQLite file that every xdist worker shares: one writer at a time,   *)
(* reads outside the lock, the ids of deleted runs handed out again.       *)
(*                                                                         *)
(* A test registers Dags one after the other, each with a record of what   *)
(* it owns, creates runs, lets Airflow create some of its own, and its     *)
(* teardown cleans the records up in reverse.                              *)
(***************************************************************************)
EXTENDS Integers, Sequences

CONSTANTS
  Workers,      \* xdist workers
  Serial,       \* the worker that stands for a run without xdist
  Dags,         \* dag ids
  DagsOf,       \* the dag ids of each worker's tests; xdist workers share none
  Testing,      \* the bundle of testing_dag_bundle
  CodeRow,      \* 2.x: the dag_code row of the one source file
  NoModel, NoRecord, Nobody,
  Tests,        \* how many tests each worker runs
  MaxRecords,   \* bound on the Dags one test of each worker registers
  MaxRunId,        \* bound on DagRun ids
  FaultyWorkers,       \* workers where operations raise, and whose tests drift models,
                \* delete runs, name the shared bundle, register a Dag twice
  Borrowing     \* workers whose tests pass a session of their own

ASSUME DagAssumption ==
  /\ Serial \in Workers
  /\ DagsOf \in [Workers -> SUBSET Dags]
  /\ \A v, w \in Workers \ {Serial} : v # w => DagsOf[v] \cap DagsOf[w] = {}
  /\ Testing \notin Dags /\ CodeRow \notin Dags \cup {Testing}
  /\ NoModel \notin Dags \cup {Testing, CodeRow}
  /\ Nobody \notin Workers
  /\ Tests \in [Workers -> Nat]
  /\ MaxRecords \in [Workers -> Nat] /\ MaxRunId \in Nat

VARIABLES
  family,     \* "v2" or "v3", the installed Airflow
  running,    \* the workers of this run
  db,         \* the committed rows
  writer,       \* whose session holds the write lock
  at,         \* where each worker's test stands
  tests,      \* tests each worker has finished
  cur,        \* the record of the Dag being registered
  saw,        \* whether its first read found the bundle, or the dag_code row
  recs,       \* the records the teardown will clean up
  persisted,  \* _PERSISTED_DAG_IDS
  authoring,  \* _AUTHORING_DAGS
  staged,     \* the test's own state on the session it lends
  problems,     \* what the worker's tests reported
  live        \* the rows the running test relies on (not a variable of the code)

local == <<cur, saw, recs, persisted, authoring, staged, problems, live>>
dagVars == <<family, running, db, writer, at, tests, local>>

Bundles == Dags \cup {Testing}   \* _bundle_name is a function of the dag id
RunIds == 1..MaxRunId
Runs == [id : RunIds, dag : Dags, by : {"fixture", "airflow"}]
Registrations == [dag : Dags, bundle : Bundles]
Records == [dag : Dags, bundle : Bundles, session : {"owned", "borrowed"},
            created : BOOLEAN, runs : SUBSET RunIds]

\* testing_dag_bundle's row, for a test that asked for it.
SharedBundle == [dag |-> Testing, bundle |-> Testing]

Databases == [models : [Dags -> Bundles \cup {NoModel}], versions : SUBSET Registrations,
              runs : SUBSET Runs, shared : SUBSET (Bundles \cup {CodeRow})]

DagTypeOK ==
  /\ family \in {"v2", "v3"} /\ running \in {{Serial}, Workers \ {Serial}}
  /\ db \in Databases
  /\ writer \in Workers \cup {Nobody}
  /\ at \in [Workers -> {"body", "authoring", "read", "written", "committed",
                        "discarding", "teardown"}]
  /\ tests \in [Workers -> Nat]
  /\ cur \in [Workers -> Records \cup {NoRecord}]
  /\ saw \in [Workers -> BOOLEAN]
  /\ recs \in [Workers -> Seq(Records)]
  /\ persisted \in [Workers -> SUBSET Dags] /\ authoring \in [Workers -> SUBSET Dags]
  /\ staged \in [Workers -> {"none", "staged", "flushed", "durable", "lost"}]
  /\ problems \in [Workers -> SUBSET {"refused", "failed"}]
  /\ live \in [Workers -> SUBSET (Registrations \cup {SharedBundle} \cup Runs)]

DagInit ==
  /\ family \in {"v2", "v3"}
  /\ running \in {{Serial}, Workers \ {Serial}}
  /\ db = [models |-> [d \in Dags |-> NoModel], versions |-> {}, runs |-> {}, shared |-> {}]
  /\ writer = Nobody
  /\ at = [w \in Workers |-> "body"]
  /\ tests = [w \in Workers |-> 0]
  /\ cur = [w \in Workers |-> NoRecord]
  /\ saw = [w \in Workers |-> FALSE]
  /\ recs = [w \in Workers |-> <<>>]
  /\ persisted = [w \in Workers |-> {}]
  /\ authoring = [w \in Workers |-> {}]
  /\ staged = [w \in Workers |-> "none"]
  /\ problems = [w \in Workers |-> {}]
  /\ live = [w \in Workers |-> {}]

v2 == family = "v2"
xdist == running # {Serial}

Current(w) == recs[w][Len(recs[w])]
InBody(w) == at[w] = "body" /\ tests[w] < Tests[w]
Move(w, from, to) ==
  /\ at[w] = from
  /\ at' = [at EXCEPT ![w] = to]

\* A session may write if no other holds the lock; the lock of a test that
\* flushed without committing is its borrowed session's.
CanWrite(w, session) ==
  \/ writer = Nobody
  \/ writer = w /\ session = "borrowed"

\* A commit on the borrowed session makes what the test staged durable, a
\* rollback discards it.
Committed(w, session) ==
  IF session = "borrowed" /\ staged[w] \in {"staged", "flushed"} THEN "durable" ELSE staged[w]
Discarded(w, session) ==
  IF session = "borrowed" /\ staged[w] \in {"staged", "flushed"} THEN "lost" ELSE staged[w]

Report(w, error) == problems' = [problems EXCEPT ![w] = @ \cup {error}]
Forget(w, dag) == live' = [live EXCEPT ![w] = {x \in @ : x.dag # dag}]
Released(w, session) ==
  IF writer = w /\ (session = "borrowed" \/ at[w] = "written") THEN Nobody ELSE writer

-----------------------------------------------------------------------------
(* What the deletions match *)

\* Mutant: by primary key alone.
DeleteOwnedById(runs, r) == {x \in runs : x.id \notin r.runs}

\* _delete_dag_run_rows: by id, and again by dag.
DeleteOwned(runs, r) == {x \in runs : ~(x.id \in r.runs /\ x.dag = r.dag)}

Removed2(d, r) ==
  [d EXCEPT !.runs = DeleteOwned(@, r),
            !.versions = {v \in @ : v.dag # r.dag},
            !.models[r.dag] = NoModel]

\* Mutant: only the runs the record knows.
Removed3Owned(d, r) ==
  [d EXCEPT !.runs = DeleteOwned(@, r),
            !.versions = @ \ {[dag |-> r.dag, bundle |-> r.bundle]},
            !.models[r.dag] = IF @ = r.bundle THEN NoModel ELSE @,
            !.shared = IF r.created THEN @ \ {r.bundle} ELSE @]

\* _delete_dag_runs: whoever made them; the ids the record knows count for
\* nothing, they may name another Dag's run by now.
SweptRuns(runs, r) == {x \in runs : x.dag # r.dag}

\* Runs and backfills by dag id, versions by dag and bundle, the model if it is
\* still of that bundle, the bundle if the record made it and no model is left.
Removed3(d, r) ==
  LET swept == [d EXCEPT !.runs = SweptRuns(@, r),
                         !.versions = @ \ {[dag |-> r.dag, bundle |-> r.bundle]},
                         !.models[r.dag] = IF @ = r.bundle THEN NoModel ELSE @]
  IN IF r.created /\ \A dag \in Dags : swept.models[dag] # r.bundle
     THEN [swept EXCEPT !.shared = @ \ {r.bundle}]
     ELSE swept

Removed(d, r) == IF v2 THEN Removed2(d, r) ELSE Removed3(d, r)

\* _purge_dag_metadata: everything of the dag id, whatever its bundle.
Purged(d, dag) ==
  [d EXCEPT !.runs = {x \in @ : x.dag # dag},
            !.versions = {v \in @ : v.dag # dag},
            !.models[dag] = NoModel]

SharedRow(r) == IF v2 THEN CodeRow ELSE r.bundle

Written(d, r) ==
  [d EXCEPT !.models[r.dag] = r.bundle,
            !.versions = @ \cup {[dag |-> r.dag, bundle |-> r.bundle]},
            !.shared = @ \cup {SharedRow(r)}]

-----------------------------------------------------------------------------
(* Registering a Dag: ensure_dag_registrable, then persist_dag *)

Record(dag, bundle, session) ==
  [dag |-> dag, bundle |-> bundle, session |-> session, created |-> FALSE, runs |-> {}]

\* The contexts a test may enter: a Dag, the derived bundle or one it names, a
\* session of its own or the fixture's.
Sessions(w) ==
  IF w \notin Borrowing THEN {"owned"}
  ELSE IF w \in FaultyWorkers THEN {"owned", "borrowed"} ELSE {"borrowed"}

WantedRecords(w) ==
  {Record(dag, bundle, session) : dag \in DagsOf[w], bundle \in Bundles, session \in Sessions(w)}

Wants(w, r) ==
  /\ InBody(w)
  /\ Len(recs[w]) < MaxRecords[w]
  /\ r \in WantedRecords(w)
  /\ r.bundle = r.dag \/ (r.bundle = Testing /\ w \in FaultyWorkers /\ ~v2)
  /\ w \in FaultyWorkers \/ \A i \in DOMAIN recs[w] : recs[w][i].dag # r.dag

Enter(w) ==
  /\ Move(w, "body", "authoring")
  /\ \E r \in WantedRecords(w) :
       /\ Wants(w, r)
       /\ db.models[r.dag] = NoModel
       /\ cur' = [cur EXCEPT ![w] = r]
  /\ UNCHANGED <<family, running, db, writer, tests, saw, recs, persisted, authoring, staged, problems, live>>

\* The row is there and this process never wrote it, or this is an xdist worker.
EnterRefused(w) ==
  /\ \E r \in WantedRecords(w) :
       /\ Wants(w, r)
       /\ db.models[r.dag] # NoModel
       /\ r.dag \notin persisted[w] \/ xdist
  /\ Report(w, "refused")
  /\ UNCHANGED <<family, running, db, writer, at, tests, cur, saw, recs, persisted, authoring, staged, live>>

\* A leftover of this process, or a Dag of this very test, is replaced.
EnterReplacing(w) ==
  /\ Move(w, "body", "authoring")
  /\ \E r \in WantedRecords(w) :
       /\ Wants(w, r)
       /\ db.models[r.dag] # NoModel
       /\ r.dag \in persisted[w] /\ ~xdist
       /\ CanWrite(w, r.session)
       /\ db' = Purged(db, r.dag)
       /\ cur' = [cur EXCEPT ![w] = r]
       /\ staged' = [staged EXCEPT ![w] = Committed(w, r.session)]
       /\ writer' = Released(w, r.session)
       /\ Forget(w, r.dag)
  /\ UNCHANGED <<family, running, tests, saw, recs, persisted, authoring, problems>>

PurgeRaises(w) ==
  /\ \E r \in WantedRecords(w) :
       /\ Wants(w, r)
       /\ db.models[r.dag] # NoModel
       /\ r.dag \in persisted[w] /\ ~xdist
       /\ w \in FaultyWorkers \/ ~CanWrite(w, r.session)
       /\ staged' = [staged EXCEPT ![w] = Discarded(w, r.session)]
       /\ writer' = Released(w, r.session)
  /\ Report(w, "failed")
  /\ UNCHANGED <<family, running, db, at, tests, cur, saw, recs, persisted, authoring, live>>

\* The context body raises: nothing was written, the record is dropped; only an
\* owned session is rolled back.
AuthoringRaises(w) ==
  /\ Move(w, "authoring", "body")
  /\ cur' = [cur EXCEPT ![w] = NoRecord]
  /\ UNCHANGED <<family, running, db, writer, tests, saw, recs, persisted, authoring, staged, problems, live>>

\* _ensure_bundle's get; 2.x: bulk_write_to_db looks for the dag_code row.
ReadShared(w) ==
  /\ Move(w, "authoring", "read")
  /\ saw' = [saw EXCEPT ![w] = SharedRow(cur[w]) \in db.shared]
  /\ UNCHANGED <<family, running, db, writer, tests, cur, recs, persisted, authoring, staged, problems, live>>

\* What the read found still holds: neither a duplicate nor a dangling bundle.
Fresh(w) == saw[w] <=> SharedRow(cur[w]) \in db.shared

\* bundle, model, version and serialized Dag in one transaction.
WriteRows(w) ==
  /\ Move(w, "read", "written")
  /\ CanWrite(w, cur[w].session)
  /\ Fresh(w)
  /\ writer' = w
  /\ cur' = [cur EXCEPT ![w].created = ~v2 /\ ~saw[w]]
  /\ UNCHANGED <<family, running, db, tests, saw, recs, persisted, authoring, staged, problems, live>>

\* Only the 2.x dag_code race, and never over what the test staged.
Retries(w) == v2 /\ ~(cur[w].session = "borrowed" /\ staged[w] = "staged")

\* Another worker inserted the dag_code row since: rollback and once more.
RetrySync(w) ==
  /\ Move(w, "read", "authoring")
  /\ ~Fresh(w) /\ Retries(w)
  /\ staged' = [staged EXCEPT ![w] = Discarded(w, cur[w].session)]
  /\ writer' = Released(w, cur[w].session)
  /\ UNCHANGED <<family, running, db, tests, cur, saw, recs, persisted, authoring, problems, live>>

\* persist_dag's commit; the history is written right after it.
CommitRows(w) ==
  /\ Move(w, "written", "committed")
  /\ db' = Written(db, cur[w])
  /\ writer' = Nobody
  /\ staged' = [staged EXCEPT ![w] = Committed(w, cur[w].session)]
  /\ persisted' = [persisted EXCEPT ![w] = @ \cup {cur[w].dag}]
  /\ UNCHANGED <<family, running, tests, cur, saw, recs, authoring, problems, live>>

\* The serialized Dag is read back; the record is the teardown's from now on.
LoadSerialized(w) ==
  /\ Move(w, "committed", "body")
  /\ recs' = [recs EXCEPT ![w] = Append(@, cur[w])]
  /\ cur' = [cur EXCEPT ![w] = NoRecord]
  /\ authoring' = [authoring EXCEPT ![w] = @ \cup {cur[w].dag}]
  /\ live' = [live EXCEPT ![w] = @ \cup {[dag |-> cur[w].dag, bundle |-> cur[w].bundle]}]
  /\ UNCHANGED <<family, running, db, writer, tests, saw, persisted, staged, problems>>

\* persist_dag's except clause: roll back, then clean up.
PersistRaises(w) ==
  /\ at[w] \in {"read", "written", "committed"}
  /\ \/ w \in FaultyWorkers
     \/ at[w] = "read" /\ writer = w /\ cur[w].session = "owned"
     \/ at[w] = "read" /\ ~Fresh(w) /\ ~Retries(w)
  /\ at' = [at EXCEPT ![w] = "discarding"]
  /\ writer' = Released(w, cur[w].session)
  /\ staged' = [staged EXCEPT ![w] = Discarded(w, cur[w].session)]
  /\ Report(w, "failed")
  /\ UNCHANGED <<family, running, db, tests, cur, saw, recs, persisted, authoring, live>>

\* The cleanup may fail too, and leaves rows if they were committed: no
\* teardown will know of the record.
Discard(w) ==
  /\ Move(w, "discarding", "body")
  /\ \/ w \in FaultyWorkers /\ UNCHANGED db
     \/ writer = Nobody /\ db' = Removed(db, cur[w])
     \/ writer = w /\ UNCHANGED db
  /\ cur' = [cur EXCEPT ![w] = NoRecord]
  /\ UNCHANGED <<family, running, writer, tests, saw, recs, persisted, authoring, staged, problems, live>>

\* A KeyboardInterrupt or pytest-timeout's failure is no Exception and passes
\* persist_dag by: __exit__ only rolls back and closes a session of its own.
Interrupted(w) ==
  /\ w \in FaultyWorkers
  /\ at[w] \in {"read", "written", "committed"} /\ cur[w].session = "owned"
  /\ at' = [at EXCEPT ![w] = "body"]
  /\ writer' = Released(w, "owned")
  /\ cur' = [cur EXCEPT ![w] = NoRecord]
  /\ Report(w, "failed")
  /\ UNCHANGED <<family, running, db, tests, saw, recs, persisted, authoring, staged, live>>

-----------------------------------------------------------------------------
(* The test body *)

HasDag(w) == InBody(w) /\ recs[w] # <<>>

\* SQLite's next rowid: the one after the highest present.
NextId(id) ==
  /\ \A x \in db.runs : x.id < id
  /\ id = 1 \/ \E x \in db.runs : x.id = id - 1

\* create_dag_run: 3.x wants the Dag's latest version; commit, then record.
CreateRun(w) ==
  /\ HasDag(w)
  /\ CanWrite(w, Current(w).session)
  /\ v2 \/ \E v \in db.versions : v.dag = Current(w).dag
  /\ \E id \in RunIds :
       LET x == [id |-> id, dag |-> Current(w).dag, by |-> "fixture"] IN
       /\ NextId(id)
       /\ db' = [db EXCEPT !.runs = @ \cup {x}]
       /\ recs' = [recs EXCEPT ![w][Len(recs[w])].runs = @ \cup {id}]
       /\ live' = [live EXCEPT ![w] = @ \cup {x}]
  /\ staged' = [staged EXCEPT ![w] = Committed(w, Current(w).session)]
  /\ writer' = Released(w, Current(w).session)
  /\ UNCHANGED <<family, running, at, tests, cur, saw, persisted, authoring, problems>>

CreateRunRaises(w) ==
  /\ HasDag(w)
  /\ \/ w \in FaultyWorkers
     \/ ~CanWrite(w, Current(w).session) /\ writer = w
     \/ ~v2 /\ \A v \in db.versions : v.dag # Current(w).dag
  /\ staged' = [staged EXCEPT ![w] = Discarded(w, Current(w).session)]
  /\ writer' = Released(w, Current(w).session)
  /\ Report(w, "failed")
  /\ UNCHANGED <<family, running, db, at, tests, cur, saw, recs, persisted, authoring, live>>

\* dag.test(), a Backfill: a run that no record knows.
AirflowRun(w) ==
  /\ HasDag(w) /\ writer = Nobody
  /\ db.models[Current(w).dag] # NoModel
  /\ \E id \in RunIds :
       LET x == [id |-> id, dag |-> Current(w).dag, by |-> "airflow"] IN
       /\ NextId(id)
       /\ db' = [db EXCEPT !.runs = @ \cup {x}]
       /\ live' = [live EXCEPT ![w] = @ \cup {x}]
  /\ UNCHANGED <<family, running, writer, at, tests, cur, saw, recs, persisted, authoring, staged, problems>>

\* The test deletes a run of its own; the record keeps the id.
TestDeletesRun(w) ==
  /\ w \in FaultyWorkers
  /\ HasDag(w) /\ writer = Nobody
  /\ \E x \in live[w] \cap db.runs :
       /\ db' = [db EXCEPT !.runs = @ \ {x}]
       /\ live' = [live EXCEPT ![w] = @ \ {x}]
  /\ UNCHANGED <<family, running, writer, at, tests, cur, saw, recs, persisted, authoring, staged, problems>>

\* ensure_shared_bundle inserts the row if it is absent; a
\* lost race is as good.
EnsureTesting(w) ==
  /\ InBody(w) /\ ~v2
  /\ SharedBundle \notin live[w]
  /\ Testing \in db.shared \/ writer = Nobody
  /\ db' = [db EXCEPT !.shared = @ \cup {Testing}]
  /\ live' = [live EXCEPT ![w] = @ \cup {SharedBundle}]
  /\ UNCHANGED <<family, running, writer, at, tests, cur, saw, recs, persisted, authoring, staged, problems>>

\* Upstream's sync_dags_to_db moves the Dag to another bundle.
DriftBundle(w) ==
  /\ w \in FaultyWorkers
  /\ HasDag(w) /\ writer = Nobody
  /\ Testing \in db.shared
  /\ db.models[Current(w).dag] # NoModel
  /\ db' = [db EXCEPT !.models[Current(w).dag] = Testing]
  /\ UNCHANGED <<family, running, writer, at, tests, local>>

\* resync_dag: the same writes on the same record.
Resync(w) ==
  /\ HasDag(w)
  /\ CanWrite(w, Current(w).session)
  /\ db' = Written(db, Current(w))
  /\ recs' = [recs EXCEPT ![w][Len(recs[w])].created = @ \/ (~v2 /\ Current(w).bundle \notin db.shared)]
  /\ live' = [live EXCEPT ![w] = @ \cup {[dag |-> Current(w).dag, bundle |-> Current(w).bundle]}]
  /\ authoring' = [authoring EXCEPT ![w] = @ \cup {Current(w).dag}]
  /\ staged' = [staged EXCEPT ![w] = Committed(w, Current(w).session)]
  /\ writer' = Released(w, Current(w).session)
  /\ UNCHANGED <<family, running, at, tests, cur, saw, persisted, problems>>

\* No cleanup: the rows of the first time stay for the teardown.
ResyncRaises(w) ==
  /\ HasDag(w)
  /\ w \in FaultyWorkers \/ (writer = w /\ Current(w).session = "owned")
  /\ staged' = [staged EXCEPT ![w] = Discarded(w, Current(w).session)]
  /\ writer' = Released(w, Current(w).session)
  /\ Report(w, "failed")
  /\ UNCHANGED <<family, running, db, at, tests, cur, saw, recs, persisted, authoring, live>>

\* The test adds objects to the session it lends, and may flush them: the write
\* lock stays with that session until somebody ends its transaction.
Stage(w) ==
  /\ w \in Borrowing
  /\ InBody(w) \/ at[w] = "authoring"
  /\ staged[w] \in {"none", "durable"}
  /\ staged' = [staged EXCEPT ![w] = "staged"]
  /\ UNCHANGED <<family, running, db, writer, at, tests, cur, saw, recs, persisted, authoring, problems, live>>

FlushStaged(w) ==
  /\ InBody(w) \/ at[w] = "authoring"
  /\ staged[w] = "staged" /\ writer = Nobody
  /\ staged' = [staged EXCEPT ![w] = "flushed"]
  /\ writer' = w
  /\ UNCHANGED <<family, running, db, at, tests, cur, saw, recs, persisted, authoring, problems, live>>

-----------------------------------------------------------------------------
(* Teardown: _close_records *)

EndTest(w) ==
  /\ InBody(w)
  /\ at' = [at EXCEPT ![w] = "teardown"]
  /\ UNCHANGED <<family, running, db, writer, tests, local>>

\* Mutant: the lent session is left as it is.
CanCleanUnrolled(w) == writer = Nobody

\* cleanup_dag rolls the lent session of this record back and works on a
\* fresh one; another session of the same test may still hold the lock.
CanClean(w) == CanWrite(w, Current(w).session)

Popped(w) ==
  /\ recs' = [recs EXCEPT ![w] = SubSeq(@, 1, Len(@) - 1)]
  /\ authoring' = [authoring EXCEPT ![w] = @ \ {Current(w).dag}]
  /\ Forget(w, Current(w).dag)

StagedAfter(w) ==
  IF Current(w).session = "borrowed" /\ staged[w] \in {"staged", "flushed"} THEN "none" ELSE staged[w]

CleanupDag(w) ==
  /\ at[w] = "teardown" /\ recs[w] # <<>>
  /\ CanClean(w)
  /\ db' = Removed(db, Current(w))
  /\ writer' = Nobody
  /\ staged' = [staged EXCEPT ![w] = StagedAfter(w)]
  /\ Popped(w)
  /\ UNCHANGED <<family, running, at, tests, cur, saw, persisted, problems>>

\* DagCleanupError; the other records are still cleaned up.
CleanupDagRaises(w) ==
  /\ at[w] = "teardown" /\ recs[w] # <<>>
  /\ w \in FaultyWorkers \/ (writer = w /\ ~CanClean(w))
  /\ writer' = Released(w, Current(w).session)
  /\ staged' = [staged EXCEPT ![w] = StagedAfter(w)]
  /\ Popped(w)
  /\ Report(w, "failed")
  /\ UNCHANGED <<family, running, db, at, tests, cur, saw, persisted>>

\* The lent session's own fixture ends it.
NextTest(w) ==
  /\ Move(w, "teardown", "body")
  /\ recs[w] = <<>>
  /\ tests' = [tests EXCEPT ![w] = @ + 1]
  /\ staged' = [staged EXCEPT ![w] = IF @ = "lost" THEN @ ELSE "none"]
  /\ writer' = IF writer = w THEN Nobody ELSE writer
  /\ live' = [live EXCEPT ![w] = {}]
  /\ UNCHANGED <<family, running, db, cur, saw, recs, persisted, authoring, problems>>

Register(w) ==
  \/ Enter(w) \/ EnterRefused(w) \/ EnterReplacing(w) \/ PurgeRaises(w) \/ AuthoringRaises(w)
  \/ ReadShared(w) \/ WriteRows(w) \/ RetrySync(w) \/ CommitRows(w) \/ LoadSerialized(w)
  \/ PersistRaises(w) \/ Discard(w) \/ Interrupted(w)

Body(w) ==
  \/ CreateRun(w) \/ CreateRunRaises(w) \/ AirflowRun(w) \/ TestDeletesRun(w)
  \/ EnsureTesting(w) \/ DriftBundle(w) \/ Resync(w) \/ ResyncRaises(w) \/ Stage(w) \/ FlushStaged(w)

Teardown(w) == EndTest(w) \/ CleanupDag(w) \/ CleanupDagRaises(w) \/ NextTest(w)

DagNext == \E w \in running : Register(w) \/ Body(w) \/ Teardown(w)

DagSpec == DagInit /\ [][DagNext]_dagVars

-----------------------------------------------------------------------------
(* Properties *)

\* While a test runs, the registration of each of its Dags and every run made
\* for them, by the fixture or by Airflow, stay in the database, whatever the
\* cleanups of other workers delete by ids that have been reused since
\* (_delete_dag_run_rows, issue #325).  The shared bundle's row does not: a record
\* that created it deletes it (_cleanup_dag).
LiveRowsStay ==
  \A w \in running : at[w] # "teardown" =>
    \A x \in live[w] \ {SharedBundle} :
      \/ x \in db.runs
      \/ x \in db.versions /\ db.models[x.dag] # NoModel

LeavesNoRows(w) ==
  \A dag \in DagsOf[w] :
    /\ db.models[dag] \in {NoModel, Testing}
    /\ db.models[dag] = NoModel => dag \notin db.shared
    /\ \A v \in db.versions : v.dag = dag => db.models[dag] = Testing
    /\ \A x \in db.runs : x.dag = dag => v2 /\ x.by = "airflow"

\* A teardown, a failed one included, leaves no authoring Dag for later tests to
\* resolve tasks against; one after which nothing was reported leaves no row of
\* the worker's Dags: Airflow's own runs, and the bundles the records made,
\* included.  2.x keeps the former, and a model that moved to another bundle
\* stays (cleanup_dag, _cleanup_dag, _delete_dag_runs).
NoDagLeftovers ==
  /\ DagTypeOK
  /\ \A w \in running : at[w] = "teardown" /\ recs[w] = <<>> =>
       /\ authoring[w] = {}
       /\ problems[w] = {} => LeavesNoRows(w)

\* Without xdist no registration is ever refused: whatever cleanup failed
\* before, a row in the way is known to be this process's own and is replaced
\* (ensure_dag_registrable, record_persisted_dag_id at the commit, issue #262).
SerialNeverRefused == xdist \/ "refused" \notin problems[Serial]

\* A test whose operations do not raise by themselves, and whose Dags all share
\* the session it lends, reports no error whatever the other workers do and
\* whatever it leaves on that session, unless its staged objects forbade a
\* retry (_sync_dag_model_v2, issue #157; cleanup_dag, issue #263).
HealthyTestsPass ==
  \A w \in running \ FaultyWorkers : problems[w] = {} \/ staged[w] = "lost"

\* What a test staged on a session it lends is never discarded before its
\* teardown without an error (_sync_dag_model_v2).
NothingLostSilently ==
  \A w \in running : staged[w] = "lost" => problems[w] # {}

\* Nobody's test fails or loses what it staged through the cleanups of another
\* (_compat/dag.py, fixtures/dag.py).
TestsUndisturbed == HealthyTestsPass /\ SerialNeverRefused /\ NothingLostSilently
=============================================================================
