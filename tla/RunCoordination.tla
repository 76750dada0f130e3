-------------------------- MODULE RunCoordination --------------------------
(***************************************************************************)
(* The two elections the processes of one run hold below its run root:     *)
(*                                                                         *)
(*   ensure_database (_compat/database.py)  one process migrates the       *)
(*     metadata database and touches a ready sentinel;                     *)
(*   _shared_dag_corpus (dagcorpus.py)  one process parses the Dag folder  *)
(*     and publishes the corpus artifact by an atomic rename.              *)
(*                                                                         *)
(* Each is an flock(LOCK_EX) critical section with a check of the artifact *)
(* inside.  They nest: the corpus builder calls ensure_database while it   *)
(* holds the corpus lock, when top-level Variable lookups of a Dag file    *)
(* are resolved during the parse.  Processes are the controller, the local *)
(* xdist workers and the isolated children; any of them can be killed, the *)
(* kernel then drops its locks, and xdist may start a replacement.         *)
(*                                                                         *)
(* pc names the step a process takes next; "idle" is test code that calls  *)
(* neither operation.                                                      *)
(***************************************************************************)
EXTENDS Naturals

CONSTANTS
  Procs,        \* the processes sharing one run root
  NoProc,       \* an flock nobody holds
  NoCorpus,     \* no corpus: not published, not cached
  Torn,         \* an artifact file that does not decode
  MaxCrashes,   \* bound on killed processes
  MaxFailures   \* bound on exceptions raised inside the critical sections

ASSUME ConstantsAssumption ==
  /\ NoProc \notin Procs
  /\ NoCorpus \notin Procs
  /\ Torn \notin Procs
  /\ NoCorpus # Torn
  /\ MaxCrashes \in Nat
  /\ MaxFailures \in Nat

VARIABLES
  pc,           \* the step each process takes next
  dbLock,       \* holder of the flock on .airflow-db-init.lock
  schema,       \* the metadata database: "empty", "partial" or "ready"
  sentinel,     \* .airflow-db-ready: "absent" or "present"
  initialized,  \* _DATABASE_INITIALIZED of each process
  ensured,      \* _DATABASE_ENSURED of each process
  corpusLock,   \* holder of the flock on the corpus lock file
  artifact,     \* the published corpus, named by its producer
  inHand,       \* the corpus a process decoded or built in _shared_dag_corpus
  cached,       \* session.stash[DAG_CORPUS_KEY] of each process
  crashes,      \* processes killed so far
  failures      \* exceptions raised so far

dbVars == <<dbLock, schema, sentinel, initialized, ensured>>
corpusVars == <<corpusLock, artifact, inHand, cached>>
faultVars == <<crashes, failures>>
vars == <<pc, dbVars, corpusVars, faultVars>>

DbHeld == {"db.check", "db.init", "db.touch", "db.unlock", "db.raise"}
DbSteps == DbHeld \cup {"db.lock"}
CorpusHeld == {"corpus.check", "corpus.parse", "corpus.write",
               "corpus.publish", "corpus.unlock", "corpus.raise"}
Steps == {"idle", "dead", "corpus.lock"} \cup DbSteps \cup CorpusHeld

\* A corpus is told apart by its producer: DagCorpus.producer_pid.
Corpora == Procs

TypeOK ==
  /\ pc \in [Procs -> Steps]
  /\ dbLock \in Procs \cup {NoProc}
  /\ schema \in {"empty", "partial", "ready"}
  /\ sentinel \in {"absent", "present"}
  /\ initialized \in [Procs -> BOOLEAN]
  /\ ensured \in [Procs -> BOOLEAN]
  /\ corpusLock \in Procs \cup {NoProc}
  /\ artifact \in Corpora \cup {NoCorpus, Torn}
  /\ inHand \in [Procs -> Corpora \cup {NoCorpus}]
  /\ cached \in [Procs -> Corpora \cup {NoCorpus}]
  /\ crashes \in 0..MaxCrashes
  /\ failures \in 0..MaxFailures

Init ==
  /\ pc = [p \in Procs |-> "idle"]
  /\ dbLock = NoProc
  /\ schema = "empty"
  /\ sentinel = "absent"
  /\ initialized = [p \in Procs |-> FALSE]
  /\ ensured = [p \in Procs |-> FALSE]
  /\ corpusLock = NoProc
  /\ artifact = NoCorpus
  /\ inHand = [p \in Procs |-> NoCorpus]
  /\ cached = [p \in Procs |-> NoCorpus]
  /\ crashes = 0
  /\ failures = 0

Goto(p, from, to) ==
  /\ pc[p] = from
  /\ pc' = [pc EXCEPT ![p] = to]

Raise(p, from, to) ==
  /\ failures < MaxFailures
  /\ failures' = failures + 1
  /\ Goto(p, from, to)
  /\ UNCHANGED crashes

-----------------------------------------------------------------------------
(* ensure_database *)

\* A process whose flag is set returns before any file is opened.
EnsureAgain(p) ==
  /\ pc[p] = "idle"
  /\ ensured[p]
  /\ UNCHANGED vars

CallEnsure(p) ==
  /\ ~ensured[p]
  /\ Goto(p, "idle", "db.lock")
  /\ UNCHANGED <<dbVars, corpusVars, faultVars>>

\* Mutant: the election without the advisory lock.
LockDatabaseUnguarded(p) ==
  /\ Goto(p, "db.lock", "db.check")
  /\ dbLock' = p
  /\ UNCHANGED <<schema, sentinel, initialized, ensured, corpusVars, faultVars>>

LockDatabase(p) ==
  /\ dbLock = NoProc
  /\ Goto(p, "db.lock", "db.check")
  /\ dbLock' = p
  /\ UNCHANGED <<schema, sentinel, initialized, ensured, corpusVars, faultVars>>

\* DatabaseInitializationError: the lock file cannot be opened or locked.
LockDatabaseFails(p) ==
  /\ Raise(p, "db.lock", IF corpusLock = p THEN "corpus.raise" ELSE "idle")
  /\ UNCHANGED <<dbVars, corpusVars>>

SentinelFound(p) ==
  /\ sentinel = "present"
  /\ Goto(p, "db.check", "db.unlock")
  /\ UNCHANGED <<dbVars, corpusVars, faultVars>>

\* initialize_database returns at once in a process that already ran initdb
\* but could not touch the sentinel.
AlreadyInitialized(p) ==
  /\ sentinel = "absent"
  /\ initialized[p]
  /\ Goto(p, "db.check", "db.touch")
  /\ UNCHANGED <<dbVars, corpusVars, faultVars>>

\* Mutant: the sentinel announces the migration instead of its end.
StartInitdbTouching(p) ==
  /\ sentinel = "absent"
  /\ ~initialized[p]
  /\ Goto(p, "db.check", "db.init")
  /\ schema' = IF schema = "ready" THEN "ready" ELSE "partial"
  /\ sentinel' = "present"
  /\ UNCHANGED <<dbLock, initialized, ensured, corpusVars, faultVars>>

\* airflow.utils.db.initdb begins: tables exist that are not all migrated yet.
StartInitdb(p) ==
  /\ sentinel = "absent"
  /\ ~initialized[p]
  /\ Goto(p, "db.check", "db.init")
  /\ schema' = IF schema = "ready" THEN "ready" ELSE "partial"
  /\ UNCHANGED <<dbLock, sentinel, initialized, ensured, corpusVars, faultVars>>

FinishInitdb(p) ==
  /\ Goto(p, "db.init", "db.touch")
  /\ schema' = "ready"
  /\ initialized' = [initialized EXCEPT ![p] = TRUE]
  /\ UNCHANGED <<dbLock, sentinel, ensured, corpusVars, faultVars>>

TouchSentinel(p) ==
  /\ Goto(p, "db.touch", "db.unlock")
  /\ sentinel' = "present"
  /\ UNCHANGED <<dbLock, schema, initialized, ensured, corpusVars, faultVars>>

\* Any step inside the lock can raise: an unsupported Airflow, initdb itself
\* (what it had written stays), the touch, or the unlock call.
DatabaseRaises(p) ==
  /\ \E step \in {"db.check", "db.init", "db.touch", "db.unlock"} :
       Raise(p, step, "db.raise")
  /\ UNCHANGED <<dbVars, corpusVars>>

\* The flock is released and the process remembers; a nested call returns to
\* the corpus builder that made it.
UnlockDatabase(p) ==
  /\ Goto(p, "db.unlock", IF corpusLock = p THEN "corpus.parse" ELSE "idle")
  /\ dbLock' = NoProc
  /\ ensured' = [ensured EXCEPT ![p] = TRUE]
  /\ UNCHANGED <<schema, sentinel, initialized, corpusVars, faultVars>>

\* Mutant: the flock is released on the way out without an exception only.
UnlockDatabaseNever(p) ==
  /\ Goto(p, "db.raise", IF corpusLock = p THEN "corpus.raise" ELSE "idle")
  /\ UNCHANGED <<dbVars, corpusVars, faultVars>>

\* The finally clause releases the flock before the exception leaves.
UnlockDatabaseRaising(p) ==
  /\ Goto(p, "db.raise", IF corpusLock = p THEN "corpus.raise" ELSE "idle")
  /\ dbLock' = NoProc
  /\ UNCHANGED <<schema, sentinel, initialized, ensured, corpusVars, faultVars>>

-----------------------------------------------------------------------------
(* get_dag_corpus and _shared_dag_corpus *)

CorpusAgain(p) ==
  /\ pc[p] = "idle"
  /\ cached[p] # NoCorpus
  /\ UNCHANGED vars

CallCorpus(p) ==
  /\ cached[p] = NoCorpus
  /\ Goto(p, "idle", "corpus.lock")
  /\ UNCHANGED <<dbVars, corpusVars, faultVars>>

LockCorpus(p) ==
  /\ corpusLock = NoProc
  /\ Goto(p, "corpus.lock", "corpus.check")
  /\ corpusLock' = p
  /\ UNCHANGED <<artifact, inHand, cached, dbVars, faultVars>>

LockCorpusFails(p) ==
  /\ Raise(p, "corpus.lock", "idle")
  /\ UNCHANGED <<corpusVars, dbVars>>

DecodeArtifact(p) ==
  /\ artifact \in Corpora
  /\ Goto(p, "corpus.check", "corpus.unlock")
  /\ inHand' = [inHand EXCEPT ![p] = artifact]
  /\ UNCHANGED <<corpusLock, artifact, cached, dbVars, faultVars>>

\* Reading raises, and json.loads refuses a file that was only partly written.
ReadFails(p) ==
  /\ artifact # NoCorpus
  /\ artifact = Torn \/ failures < MaxFailures
  /\ failures' = IF artifact = Torn THEN failures ELSE failures + 1
  /\ Goto(p, "corpus.check", "corpus.raise")
  /\ UNCHANGED <<crashes, corpusVars, dbVars>>

\* The elected builder.  It calls ensure_database first when parse-time lookups
\* are supervised and no live DagBag of this process can be reused.
StartBuild(p) ==
  /\ artifact = NoCorpus
  /\ \/ Goto(p, "corpus.check", "corpus.parse")
     \/ /\ ~ensured[p]
        /\ Goto(p, "corpus.check", "db.lock")
  /\ UNCHANGED <<corpusVars, dbVars, faultVars>>

BuildCorpus(p) ==
  /\ Goto(p, "corpus.parse", "corpus.write")
  /\ inHand' = [inHand EXCEPT ![p] = p]
  /\ UNCHANGED <<corpusLock, artifact, cached, dbVars, faultVars>>

\* Mutant: the payload is written over the artifact itself.
WriteInPlace(p) ==
  /\ Goto(p, "corpus.write", "corpus.publish")
  /\ artifact' = Torn
  /\ UNCHANGED <<corpusLock, inHand, cached, dbVars, faultVars>>

\* The payload goes to a temporary file only this process names.
WriteTemporary(p) ==
  /\ Goto(p, "corpus.write", "corpus.publish")
  /\ UNCHANGED <<corpusVars, dbVars, faultVars>>

ReplaceArtifact(p) ==
  /\ Goto(p, "corpus.publish", "corpus.unlock")
  /\ artifact' = inHand[p]
  /\ UNCHANGED <<corpusLock, inHand, cached, dbVars, faultVars>>

\* Parsing, writing, renaming or the final unlink of the temporary file raises;
\* the last of them after the artifact was published.
CorpusRaises(p) ==
  /\ \E step \in {"corpus.parse", "corpus.write", "corpus.publish", "corpus.unlock"} :
       Raise(p, step, "corpus.raise")
  /\ UNCHANGED <<corpusVars, dbVars>>

\* The flock is released, then get_dag_corpus stashes what was returned.
UnlockCorpus(p) ==
  /\ Goto(p, "corpus.unlock", "idle")
  /\ corpusLock' = NoProc
  /\ cached' = [cached EXCEPT ![p] = inHand[p]]
  /\ inHand' = [inHand EXCEPT ![p] = NoCorpus]
  /\ UNCHANGED <<artifact, dbVars, faultVars>>

UnlockCorpusRaising(p) ==
  /\ Goto(p, "corpus.raise", "idle")
  /\ corpusLock' = NoProc
  /\ inHand' = [inHand EXCEPT ![p] = NoCorpus]
  /\ UNCHANGED <<artifact, cached, dbVars, faultVars>>

-----------------------------------------------------------------------------
(* The kernel and xdist *)

Released(lock, p) == IF lock = p THEN NoProc ELSE lock

\* A killed process loses its memory and its locks; files stay as they are.
Crash(p) ==
  /\ crashes < MaxCrashes
  /\ pc[p] # "dead"
  /\ pc' = [pc EXCEPT ![p] = "dead"]
  /\ crashes' = crashes + 1
  /\ dbLock' = Released(dbLock, p)
  /\ corpusLock' = Released(corpusLock, p)
  /\ initialized' = [initialized EXCEPT ![p] = FALSE]
  /\ ensured' = [ensured EXCEPT ![p] = FALSE]
  /\ inHand' = [inHand EXCEPT ![p] = NoCorpus]
  /\ cached' = [cached EXCEPT ![p] = NoCorpus]
  /\ UNCHANGED <<schema, sentinel, artifact, failures>>

\* xdist replaces a crashed worker by a fresh process on the same run root.
Replace(p) ==
  /\ Goto(p, "dead", "idle")
  /\ UNCHANGED <<dbVars, corpusVars, faultVars>>

-----------------------------------------------------------------------------
Database(p) ==
  \/ LockDatabase(p) \/ LockDatabaseFails(p) \/ SentinelFound(p)
  \/ AlreadyInitialized(p) \/ StartInitdb(p) \/ FinishInitdb(p)
  \/ TouchSentinel(p) \/ DatabaseRaises(p)
  \/ UnlockDatabase(p) \/ UnlockDatabaseRaising(p)

Corpus(p) ==
  \/ LockCorpus(p) \/ LockCorpusFails(p) \/ DecodeArtifact(p) \/ ReadFails(p)
  \/ StartBuild(p) \/ BuildCorpus(p) \/ WriteTemporary(p) \/ ReplaceArtifact(p)
  \/ CorpusRaises(p) \/ UnlockCorpus(p) \/ UnlockCorpusRaising(p)

Calls(p) ==
  \/ CallEnsure(p) \/ EnsureAgain(p) \/ CallCorpus(p) \/ CorpusAgain(p)

Next == \E p \in Procs :
  Database(p) \/ Corpus(p) \/ Calls(p) \/ Crash(p) \/ Replace(p)

\* A live process inside an operation keeps running; nothing forces test code
\* to call, a process to be killed, or xdist to replace one.
Fairness == \A p \in Procs : WF_vars(Database(p)) /\ WF_vars(Corpus(p))

Spec == Init /\ [][Next]_vars /\ Fairness

-----------------------------------------------------------------------------
(* Properties *)

\* No process migrates the database while another was told that it is ready:
\* test code never queries a schema that is being rewritten
\* (_compat/database.py:67, "at most once across cooperating processes").
NoMigrationUnderUse ==
  \A p, q \in Procs : ensured[p] => pc[q] # "db.init"

\* A process that passed ensure_database finds a complete schema, also when an
\* earlier elected process was killed or raised between initdb and the touch.
EnsuredMeansReady ==
  \A p \in Procs : ensured[p] => schema = "ready"

\* What ensure_database promises its callers: a complete schema that nobody rewrites.
ReadyForUse == NoMigrationUnderUse /\ EnsuredMeansReady

\* Every process of the run works on the same parse of the Dag folder, whichever
\* process was elected, failed or was killed on the way.
OneCorpus ==
  \A p, q \in Procs :
    {cached[p], cached[q]} \subseteq Corpora => cached[p] = cached[q]

\* The database election implements PublishOnce: what is published is the schema
\* as it stands when the sentinel exists.
DbElection == INSTANCE PublishOnce WITH
  Readers <- Procs, Values <- {"ready"}, Nothing <- "none",
  value <- IF sentinel = "present" THEN schema ELSE "none",
  seen <- [p \in Procs |-> IF ensured[p] THEN schema ELSE "none"]

\* The corpus election implements PublishOnce: the artifact is written once.
CorpusElection == INSTANCE PublishOnce WITH
  Readers <- Procs, Values <- Corpora, Nothing <- NoCorpus,
  value <- artifact, seen <- cached

\* ensure_database and its sentinel are one atomic publication.
DbElectionSpec == DbElection!Spec

\* _shared_dag_corpus and its artifact are one atomic publication.
CorpusElectionSpec == CorpusElection!Spec

\* Every call returns, raises, or ends with its process: neither the nested
\* locks nor the death of a lock holder leaves a waiter blocked forever.
CallsEnd ==
  \A p \in Procs : pc[p] \notin {"idle", "dead"} ~> pc[p] \in {"idle", "dead"}

-----------------------------------------------------------------------------
(* The inductive invariant *)

\* Who holds which lock can be read off the program counters.
LockInv ==
  \A p \in Procs :
    /\ pc[p] \in DbHeld <=> dbLock = p
    /\ pc[p] \in CorpusHeld => corpusLock = p
    /\ corpusLock = p => pc[p] \in CorpusHeld \cup DbSteps

\* The sentinel is created last, and only over a complete schema.
DatabaseInv ==
  /\ sentinel = "present" => schema = "ready"
  /\ \A p \in Procs :
       /\ ensured[p] => sentinel = "present"
       /\ initialized[p] => schema = "ready"
       /\ pc[p] = "db.touch" => schema = "ready"
       /\ pc[p] = "db.unlock" => sentinel = "present"
       /\ pc[p] = "db.init" => sentinel = "absent"

\* Between the check and the rename the artifact does not exist, and whoever
\* cached a corpus cached the artifact.
CorpusInv ==
  /\ artifact # Torn
  /\ \A p \in Procs :
       /\ cached[p] # NoCorpus => cached[p] = artifact
       /\ corpusLock = p /\ pc[p] \in DbSteps \cup {"corpus.parse", "corpus.write", "corpus.publish"}
            => artifact = NoCorpus
       /\ pc[p] \in {"corpus.write", "corpus.publish"} => inHand[p] = p
       /\ pc[p] = "corpus.unlock" => artifact # NoCorpus /\ inHand[p] = artifact

\* The lock discipline of both elections, the strengthening under which the
\* safety properties above are inductive.
ElectionInv == LockInv /\ DatabaseInv /\ CorpusInv
=============================================================================
