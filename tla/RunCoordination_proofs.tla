----------------------- MODULE RunCoordination_proofs -----------------------
(***************************************************************************)
(* Proofs about RunCoordination for every set of processes and every bound *)
(* on kills and exceptions.                                                *)
(***************************************************************************)
EXTENDS RunCoordination, TLAPS

\* Every reachable state is typed: no step of either election, exception or
\* kill leaves a program counter, lock, flag or corpus outside its range.
THEOREM Typed == Spec => []TypeOK
<1>1. Init => TypeOK
  BY ConstantsAssumption DEF Init, TypeOK, Steps
<1>2. ASSUME TypeOK, [Next]_vars
      PROVE  TypeOK'
  <2>. USE <1>2, ConstantsAssumption
       DEF TypeOK, Steps, DbSteps, DbHeld, CorpusHeld, Corpora,
           dbVars, corpusVars, faultVars, Goto, Raise
  <2>1. CASE UNCHANGED vars
    BY <2>1 DEF vars
  <2>2. ASSUME NEW p \in Procs, Database(p)
        PROVE  TypeOK'
    <3>1. CASE LockDatabase(p)
      BY <3>1 DEF LockDatabase
    <3>2. CASE LockDatabaseFails(p)
      BY <3>2 DEF LockDatabaseFails
    <3>3. CASE SentinelFound(p)
      BY <3>3 DEF SentinelFound
    <3>4. CASE AlreadyInitialized(p)
      BY <3>4 DEF AlreadyInitialized
    <3>5. CASE StartInitdb(p)
      BY <3>5 DEF StartInitdb
    <3>6. CASE FinishInitdb(p)
      BY <3>6 DEF FinishInitdb
    <3>7. CASE TouchSentinel(p)
      BY <3>7 DEF TouchSentinel
    <3>8. CASE DatabaseRaises(p)
      BY <3>8 DEF DatabaseRaises
    <3>9. CASE UnlockDatabase(p)
      BY <3>9 DEF UnlockDatabase
    <3>10. CASE UnlockDatabaseRaising(p)
      BY <3>10 DEF UnlockDatabaseRaising
    <3>11. QED
      BY <2>2, <3>1, <3>2, <3>3, <3>4, <3>5, <3>6, <3>7, <3>8, <3>9, <3>10 DEF Database
  <2>3. ASSUME NEW p \in Procs, Corpus(p)
        PROVE  TypeOK'
    <3>1. CASE LockCorpus(p)
      BY <3>1 DEF LockCorpus
    <3>2. CASE LockCorpusFails(p)
      BY <3>2 DEF LockCorpusFails
    <3>3. CASE DecodeArtifact(p)
      BY <3>3 DEF DecodeArtifact
    <3>4. CASE ReadFails(p)
      BY <3>4 DEF ReadFails
    <3>5. CASE StartBuild(p)
      BY <3>5 DEF StartBuild
    <3>6. CASE BuildCorpus(p)
      BY <3>6 DEF BuildCorpus
    <3>7. CASE WriteTemporary(p)
      BY <3>7 DEF WriteTemporary
    <3>8. CASE ReplaceArtifact(p)
      BY <3>8 DEF ReplaceArtifact
    <3>9. CASE CorpusRaises(p)
      BY <3>9 DEF CorpusRaises
    <3>10. CASE UnlockCorpus(p)
      BY <3>10 DEF UnlockCorpus
    <3>11. CASE UnlockCorpusRaising(p)
      BY <3>11 DEF UnlockCorpusRaising
    <3>12. QED
      BY <2>3, <3>1, <3>2, <3>3, <3>4, <3>5, <3>6, <3>7, <3>8, <3>9, <3>10, <3>11 DEF Corpus
  <2>4. ASSUME NEW p \in Procs, Calls(p)
        PROVE  TypeOK'
    BY <2>4 DEF vars, Calls, EnsureAgain, CallEnsure, CorpusAgain, CallCorpus
  <2>5. ASSUME NEW p \in Procs, Crash(p)
        PROVE  TypeOK'
    BY <2>5 DEF Crash, Released
  <2>6. ASSUME NEW p \in Procs, Replace(p)
        PROVE  TypeOK'
    BY <2>6 DEF Replace
  <2>7. QED
    BY <2>1, <2>2, <2>3, <2>4, <2>5, <2>6 DEF Next
<1>3. QED
  BY <1>1, <1>2, PTL DEF Spec

\* The locks are held exactly in the critical sections, whoever is killed in one.
LEMMA LockInvStep ==
  ASSUME TypeOK, LockInv, [Next]_vars
  PROVE  LockInv'
<1>. USE ConstantsAssumption
     DEF TypeOK, Steps, DbSteps, DbHeld, CorpusHeld, Corpora, LockInv,
         dbVars, corpusVars, faultVars, Goto, Raise
<1>1. CASE UNCHANGED vars
  BY <1>1 DEF vars
<1>2. ASSUME NEW p \in Procs, Database(p)
      PROVE  LockInv'
  <2>1. CASE LockDatabase(p)
    BY <2>1 DEF LockDatabase
  <2>2. CASE LockDatabaseFails(p)
    BY <2>2 DEF LockDatabaseFails
  <2>3. CASE SentinelFound(p)
    BY <2>3 DEF SentinelFound
  <2>4. CASE AlreadyInitialized(p)
    BY <2>4 DEF AlreadyInitialized
  <2>5. CASE StartInitdb(p)
    BY <2>5 DEF StartInitdb
  <2>6. CASE FinishInitdb(p)
    BY <2>6 DEF FinishInitdb
  <2>7. CASE TouchSentinel(p)
    BY <2>7 DEF TouchSentinel
  <2>8. CASE DatabaseRaises(p)
    BY <2>8 DEF DatabaseRaises
  <2>9. CASE UnlockDatabase(p)
    BY <2>9 DEF UnlockDatabase
  <2>10. CASE UnlockDatabaseRaising(p)
    BY <2>10 DEF UnlockDatabaseRaising
  <2>11. QED
    BY <1>2, <2>1, <2>2, <2>3, <2>4, <2>5, <2>6, <2>7, <2>8, <2>9, <2>10 DEF Database
<1>3. ASSUME NEW p \in Procs, Corpus(p)
      PROVE  LockInv'
  <2>1. CASE LockCorpus(p)
    BY <2>1 DEF LockCorpus
  <2>2. CASE LockCorpusFails(p)
    BY <2>2 DEF LockCorpusFails
  <2>3. CASE DecodeArtifact(p)
    BY <2>3 DEF DecodeArtifact
  <2>4. CASE ReadFails(p)
    BY <2>4 DEF ReadFails
  <2>5. CASE StartBuild(p)
    BY <2>5 DEF StartBuild
  <2>6. CASE BuildCorpus(p)
    BY <2>6 DEF BuildCorpus
  <2>7. CASE WriteTemporary(p)
    BY <2>7 DEF WriteTemporary
  <2>8. CASE ReplaceArtifact(p)
    BY <2>8 DEF ReplaceArtifact
  <2>9. CASE CorpusRaises(p)
    BY <2>9 DEF CorpusRaises
  <2>10. CASE UnlockCorpus(p)
    BY <2>10 DEF UnlockCorpus
  <2>11. CASE UnlockCorpusRaising(p)
    BY <2>11 DEF UnlockCorpusRaising
  <2>12. QED
    BY <1>3, <2>1, <2>2, <2>3, <2>4, <2>5, <2>6, <2>7, <2>8, <2>9, <2>10, <2>11 DEF Corpus
<1>4. ASSUME NEW p \in Procs, Calls(p)
      PROVE  LockInv'
  BY <1>4 DEF vars, Calls, EnsureAgain, CallEnsure, CorpusAgain, CallCorpus
<1>5. ASSUME NEW p \in Procs, Crash(p)
      PROVE  LockInv'
  BY <1>5 DEF Crash, Released
<1>6. ASSUME NEW p \in Procs, Replace(p)
      PROVE  LockInv'
  BY <1>6 DEF Replace
<1>7. QED
  BY <1>1, <1>2, <1>3, <1>4, <1>5, <1>6 DEF Next

\* The flock keeps the sentinel from being touched while another process works
\* on the schema.
LEMMA DatabaseInvStep ==
  ASSUME TypeOK, LockInv, DatabaseInv, [Next]_vars
  PROVE  DatabaseInv'
<1>. USE ConstantsAssumption
     DEF TypeOK, Steps, DbSteps, DbHeld, CorpusHeld, Corpora, LockInv, DatabaseInv,
         dbVars, corpusVars, faultVars, Goto, Raise
<1>1. CASE UNCHANGED vars
  BY <1>1 DEF vars
<1>2. ASSUME NEW p \in Procs, Database(p)
      PROVE  DatabaseInv'
  <2>1. CASE LockDatabase(p)
    BY <2>1 DEF LockDatabase
  <2>2. CASE LockDatabaseFails(p)
    BY <2>2 DEF LockDatabaseFails
  <2>3. CASE SentinelFound(p)
    BY <2>3 DEF SentinelFound
  <2>4. CASE AlreadyInitialized(p)
    BY <2>4 DEF AlreadyInitialized
  <2>5. CASE StartInitdb(p)
    BY <2>5 DEF StartInitdb
  <2>6. CASE FinishInitdb(p)
    BY <2>6 DEF FinishInitdb
  <2>7. CASE TouchSentinel(p)
    BY <2>7 DEF TouchSentinel
  <2>8. CASE DatabaseRaises(p)
    BY <2>8 DEF DatabaseRaises
  <2>9. CASE UnlockDatabase(p)
    BY <2>9 DEF UnlockDatabase
  <2>10. CASE UnlockDatabaseRaising(p)
    BY <2>10 DEF UnlockDatabaseRaising
  <2>11. QED
    BY <1>2, <2>1, <2>2, <2>3, <2>4, <2>5, <2>6, <2>7, <2>8, <2>9, <2>10 DEF Database
<1>3. ASSUME NEW p \in Procs, Corpus(p)
      PROVE  DatabaseInv'
  <2>1. CASE LockCorpus(p)
    BY <2>1 DEF LockCorpus
  <2>2. CASE LockCorpusFails(p)
    BY <2>2 DEF LockCorpusFails
  <2>3. CASE DecodeArtifact(p)
    BY <2>3 DEF DecodeArtifact
  <2>4. CASE ReadFails(p)
    BY <2>4 DEF ReadFails
  <2>5. CASE StartBuild(p)
    BY <2>5 DEF StartBuild
  <2>6. CASE BuildCorpus(p)
    BY <2>6 DEF BuildCorpus
  <2>7. CASE WriteTemporary(p)
    BY <2>7 DEF WriteTemporary
  <2>8. CASE ReplaceArtifact(p)
    BY <2>8 DEF ReplaceArtifact
  <2>9. CASE CorpusRaises(p)
    BY <2>9 DEF CorpusRaises
  <2>10. CASE UnlockCorpus(p)
    BY <2>10 DEF UnlockCorpus
  <2>11. CASE UnlockCorpusRaising(p)
    BY <2>11 DEF UnlockCorpusRaising
  <2>12. QED
    BY <1>3, <2>1, <2>2, <2>3, <2>4, <2>5, <2>6, <2>7, <2>8, <2>9, <2>10, <2>11 DEF Corpus
<1>4. ASSUME NEW p \in Procs, Calls(p)
      PROVE  DatabaseInv'
  BY <1>4 DEF vars, Calls, EnsureAgain, CallEnsure, CorpusAgain, CallCorpus
<1>5. ASSUME NEW p \in Procs, Crash(p)
      PROVE  DatabaseInv'
  BY <1>5 DEF Crash, Released
<1>6. ASSUME NEW p \in Procs, Replace(p)
      PROVE  DatabaseInv'
  BY <1>6 DEF Replace
<1>7. QED
  BY <1>1, <1>2, <1>3, <1>4, <1>5, <1>6 DEF Next

\* Only the holder of the corpus lock publishes, and only once.
LEMMA CorpusInvStep ==
  ASSUME TypeOK, LockInv, CorpusInv, [Next]_vars
  PROVE  CorpusInv'
<1>. USE ConstantsAssumption
     DEF TypeOK, Steps, DbSteps, DbHeld, CorpusHeld, Corpora, LockInv, CorpusInv,
         dbVars, corpusVars, faultVars, Goto, Raise
<1>1. CASE UNCHANGED vars
  BY <1>1 DEF vars
<1>2. ASSUME NEW p \in Procs, Database(p)
      PROVE  CorpusInv'
  <2>1. CASE LockDatabase(p)
    BY <2>1 DEF LockDatabase
  <2>2. CASE LockDatabaseFails(p)
    BY <2>2 DEF LockDatabaseFails
  <2>3. CASE SentinelFound(p)
    BY <2>3 DEF SentinelFound
  <2>4. CASE AlreadyInitialized(p)
    BY <2>4 DEF AlreadyInitialized
  <2>5. CASE StartInitdb(p)
    BY <2>5 DEF StartInitdb
  <2>6. CASE FinishInitdb(p)
    BY <2>6 DEF FinishInitdb
  <2>7. CASE TouchSentinel(p)
    BY <2>7 DEF TouchSentinel
  <2>8. CASE DatabaseRaises(p)
    BY <2>8 DEF DatabaseRaises
  <2>9. CASE UnlockDatabase(p)
    BY <2>9 DEF UnlockDatabase
  <2>10. CASE UnlockDatabaseRaising(p)
    BY <2>10 DEF UnlockDatabaseRaising
  <2>11. QED
    BY <1>2, <2>1, <2>2, <2>3, <2>4, <2>5, <2>6, <2>7, <2>8, <2>9, <2>10 DEF Database
<1>3. ASSUME NEW p \in Procs, Corpus(p)
      PROVE  CorpusInv'
  <2>1. CASE LockCorpus(p)
    BY <2>1 DEF LockCorpus
  <2>2. CASE LockCorpusFails(p)
    BY <2>2 DEF LockCorpusFails
  <2>3. CASE DecodeArtifact(p)
    BY <2>3 DEF DecodeArtifact
  <2>4. CASE ReadFails(p)
    BY <2>4 DEF ReadFails
  <2>5. CASE StartBuild(p)
    BY <2>5 DEF StartBuild
  <2>6. CASE BuildCorpus(p)
    BY <2>6 DEF BuildCorpus
  <2>7. CASE WriteTemporary(p)
    BY <2>7 DEF WriteTemporary
  <2>8. CASE ReplaceArtifact(p)
    BY <2>8 DEF ReplaceArtifact
  <2>9. CASE CorpusRaises(p)
    BY <2>9 DEF CorpusRaises
  <2>10. CASE UnlockCorpus(p)
    BY <2>10 DEF UnlockCorpus
  <2>11. CASE UnlockCorpusRaising(p)
    BY <2>11 DEF UnlockCorpusRaising
  <2>12. QED
    BY <1>3, <2>1, <2>2, <2>3, <2>4, <2>5, <2>6, <2>7, <2>8, <2>9, <2>10, <2>11 DEF Corpus
<1>4. ASSUME NEW p \in Procs, Calls(p)
      PROVE  CorpusInv'
  BY <1>4 DEF vars, Calls, EnsureAgain, CallEnsure, CorpusAgain, CallCorpus
<1>5. ASSUME NEW p \in Procs, Crash(p)
      PROVE  CorpusInv'
  BY <1>5 DEF Crash, Released
<1>6. ASSUME NEW p \in Procs, Replace(p)
      PROVE  CorpusInv'
  BY <1>6 DEF Replace
<1>7. QED
  BY <1>1, <1>2, <1>3, <1>4, <1>5, <1>6 DEF Next

\* The lock discipline of both elections holds in every reachable state.
THEOREM Elections == Spec => []ElectionInv
<1>1. Init => ElectionInv
  BY ConstantsAssumption
     DEF Init, ElectionInv, LockInv, DatabaseInv, CorpusInv, DbSteps, DbHeld, CorpusHeld
<1>2. TypeOK /\ ElectionInv /\ [Next]_vars => ElectionInv'
  BY LockInvStep, DatabaseInvStep, CorpusInvStep DEF ElectionInv
<1>3. QED
  BY <1>1, <1>2, Typed, PTL DEF Spec

\* No process migrates the database while another was told that it is ready,
\* whatever number of processes race, raise or are killed.
THEOREM MigrationExclusion == Spec => []NoMigrationUnderUse
<1>1. ElectionInv => NoMigrationUnderUse
  BY DEF ElectionInv, DatabaseInv, NoMigrationUnderUse
<1>2. QED
  BY <1>1, Elections, PTL

\* A process that passed ensure_database finds a complete schema.
THEOREM EnsuredReady == Spec => []EnsuredMeansReady
<1>1. ElectionInv => EnsuredMeansReady
  BY DEF ElectionInv, DatabaseInv, EnsuredMeansReady
<1>2. QED
  BY <1>1, Elections, PTL

\* A process that passed ensure_database has a complete schema that nobody rewrites.
THEOREM Ready == Spec => []ReadyForUse
<1>1. NoMigrationUnderUse /\ EnsuredMeansReady => ReadyForUse
  BY DEF ReadyForUse
<1>2. QED
  BY <1>1, MigrationExclusion, EnsuredReady, PTL

\* All processes of a run work on one corpus.
THEOREM CorpusAgreement == Spec => []OneCorpus
<1>1. ElectionInv => OneCorpus
  BY ConstantsAssumption DEF ElectionInv, CorpusInv, OneCorpus, Corpora
<1>2. QED
  BY <1>1, Elections, PTL

\* The corpus election implements PublishOnce, kills and exceptions included.
THEOREM CorpusImplementsPublishOnce == Spec => CorpusElectionSpec
<1>1. Init => CorpusElection!Init
  BY DEF Init, CorpusElection!Init
<1>2. ASSUME TypeOK, ElectionInv, [Next]_vars
      PROVE  [CorpusElection!Next]_CorpusElection!abstractVars
  <2>. USE <1>2, ConstantsAssumption
       DEF TypeOK, Steps, DbSteps, DbHeld, CorpusHeld, Corpora, CorpusInv, ElectionInv, LockInv,
           dbVars, corpusVars, faultVars, Goto, Raise, CorpusElection!abstractVars
  <2>1. CASE UNCHANGED vars
    BY <2>1 DEF vars
  <2>2. ASSUME NEW p \in Procs, Database(p)
        PROVE  [CorpusElection!Next]_CorpusElection!abstractVars
    <3>1. CASE LockDatabase(p)
      BY <3>1 DEF LockDatabase, CorpusElection!Next, CorpusElection!Publish, CorpusElection!Learn
    <3>2. CASE LockDatabaseFails(p)
      BY <3>2 DEF LockDatabaseFails, CorpusElection!Next, CorpusElection!Publish, CorpusElection!Learn
    <3>3. CASE SentinelFound(p)
      BY <3>3 DEF SentinelFound, CorpusElection!Next, CorpusElection!Publish, CorpusElection!Learn
    <3>4. CASE AlreadyInitialized(p)
      BY <3>4 DEF AlreadyInitialized, CorpusElection!Next, CorpusElection!Publish, CorpusElection!Learn
    <3>5. CASE StartInitdb(p)
      BY <3>5 DEF StartInitdb, CorpusElection!Next, CorpusElection!Publish, CorpusElection!Learn
    <3>6. CASE FinishInitdb(p)
      BY <3>6 DEF FinishInitdb, CorpusElection!Next, CorpusElection!Publish, CorpusElection!Learn
    <3>7. CASE TouchSentinel(p)
      BY <3>7 DEF TouchSentinel, CorpusElection!Next, CorpusElection!Publish, CorpusElection!Learn
    <3>8. CASE DatabaseRaises(p)
      BY <3>8 DEF DatabaseRaises, CorpusElection!Next, CorpusElection!Publish, CorpusElection!Learn
    <3>9. CASE UnlockDatabase(p)
      BY <3>9 DEF UnlockDatabase, CorpusElection!Next, CorpusElection!Publish, CorpusElection!Learn
    <3>10. CASE UnlockDatabaseRaising(p)
      BY <3>10 DEF UnlockDatabaseRaising, CorpusElection!Next, CorpusElection!Publish, CorpusElection!Learn
    <3>11. QED
      BY <2>2, <3>1, <3>2, <3>3, <3>4, <3>5, <3>6, <3>7, <3>8, <3>9, <3>10 DEF Database
  <2>3. ASSUME NEW p \in Procs, Corpus(p)
        PROVE  [CorpusElection!Next]_CorpusElection!abstractVars
    <3>1. CASE LockCorpus(p)
      BY <3>1 DEF LockCorpus, CorpusElection!Next, CorpusElection!Publish, CorpusElection!Learn
    <3>2. CASE LockCorpusFails(p)
      BY <3>2 DEF LockCorpusFails, CorpusElection!Next, CorpusElection!Publish, CorpusElection!Learn
    <3>3. CASE DecodeArtifact(p)
      BY <3>3 DEF DecodeArtifact, CorpusElection!Next, CorpusElection!Publish, CorpusElection!Learn
    <3>4. CASE ReadFails(p)
      BY <3>4 DEF ReadFails, CorpusElection!Next, CorpusElection!Publish, CorpusElection!Learn
    <3>5. CASE StartBuild(p)
      BY <3>5 DEF StartBuild, CorpusElection!Next, CorpusElection!Publish, CorpusElection!Learn
    <3>6. CASE BuildCorpus(p)
      BY <3>6 DEF BuildCorpus, CorpusElection!Next, CorpusElection!Publish, CorpusElection!Learn
    <3>7. CASE WriteTemporary(p)
      BY <3>7 DEF WriteTemporary, CorpusElection!Next, CorpusElection!Publish, CorpusElection!Learn
    <3>8. CASE ReplaceArtifact(p)
      BY <3>8 DEF ReplaceArtifact, CorpusElection!Next, CorpusElection!Publish, CorpusElection!Learn
    <3>9. CASE CorpusRaises(p)
      BY <3>9 DEF CorpusRaises, CorpusElection!Next, CorpusElection!Publish, CorpusElection!Learn
    <3>10. CASE UnlockCorpus(p)
      BY <3>10 DEF UnlockCorpus, CorpusElection!Next, CorpusElection!Publish, CorpusElection!Learn
    <3>11. CASE UnlockCorpusRaising(p)
      BY <3>11 DEF UnlockCorpusRaising, CorpusElection!Next, CorpusElection!Publish, CorpusElection!Learn
    <3>12. QED
      BY <2>3, <3>1, <3>2, <3>3, <3>4, <3>5, <3>6, <3>7, <3>8, <3>9, <3>10, <3>11 DEF Corpus
  <2>4. ASSUME NEW p \in Procs, Calls(p)
        PROVE  [CorpusElection!Next]_CorpusElection!abstractVars
    BY <2>4 DEF vars, Calls, EnsureAgain, CallEnsure, CorpusAgain, CallCorpus
  <2>5. ASSUME NEW p \in Procs, Crash(p)
        PROVE  [CorpusElection!Next]_CorpusElection!abstractVars
    BY <2>5 DEF Crash, Released, CorpusElection!Next, CorpusElection!Forget
  <2>6. ASSUME NEW p \in Procs, Replace(p)
        PROVE  [CorpusElection!Next]_CorpusElection!abstractVars
    BY <2>6 DEF Replace
  <2>7. QED
    BY <2>1, <2>2, <2>3, <2>4, <2>5, <2>6 DEF Next
<1>3. QED
  BY <1>1, <1>2, Typed, Elections, PTL DEF Spec, CorpusElectionSpec, CorpusElection!Spec

\* The database election implements PublishOnce, kills and exceptions included.
THEOREM DatabaseImplementsPublishOnce == Spec => DbElectionSpec
<1>1. Init => DbElection!Init
  BY DEF Init, DbElection!Init
<1>2. ASSUME TypeOK, ElectionInv, [Next]_vars
      PROVE  [DbElection!Next]_DbElection!abstractVars
  <2>. USE <1>2, ConstantsAssumption
       DEF TypeOK, Steps, DbSteps, DbHeld, CorpusHeld, Corpora, DatabaseInv, ElectionInv, LockInv,
           dbVars, corpusVars, faultVars, Goto, Raise, DbElection!abstractVars
  <2>1. CASE UNCHANGED vars
    BY <2>1 DEF vars
  <2>2. ASSUME NEW p \in Procs, Database(p)
        PROVE  [DbElection!Next]_DbElection!abstractVars
    <3>1. CASE LockDatabase(p)
      BY <3>1 DEF LockDatabase, DbElection!Next, DbElection!Publish, DbElection!Learn
    <3>2. CASE LockDatabaseFails(p)
      BY <3>2 DEF LockDatabaseFails, DbElection!Next, DbElection!Publish, DbElection!Learn
    <3>3. CASE SentinelFound(p)
      BY <3>3 DEF SentinelFound, DbElection!Next, DbElection!Publish, DbElection!Learn
    <3>4. CASE AlreadyInitialized(p)
      BY <3>4 DEF AlreadyInitialized, DbElection!Next, DbElection!Publish, DbElection!Learn
    <3>5. CASE StartInitdb(p)
      BY <3>5 DEF StartInitdb, DbElection!Next, DbElection!Publish, DbElection!Learn
    <3>6. CASE FinishInitdb(p)
      BY <3>6 DEF FinishInitdb, DbElection!Next, DbElection!Publish, DbElection!Learn
    <3>7. CASE TouchSentinel(p)
      BY <3>7 DEF TouchSentinel, DbElection!Next, DbElection!Publish, DbElection!Learn
    <3>8. CASE DatabaseRaises(p)
      BY <3>8 DEF DatabaseRaises, DbElection!Next, DbElection!Publish, DbElection!Learn
    <3>9. CASE UnlockDatabase(p)
      BY <3>9 DEF UnlockDatabase, DbElection!Next, DbElection!Publish, DbElection!Learn
    <3>10. CASE UnlockDatabaseRaising(p)
      BY <3>10 DEF UnlockDatabaseRaising, DbElection!Next, DbElection!Publish, DbElection!Learn
    <3>11. QED
      BY <2>2, <3>1, <3>2, <3>3, <3>4, <3>5, <3>6, <3>7, <3>8, <3>9, <3>10 DEF Database
  <2>3. ASSUME NEW p \in Procs, Corpus(p)
        PROVE  [DbElection!Next]_DbElection!abstractVars
    <3>1. CASE LockCorpus(p)
      BY <3>1 DEF LockCorpus, DbElection!Next, DbElection!Publish, DbElection!Learn
    <3>2. CASE LockCorpusFails(p)
      BY <3>2 DEF LockCorpusFails, DbElection!Next, DbElection!Publish, DbElection!Learn
    <3>3. CASE DecodeArtifact(p)
      BY <3>3 DEF DecodeArtifact, DbElection!Next, DbElection!Publish, DbElection!Learn
    <3>4. CASE ReadFails(p)
      BY <3>4 DEF ReadFails, DbElection!Next, DbElection!Publish, DbElection!Learn
    <3>5. CASE StartBuild(p)
      BY <3>5 DEF StartBuild, DbElection!Next, DbElection!Publish, DbElection!Learn
    <3>6. CASE BuildCorpus(p)
      BY <3>6 DEF BuildCorpus, DbElection!Next, DbElection!Publish, DbElection!Learn
    <3>7. CASE WriteTemporary(p)
      BY <3>7 DEF WriteTemporary, DbElection!Next, DbElection!Publish, DbElection!Learn
    <3>8. CASE ReplaceArtifact(p)
      BY <3>8 DEF ReplaceArtifact, DbElection!Next, DbElection!Publish, DbElection!Learn
    <3>9. CASE CorpusRaises(p)
      BY <3>9 DEF CorpusRaises, DbElection!Next, DbElection!Publish, DbElection!Learn
    <3>10. CASE UnlockCorpus(p)
      BY <3>10 DEF UnlockCorpus, DbElection!Next, DbElection!Publish, DbElection!Learn
    <3>11. CASE UnlockCorpusRaising(p)
      BY <3>11 DEF UnlockCorpusRaising, DbElection!Next, DbElection!Publish, DbElection!Learn
    <3>12. QED
      BY <2>3, <3>1, <3>2, <3>3, <3>4, <3>5, <3>6, <3>7, <3>8, <3>9, <3>10, <3>11 DEF Corpus
  <2>4. ASSUME NEW p \in Procs, Calls(p)
        PROVE  [DbElection!Next]_DbElection!abstractVars
    BY <2>4 DEF vars, Calls, EnsureAgain, CallEnsure, CorpusAgain, CallCorpus
  <2>5. ASSUME NEW p \in Procs, Crash(p)
        PROVE  [DbElection!Next]_DbElection!abstractVars
    BY <2>5 DEF Crash, Released, DbElection!Next, DbElection!Forget
  <2>6. ASSUME NEW p \in Procs, Replace(p)
        PROVE  [DbElection!Next]_DbElection!abstractVars
    BY <2>6 DEF Replace
  <2>7. QED
    BY <2>1, <2>2, <2>3, <2>4, <2>5, <2>6 DEF Next
<1>3. QED
  BY <1>1, <1>2, Typed, Elections, PTL DEF Spec, DbElectionSpec, DbElection!Spec
=============================================================================
