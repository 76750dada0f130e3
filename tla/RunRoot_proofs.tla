--------------------------- MODULE RunRoot_proofs ---------------------------
(***************************************************************************)
(* Proofs about the directory of a run: what becomes of it (RunRoot), for  *)
(* any finite number of runs and any retention count, and where it goes    *)
(* (StorageLadder), for every set of directories.                          *)
(***************************************************************************)
EXTENDS RunRoot, StorageLadder, FiniteSetTheorems, TLAPS

-----------------------------------------------------------------------------
(***************************************************************************)
(* RunRoot                                                                 *)
(*                                                                         *)
(* Proofs about RunRoot for any finite number of runs and any retention    *)
(* count.                                                                  *)
(***************************************************************************)

\* Every step of a run keeps its state typed.
LEMMA TypeStep ==
  ASSUME RootTypeOK, [RootNext]_rootVars
  PROVE  RootTypeOK'
<1>. USE RunsAssumption
     DEF RootTypeOK, Stages, Ended, RootStates, Policies,
         baseVars, resourceVars, sessionVars, Proceed
<1>1. CASE UNCHANGED rootVars
  BY <1>1 DEF rootVars
<1>2. ASSUME NEW r \in Runs, Bootstrap(r)
      PROVE  RootTypeOK'
  <2>1. CASE RefuseRun(r)
    BY <2>1 DEF RefuseRun
  <2>2. CASE LocateStorage(r)
    BY <2>2 DEF LocateStorage
  <2>3. CASE Provision(r)
    BY <2>3 DEF Provision
  <2>4. CASE ProvisionFails(r)
    BY <2>4 DEF ProvisionFails
  <2>5. QED
    BY <1>2, <2>1, <2>2, <2>3, <2>4 DEF Bootstrap
<1>3. ASSUME NEW r \in Runs, Hooks(r)
      PROVE  RootTypeOK'
  <2>1. CASE Configure(r)
    BY <2>1 DEF Configure
  <2>2. CASE Doctor(r)
    BY <2>2 DEF Doctor
  <2>3. CASE EndWithoutSession(r)
    BY <2>3 DEF EndWithoutSession
  <2>4. CASE StartSession(r)
    BY <2>4 DEF StartSession
  <2>5. CASE SessionDies(r)
    BY <2>5 DEF SessionDies
  <2>6. CASE FinishSession(r)
    BY <2>6 DEF FinishSession
  <2>7. CASE Summarize(r)
    BY <2>7 DEF Summarize
  <2>8. CASE SkipSummary(r)
    BY <2>8 DEF SkipSummary
  <2>9. QED
    BY <1>3, <2>1, <2>2, <2>3, <2>4, <2>5, <2>6, <2>7, <2>8 DEF Hooks
<1>4. ASSUME NEW r \in Runs, Cleanup(r)
      PROVE  RootTypeOK'
  <2>1. CASE Decide(r)
    <3>1. Retained(r) \in BOOLEAN
      BY DEF Retained
    <3>2. QED
      BY <2>1, <3>1 DEF Decide
  <2>2. CASE StopContainer(r)
    BY <2>2 DEF StopContainer
  <2>3. CASE StopRaises(r)
    BY <2>3 DEF StopRaises
  <2>4. CASE Restore(r)
    BY <2>4 DEF Restore
  <2>5. CASE Remove(r)
    BY <2>5 DEF Remove
  <2>6. CASE Announce(r)
    BY <2>6 DEF Announce
  <2>7. CASE RetentionRaises(r)
    BY <2>7 DEF RetentionRaises
  <2>8. CASE Mark(r)
    <3>1. 1 .. Cardinality(Runs) \subseteq Nat
      OBVIOUS
    <3>2. QED
      BY <2>8, <3>1 DEF Mark
  <2>9. CASE Scan(r)
    BY <2>9 DEF Scan, Kept
  <2>10. CASE Prune(r)
    BY <2>10 DEF Prune, NextStale
  <2>11. CASE PruneFails(r)
    BY <2>11 DEF PruneFails, NextStale, Kept
  <2>12. CASE FinishPrune(r)
    BY <2>12 DEF FinishPrune
  <2>13. QED
    BY <1>4, <2>1, <2>2, <2>3, <2>4, <2>5, <2>6, <2>7, <2>8, <2>9, <2>10, <2>11, <2>12 DEF Cleanup
<1>5. ASSUME NEW r \in Runs, Kill(r)
      PROVE  RootTypeOK'
  BY <1>5 DEF Kill
<1>6. QED
  BY <1>1, <1>2, <1>3, <1>4, <1>5 DEF RootNext

\* Every reachable state is typed, whichever steps raise and whichever runs are
\* killed.
THEOREM Typed == RootSpec => []RootTypeOK
<1>1. RootInit => RootTypeOK
  BY DEF RootInit, RootTypeOK, Stages, RootStates, Policies
<1>2. QED
  BY <1>1, TypeStep, PTL DEF RootSpec

\* What the session's end and the decision write at their own run.
LEMMA VerdictWritten ==
  ASSUME RootTypeOK, NEW r \in Runs, FinishSession(r)
  PROVE  failed'[r] <=> session'[r] = "unclean"
<1>1. PICK outcome \in {"clean", "unclean"} :
        session' = [session EXCEPT ![r] = outcome] /\ failed' = [failed EXCEPT ![r] = outcome = "unclean"]
  BY DEF FinishSession
<1>2. failed'[r] <=> outcome = "unclean"
  BY <1>1 DEF RootTypeOK
<1>3. session'[r] = outcome
  BY <1>1 DEF RootTypeOK
<1>. QED BY <1>2, <1>3

LEMMA DecisionWritten ==
  ASSUME RootTypeOK, NEW r \in Runs, Decide(r)
  PROVE  retain'[r] <=> Retained(r)
BY DEF RootTypeOK, Decide

\* The stash entry is pessimistic from the start of a session to its outcome.
LEMMA SessionStep ==
  ASSUME RootTypeOK, SessionInv, [RootNext]_rootVars
  PROVE  SessionInv'
<1>. USE RunsAssumption
     DEF RootTypeOK, Stages, Ended, RootStates, Policies, Unopened, Opening,
         Retaining, Pruning, Retained, SessionInv,
         baseVars, resourceVars, sessionVars, Proceed
<1>1. CASE UNCHANGED rootVars
  BY <1>1 DEF rootVars
<1>2. ASSUME NEW r \in Runs, Bootstrap(r)
      PROVE  SessionInv'
  <2>1. CASE RefuseRun(r)
    BY <2>1 DEF RefuseRun
  <2>2. CASE LocateStorage(r)
    BY <2>2 DEF LocateStorage
  <2>3. CASE Provision(r)
    BY <2>3 DEF Provision
  <2>4. CASE ProvisionFails(r)
    BY <2>4 DEF ProvisionFails
  <2>5. QED
    BY <1>2, <2>1, <2>2, <2>3, <2>4 DEF Bootstrap
<1>3. ASSUME NEW r \in Runs, Hooks(r)
      PROVE  SessionInv'
  <2>1. CASE Configure(r)
    BY <2>1 DEF Configure
  <2>2. CASE Doctor(r)
    BY <2>2 DEF Doctor
  <2>3. CASE EndWithoutSession(r)
    BY <2>3 DEF EndWithoutSession
  <2>4. CASE StartSession(r)
    BY <2>4 DEF StartSession
  <2>5. CASE SessionDies(r)
    BY <2>5 DEF SessionDies
  <2>6. CASE FinishSession(r)
    <3>1. PICK outcome \in {"clean", "unclean"} :
            /\ session' = [session EXCEPT ![r] = outcome]
            /\ failed' = [failed EXCEPT ![r] = outcome = "unclean"]
      BY <2>6 DEF FinishSession
    <3>2. failed'[r] <=> session'[r] = "unclean"
      BY ONLY RootTypeOK, r \in Runs, <2>6, VerdictWritten
    <3>3. /\ stage' = [stage EXCEPT ![r] = "finished"] /\ policy' = policy
          /\ session'[r] \in {"clean", "unclean"}
      BY <2>6, <3>1 DEF FinishSession
    <3>4. \A s \in Runs : s # r =>
            /\ failed'[s] = failed[s] /\ session'[s] = session[s] /\ stage'[s] = stage[s]
      BY <3>1, <3>3
    <3>5. stage'[r] = "finished" /\ session'[r] # "running" /\ session'[r] # "unstarted"
      BY <3>3
    <3>6. QED
      BY <3>2, <3>3, <3>4, <3>5
  <2>7. CASE Summarize(r)
    BY <2>7 DEF Summarize
  <2>8. CASE SkipSummary(r)
    BY <2>8 DEF SkipSummary
  <2>9. QED
    BY <1>3, <2>1, <2>2, <2>3, <2>4, <2>5, <2>6, <2>7, <2>8 DEF Hooks
<1>4. ASSUME NEW r \in Runs, Cleanup(r)
      PROVE  SessionInv'
  <2>1. CASE Decide(r)
    BY <2>1 DEF Decide
  <2>2. CASE StopContainer(r)
    BY <2>2 DEF StopContainer
  <2>3. CASE StopRaises(r)
    BY <2>3 DEF StopRaises
  <2>4. CASE Restore(r)
    BY <2>4 DEF Restore
  <2>5. CASE Remove(r)
    BY <2>5 DEF Remove
  <2>6. CASE Announce(r)
    BY <2>6 DEF Announce
  <2>7. CASE RetentionRaises(r)
    BY <2>7 DEF RetentionRaises
  <2>8. CASE Mark(r)
    BY <2>8 DEF Mark
  <2>9. CASE Scan(r)
    BY <2>9 DEF Scan
  <2>10. CASE Prune(r)
    BY <2>10 DEF Prune, NextStale
  <2>11. CASE PruneFails(r)
    BY <2>11 DEF PruneFails, NextStale, Kept
  <2>12. CASE FinishPrune(r)
    BY <2>12 DEF FinishPrune
  <2>13. QED
    BY <1>4, <2>1, <2>2, <2>3, <2>4, <2>5, <2>6, <2>7, <2>8, <2>9, <2>10, <2>11, <2>12 DEF Cleanup
<1>5. ASSUME NEW r \in Runs, Kill(r)
      PROVE  SessionInv'
  BY <1>5 DEF Kill
<1>6. QED
  BY <1>1, <1>2, <1>3, <1>4, <1>5 DEF RootNext

\* Nothing changes the verdict between the summary, the decision and its effect.
LEMMA DecisionStep ==
  ASSUME RootTypeOK, SessionInv, DecisionInv, [RootNext]_rootVars
  PROVE  DecisionInv'
<1>. USE RunsAssumption
     DEF RootTypeOK, Stages, Ended, RootStates, Policies, Unopened, Opening,
         Retaining, Pruning, Retained, SessionInv, DecisionInv,
         baseVars, resourceVars, sessionVars, Proceed
<1>1. CASE UNCHANGED rootVars
  BY <1>1 DEF rootVars
<1>2. ASSUME NEW r \in Runs, Bootstrap(r)
      PROVE  DecisionInv'
  <2>1. CASE RefuseRun(r)
    BY <2>1 DEF RefuseRun
  <2>2. CASE LocateStorage(r)
    BY <2>2 DEF LocateStorage
  <2>3. CASE Provision(r)
    BY <2>3 DEF Provision
  <2>4. CASE ProvisionFails(r)
    <3>1. ~Retained(r) /\ ~Retained(r)'
      BY <2>4 DEF ProvisionFails
    <3>2. QED
      BY <2>4, <3>1 DEF ProvisionFails
  <2>5. QED
    BY <1>2, <2>1, <2>2, <2>3, <2>4 DEF Bootstrap
<1>3. ASSUME NEW r \in Runs, Hooks(r)
      PROVE  DecisionInv'
  <2>1. CASE Configure(r)
    BY <2>1 DEF Configure
  <2>2. CASE Doctor(r)
    BY <2>2 DEF Doctor
  <2>3. CASE EndWithoutSession(r)
    BY <2>3 DEF EndWithoutSession
  <2>4. CASE StartSession(r)
    BY <2>4 DEF StartSession
  <2>5. CASE SessionDies(r)
    BY <2>5 DEF SessionDies
  <2>6. CASE FinishSession(r)
    <3>1. /\ stage[r] = "session" /\ stage' = [stage EXCEPT ![r] = "finished"]
          /\ UNCHANGED <<policy, announced, retain>>
      BY <2>6 DEF FinishSession
    <3>2. ~announced'[r] /\ stage'[r] = "finished"
      BY <3>1
    <3>3. \A s \in Runs : s # r => failed'[s] = failed[s] /\ stage'[s] = stage[s]
      BY <2>6, <3>1 DEF FinishSession
    <3>4. QED
      BY <3>1, <3>2, <3>3
  <2>7. CASE Summarize(r)
    BY <2>7 DEF Summarize
  <2>8. CASE SkipSummary(r)
    BY <2>8 DEF SkipSummary
  <2>9. QED
    BY <1>3, <2>1, <2>2, <2>3, <2>4, <2>5, <2>6, <2>7, <2>8 DEF Hooks
<1>4. ASSUME NEW r \in Runs, Cleanup(r)
      PROVE  DecisionInv'
  <2>1. CASE Decide(r)
    <3>1. retain'[r] <=> Retained(r)
      BY ONLY RootTypeOK, r \in Runs, <2>1, DecisionWritten
    <3>2. \A s \in Runs : s # r => retain'[s] = retain[s]
      BY <2>1 DEF Decide
    <3>3. stage' = [stage EXCEPT ![r] = "stop"] /\ UNCHANGED <<policy, session, failed, announced>>
      BY <2>1 DEF Decide
    <3>4. stage[r] = "closing"
      BY <2>1 DEF Decide
    <3>5. QED
      BY <3>1, <3>2, <3>3, <3>4
  <2>2. CASE StopContainer(r)
    BY <2>2 DEF StopContainer
  <2>3. CASE StopRaises(r)
    BY <2>3 DEF StopRaises
  <2>4. CASE Restore(r)
    BY <2>4 DEF Restore
  <2>5. CASE Remove(r)
    BY <2>5 DEF Remove
  <2>6. CASE Announce(r)
    BY <2>6 DEF Announce
  <2>7. CASE RetentionRaises(r)
    BY <2>7 DEF RetentionRaises
  <2>8. CASE Mark(r)
    BY <2>8 DEF Mark
  <2>9. CASE Scan(r)
    BY <2>9 DEF Scan
  <2>10. CASE Prune(r)
    BY <2>10 DEF Prune, NextStale
  <2>11. CASE PruneFails(r)
    BY <2>11 DEF PruneFails, NextStale, Kept
  <2>12. CASE FinishPrune(r)
    BY <2>12 DEF FinishPrune
  <2>13. QED
    BY <1>4, <2>1, <2>2, <2>3, <2>4, <2>5, <2>6, <2>7, <2>8, <2>9, <2>10, <2>11, <2>12 DEF Cleanup
<1>5. ASSUME NEW r \in Runs, Kill(r)
      PROVE  DecisionInv'
  BY <1>5 DEF Kill
<1>6. QED
  BY <1>1, <1>2, <1>3, <1>4, <1>5 DEF RootNext

\* Pruning reaches no directory whose owner still works in it.
LEMMA RootStep ==
  ASSUME RootTypeOK, SessionInv, DecisionInv, RootInv, StaleInv, [RootNext]_rootVars
  PROVE  RootInv'
<1>. USE RunsAssumption
     DEF RootTypeOK, Stages, Ended, RootStates, Policies, Unopened, Opening,
         Retaining, Pruning, Retained, SessionInv, DecisionInv, RootInv, StaleInv,
         baseVars, resourceVars, sessionVars, Proceed
<1>1. CASE UNCHANGED rootVars
  BY <1>1 DEF rootVars
<1>2. ASSUME NEW r \in Runs, Bootstrap(r)
      PROVE  RootInv'
  <2>1. CASE RefuseRun(r)
    BY <2>1 DEF RefuseRun
  <2>2. CASE LocateStorage(r)
    BY <2>2 DEF LocateStorage
  <2>3. CASE Provision(r)
    BY <2>3 DEF Provision
  <2>4. CASE ProvisionFails(r)
    BY <2>4 DEF ProvisionFails
  <2>5. QED
    BY <1>2, <2>1, <2>2, <2>3, <2>4 DEF Bootstrap
<1>3. ASSUME NEW r \in Runs, Hooks(r)
      PROVE  RootInv'
  <2>1. CASE Configure(r)
    BY <2>1 DEF Configure
  <2>2. CASE Doctor(r)
    BY <2>2 DEF Doctor
  <2>3. CASE EndWithoutSession(r)
    BY <2>3 DEF EndWithoutSession
  <2>4. CASE StartSession(r)
    BY <2>4 DEF StartSession
  <2>5. CASE SessionDies(r)
    BY <2>5 DEF SessionDies
  <2>6. CASE FinishSession(r)
    BY <2>6 DEF FinishSession
  <2>7. CASE Summarize(r)
    BY <2>7 DEF Summarize
  <2>8. CASE SkipSummary(r)
    BY <2>8 DEF SkipSummary
  <2>9. QED
    BY <1>3, <2>1, <2>2, <2>3, <2>4, <2>5, <2>6, <2>7, <2>8 DEF Hooks
<1>4. ASSUME NEW r \in Runs, Cleanup(r)
      PROVE  RootInv'
  <2>1. CASE Decide(r)
    BY <2>1 DEF Decide
  <2>2. CASE StopContainer(r)
    BY <2>2 DEF StopContainer
  <2>3. CASE StopRaises(r)
    BY <2>3 DEF StopRaises
  <2>4. CASE Restore(r)
    BY <2>4 DEF Restore
  <2>5. CASE Remove(r)
    BY <2>5 DEF Remove
  <2>6. CASE Announce(r)
    BY <2>6 DEF Announce
  <2>7. CASE RetentionRaises(r)
    BY <2>7 DEF RetentionRaises
  <2>8. CASE Mark(r)
    BY <2>8 DEF Mark
  <2>9. CASE Scan(r)
    BY <2>9 DEF Scan
  <2>10. CASE Prune(r)
    BY <2>10 DEF Prune, NextStale
  <2>11. CASE PruneFails(r)
    BY <2>11 DEF PruneFails, NextStale, Kept
  <2>12. CASE FinishPrune(r)
    BY <2>12 DEF FinishPrune
  <2>13. QED
    BY <1>4, <2>1, <2>2, <2>3, <2>4, <2>5, <2>6, <2>7, <2>8, <2>9, <2>10, <2>11, <2>12 DEF Cleanup
<1>5. ASSUME NEW r \in Runs, Kill(r)
      PROVE  RootInv'
  BY <1>5 DEF Kill
<1>6. QED
  BY <1>1, <1>2, <1>3, <1>4, <1>5 DEF RootNext

\* The finally clause runs whether or not the container's stop raises.
LEMMA ReleaseStep ==
  ASSUME RootTypeOK, ReleaseInv, [RootNext]_rootVars
  PROVE  ReleaseInv'
<1>. USE RunsAssumption
     DEF RootTypeOK, Stages, Ended, RootStates, Policies, Unopened, Opening,
         Retaining, Pruning, Retained, ReleaseInv,
         baseVars, resourceVars, sessionVars, Proceed
<1>1. CASE UNCHANGED rootVars
  BY <1>1 DEF rootVars
<1>2. ASSUME NEW r \in Runs, Bootstrap(r)
      PROVE  ReleaseInv'
  <2>1. CASE RefuseRun(r)
    BY <2>1 DEF RefuseRun
  <2>2. CASE LocateStorage(r)
    BY <2>2 DEF LocateStorage
  <2>3. CASE Provision(r)
    BY <2>3 DEF Provision
  <2>4. CASE ProvisionFails(r)
    BY <2>4 DEF ProvisionFails
  <2>5. QED
    BY <1>2, <2>1, <2>2, <2>3, <2>4 DEF Bootstrap
<1>3. ASSUME NEW r \in Runs, Hooks(r)
      PROVE  ReleaseInv'
  <2>1. CASE Configure(r)
    BY <2>1 DEF Configure
  <2>2. CASE Doctor(r)
    BY <2>2 DEF Doctor
  <2>3. CASE EndWithoutSession(r)
    BY <2>3 DEF EndWithoutSession
  <2>4. CASE StartSession(r)
    BY <2>4 DEF StartSession
  <2>5. CASE SessionDies(r)
    BY <2>5 DEF SessionDies
  <2>6. CASE FinishSession(r)
    BY <2>6 DEF FinishSession
  <2>7. CASE Summarize(r)
    BY <2>7 DEF Summarize
  <2>8. CASE SkipSummary(r)
    BY <2>8 DEF SkipSummary
  <2>9. QED
    BY <1>3, <2>1, <2>2, <2>3, <2>4, <2>5, <2>6, <2>7, <2>8 DEF Hooks
<1>4. ASSUME NEW r \in Runs, Cleanup(r)
      PROVE  ReleaseInv'
  <2>1. CASE Decide(r)
    BY <2>1 DEF Decide
  <2>2. CASE StopContainer(r)
    BY <2>2 DEF StopContainer
  <2>3. CASE StopRaises(r)
    BY <2>3 DEF StopRaises
  <2>4. CASE Restore(r)
    BY <2>4 DEF Restore
  <2>5. CASE Remove(r)
    BY <2>5 DEF Remove
  <2>6. CASE Announce(r)
    BY <2>6 DEF Announce
  <2>7. CASE RetentionRaises(r)
    BY <2>7 DEF RetentionRaises
  <2>8. CASE Mark(r)
    BY <2>8 DEF Mark
  <2>9. CASE Scan(r)
    BY <2>9 DEF Scan
  <2>10. CASE Prune(r)
    BY <2>10 DEF Prune, NextStale
  <2>11. CASE PruneFails(r)
    BY <2>11 DEF PruneFails, NextStale, Kept
  <2>12. CASE FinishPrune(r)
    BY <2>12 DEF FinishPrune
  <2>13. QED
    BY <1>4, <2>1, <2>2, <2>3, <2>4, <2>5, <2>6, <2>7, <2>8, <2>9, <2>10, <2>11, <2>12 DEF Cleanup
<1>5. ASSUME NEW r \in Runs, Kill(r)
      PROVE  ReleaseInv'
  BY <1>5 DEF Kill
<1>6. QED
  BY <1>1, <1>2, <1>3, <1>4, <1>5 DEF RootNext

-----------------------------------------------------------------------------
(* Pruning *)

\* The sets whose cardinalities are compared are finite.
LEMMA AheadFinite ==
  ASSUME NEW d \in Runs
  PROVE  IsFiniteSet(Ahead(d)) /\ Cardinality(Ahead(d)) \in Nat
<1>1. Ahead(d) \subseteq Runs
  BY DEF Ahead, Kept
<1>2. QED
  BY <1>1, RunsAssumption, FS_Subset, FS_CardinalityType

\* Being past the newest Keep survives whatever leaves enough newer ones.
LEMMA PastKeepStays ==
  ASSUME NEW d \in Runs, NEW e \in Runs, PastKeep(e), Ahead(e) \subseteq Ahead(d)'
  PROVE  PastKeep(d)'
<1>1. Ahead(d)' \subseteq Runs
  BY DEF Ahead, Kept
<1>2. IsFiniteSet(Ahead(d)')
  BY <1>1, RunsAssumption, FS_Subset
<1>3. Cardinality(Ahead(e)) <= Cardinality(Ahead(d)')
  BY <1>2, FS_Subset
<1>4. Cardinality(Ahead(e)) \in Nat /\ Cardinality(Ahead(d)') \in Nat
  BY <1>2, AheadFinite, FS_CardinalityType
<1>5. QED
  BY <1>3, <1>4, RunsAssumption DEF PastKeep

Settled == {"kept", "pruned", "debris"}

\* A step that leaves the settled directories alone endangers no pruning.
LEMMA StaleUndisturbed ==
  ASSUME RootTypeOK, RootTypeOK', StaleInv,
         \A r \in Runs : stale'[r] \subseteq stale[r],
         \A e \in Runs : root[e] \in Settled => root'[e] = root[e] /\ stamp'[e] = stamp[e]
  PROVE  StaleInv'
<1>1. ASSUME NEW r \in Runs, NEW d \in stale'[r]
      PROVE  root'[d] \in Settled /\ (root'[d] = "kept" => PastKeep(d)')
  <2>1. d \in Runs /\ root[d] \in Settled /\ (root[d] = "kept" => PastKeep(d))
    BY <1>1 DEF StaleInv, RootTypeOK, Settled
  <2>2. root'[d] = root[d] /\ stamp'[d] = stamp[d]
    BY <2>1
  <2>3. Ahead(d) \subseteq Ahead(d)'
    BY <2>1, <2>2 DEF Ahead, Kept, Newer, Settled
  <2>4. QED
    BY <2>1, <2>2, <2>3, PastKeepStays
<1>2. QED
  BY <1>1 DEF StaleInv, Settled

\* Evicting a directory past the newest Keep puts no other one back among them:
\* what was newer than the evicted directory is newer than those it preceded.
LEMMA StaleEviction ==
  ASSUME RootTypeOK, StaleInv,
         NEW v \in Runs, root[v] = "kept", PastKeep(v),
         NEW left \in {"pruned", "debris"},
         root' = [root EXCEPT ![v] = left], stamp' = stamp,
         \A r \in Runs : stale'[r] \subseteq stale[r]
  PROVE  StaleInv'
<1>1. ASSUME NEW r \in Runs, NEW d \in stale'[r]
      PROVE  root'[d] \in Settled /\ (root'[d] = "kept" => PastKeep(d)')
  <2>1. d \in Runs /\ root[d] \in Settled /\ (root[d] = "kept" => PastKeep(d))
    BY <1>1 DEF StaleInv, RootTypeOK, Settled
  <2>2. root'[d] \in Settled
    BY <2>1 DEF RootTypeOK, Settled
  <2>3. ASSUME root'[d] = "kept"
        PROVE  PastKeep(d)'
    <3>1. d # v /\ root[d] = "kept" /\ PastKeep(d)
      BY <2>1, <2>3 DEF RootTypeOK
    <3>2. CASE Newer(v, d)
      <4>1. Ahead(v) \subseteq Ahead(d)'
        <5>1. ASSUME NEW e \in Ahead(v)
              PROVE  e \in Ahead(d)'
          <6>1. e \in Runs /\ root[e] = "kept" /\ Newer(e, v) /\ e # v
            BY RunsAssumption DEF Ahead, Kept, Newer, RootTypeOK
          <6>2. Newer(e, d)
            BY <6>1, <2>1, <3>2, RunsAssumption DEF Newer, RootTypeOK
          <6>3. QED
            BY <6>1, <6>2 DEF Ahead, Kept, Newer, RootTypeOK
        <5>2. QED
          BY <5>1
      <4>2. QED
        BY <4>1, <2>1, PastKeepStays
    <3>3. CASE ~Newer(v, d)
      <4>1. Ahead(d) \subseteq Ahead(d)'
        BY <3>3 DEF Ahead, Kept, Newer, RootTypeOK
      <4>2. QED
        BY <4>1, <2>1, <3>1, PastKeepStays
    <3>4. QED
      BY <3>2, <3>3
  <2>4. QED
    BY <2>2, <2>3
<1>2. QED
  BY <1>1 DEF StaleInv, Settled

\* Pruning candidates stay past the newest Keep while other runs mark and prune.
LEMMA StaleStep ==
  ASSUME RootTypeOK, RootTypeOK', RootInv, StaleInv, [RootNext]_rootVars
  PROVE  StaleInv'
<1>. USE DEF Stages, Ended, Opening, Unopened, Retaining, Settled, RootInv, baseVars, Proceed
<1>. SUFFICES ASSUME NEW r \in Runs, Bootstrap(r) \/ Hooks(r) \/ Cleanup(r) \/ Kill(r)
              PROVE  StaleInv'
  BY StaleUndisturbed DEF RootNext, rootVars
<1>1. CASE Bootstrap(r)
  <2>1. CASE LocateStorage(r)
    <3>1. \A e \in Runs : root[e] \in Settled => root'[e] = root[e]
      BY <2>1 DEF LocateStorage, RootTypeOK
    <3>2. QED
      BY <2>1, <3>1, StaleUndisturbed DEF LocateStorage
  <2>2. QED
    BY <1>1, <2>1, StaleUndisturbed DEF Bootstrap, RefuseRun, Provision, ProvisionFails
<1>2. CASE Hooks(r)
  BY <1>2, StaleUndisturbed
     DEF Hooks, Configure, Doctor, EndWithoutSession, StartSession, SessionDies,
         FinishSession, Summarize, SkipSummary
<1>3. CASE Cleanup(r)
  <2>1. CASE Remove(r)
    <3>1. \A e \in Runs : root[e] \in Settled => root'[e] = root[e]
      BY <2>1 DEF Remove, RootTypeOK
    <3>2. QED
      BY <2>1, <3>1, StaleUndisturbed DEF Remove
  <2>2. CASE Mark(r)
    <3>1. \A e \in Runs : root[e] \in Settled => root'[e] = root[e] /\ stamp'[e] = stamp[e]
      BY <2>2 DEF Mark, RootTypeOK
    <3>2. QED
      BY <2>2, <3>1, StaleUndisturbed DEF Mark
  <2>3. CASE Scan(r)
    <3>1. UNCHANGED <<root, stamp>> /\ stale' = [stale EXCEPT ![r] = {d \in Kept : PastKeep(d)}]
      BY <2>3 DEF Scan
    <3>2. ASSUME NEW s \in Runs, NEW d \in stale'[s]
          PROVE  root'[d] \in Settled /\ (root'[d] = "kept" => PastKeep(d)')
      <4>1. d \in Runs /\ root[d] \in Settled /\ (root[d] = "kept" => PastKeep(d))
        BY <3>1, <3>2 DEF StaleInv, RootTypeOK, Kept
      <4>2. Ahead(d) \subseteq Ahead(d)'
        BY <3>1 DEF Ahead, Kept, Newer
      <4>3. QED
        BY <3>1, <4>1, <4>2, PastKeepStays
    <3>3. QED
      BY <3>2 DEF StaleInv
  <2>4. CASE Prune(r)
    <3>1. PICK d \in Runs :
            /\ NextStale(r, d)
            /\ root' = [root EXCEPT ![d] = IF @ \in {"live", "kept"} THEN "pruned" ELSE @]
      BY <2>4 DEF Prune
    <3>2. d \in stale[r] /\ stamp' = stamp /\ \A s \in Runs : stale'[s] \subseteq stale[s]
      BY <2>4, <3>1 DEF Prune, NextStale, RootTypeOK
    <3>3. root[d] \in Settled /\ (root[d] = "kept" => PastKeep(d))
      BY <3>2 DEF StaleInv
    <3>4. CASE root[d] = "kept"
      BY <3>1, <3>2, <3>3, <3>4, StaleEviction
    <3>5. CASE root[d] # "kept"
      <4>1. root' = root
        BY <3>1, <3>3, <3>5 DEF RootTypeOK
      <4>2. QED
        BY <3>2, <4>1, StaleUndisturbed
    <3>6. QED
      BY <3>4, <3>5
  <2>5. CASE PruneFails(r)
    <3>1. PICK d \in Kept, left \in {"kept", "debris"} :
            NextStale(r, d) /\ root' = [root EXCEPT ![d] = left]
      BY <2>5 DEF PruneFails
    <3>2. d \in Runs /\ root[d] = "kept"
      BY DEF Kept
    <3>3. d \in stale[r] /\ stamp' = stamp /\ \A s \in Runs : stale'[s] \subseteq stale[s]
      BY <2>5, <3>1 DEF PruneFails, NextStale, RootTypeOK
    <3>4. PastKeep(d)
      BY <3>2, <3>3 DEF StaleInv
    <3>5. CASE left = "kept"
      <4>1. root' = root
        BY <3>1, <3>2, <3>5 DEF RootTypeOK
      <4>2. QED
        BY <3>3, <4>1, StaleUndisturbed
    <3>6. CASE left = "debris"
      BY <3>1, <3>2, <3>3, <3>4, <3>6, StaleEviction
    <3>7. QED
      BY <3>5, <3>6
  <2>6. QED
    BY <1>3, <2>1, <2>2, <2>3, <2>4, <2>5, StaleUndisturbed
       DEF Cleanup, Decide, StopContainer, StopRaises, Restore, Announce,
           RetentionRaises, FinishPrune
<1>4. CASE Kill(r)
  <2>1. \A s \in Runs : stale'[s] \subseteq stale[s]
    BY <1>4 DEF Kill, RootTypeOK
  <2>2. QED
    BY <1>4, <2>1, StaleUndisturbed DEF Kill
<1>5. QED
  BY <1>1, <1>2, <1>3, <1>4

-----------------------------------------------------------------------------
(* The theorems *)

\* One step of any run preserves the whole invariant.
LEMMA RunRootStep ==
  ASSUME RootTypeOK, RunRootInv, [RootNext]_rootVars
  PROVE  RootTypeOK' /\ RunRootInv'
BY TypeStep, SessionStep, DecisionStep, RootStep, ReleaseStep, StaleStep DEF RunRootInv

\* The decision, the directory and the stash tell one story at every step of
\* every run, whatever raises and whoever is killed.
THEOREM Consistent == RootSpec => []RunRootInv
<1>1. RootInit => RunRootInv
  BY DEF RootInit, RunRootInv, SessionInv, DecisionInv, RootInv, ReleaseInv, StaleInv,
         Opening, Unopened, Retaining, Pruning, Retained
<1>2. QED
  BY <1>1, RunRootStep, Typed, PTL DEF RootSpec

\* No concurrent pruning and no early cleanup removes the directory of a run that
\* still needs it.
THEOREM LiveRoots == RootSpec => []LiveRunHasRoot
<1>1. RootTypeOK /\ RunRootInv => LiveRunHasRoot
  BY DEF RootTypeOK, RunRootInv, RootInv, LiveRunHasRoot, Stages, Ended, Opening, Unopened,
         Retaining
<1>2. QED
  BY <1>1, Typed, Consistent, PTL

\* How the session really went decides what becomes of its directory.
THEOREM OutcomeGoverns == RootSpec => []OutcomeGovernsRetention
<1>1. RootTypeOK /\ RunRootInv => OutcomeGovernsRetention
  BY DEF RootTypeOK, Policies, RunRootInv, SessionInv, DecisionInv, RootInv, Retained,
         OutcomeGovernsRetention
<1>2. QED
  BY <1>1, Typed, Consistent, PTL

\* A cleanup that came to its end gave everything back, also when stop raised.
THEOREM CleanupCompletes == RootSpec => []CleanupEndsClean
<1>1. RunRootInv => CleanupEndsClean
  BY DEF RunRootInv, RootInv, ReleaseInv, CleanupEndsClean, Retaining, Pruning
<1>2. QED
  BY <1>1, Consistent, PTL

\* The cleanup decides by the session's outcome and carries through what it decided.
THEOREM CleanupSound == RootSpec => []CleanupFollowsOutcome
<1>1. OutcomeGovernsRetention /\ CleanupEndsClean => CleanupFollowsOutcome
  BY DEF CleanupFollowsOutcome
<1>2. QED
  BY <1>1, OutcomeGoverns, CleanupCompletes, PTL

\* The directories listed before d are other ones that are at least as recent.
LEMMA AheadAsRecent ==
  ASSUME RootTypeOK, NEW d \in Runs, PastKeep(d)
  PROVE  Cardinality(AsRecent(d)) >= Keep
<1>1. Ahead(d) \subseteq AsRecent(d) /\ AsRecent(d) \subseteq Runs
  <2>1. ASSUME NEW e \in Ahead(d)
        PROVE  e \in AsRecent(d)
    <3>1. e \in Runs /\ root[e] = "kept" /\ Newer(e, d)
      BY DEF Ahead, Kept
    <3>2. e \in Nat /\ d \in Nat /\ stamp[e] \in Nat /\ stamp[d] \in Nat
      BY <3>1, RunsAssumption DEF RootTypeOK
    <3>3. e # d /\ stamp[e] >= stamp[d]
      BY <3>1, <3>2 DEF Newer
    <3>4. QED
      BY <3>1, <3>3 DEF AsRecent
  <2>2. QED
    BY <2>1 DEF AsRecent
<1>2. IsFiniteSet(AsRecent(d))
  BY <1>1, RunsAssumption, FS_Subset
<1>3. Cardinality(Ahead(d)) <= Cardinality(AsRecent(d))
  BY <1>1, <1>2, FS_Subset
<1>4. Cardinality(Ahead(d)) \in Nat /\ Cardinality(AsRecent(d)) \in Nat
  BY <1>2, AheadFinite, FS_CardinalityType
<1>5. QED
  BY <1>3, <1>4, RunsAssumption DEF PastKeep

\* What a run decided to prune stays past the Keep most recent directories.
THEOREM PruningStaysSound == RootSpec => []StaleStayPastKeep
<1>1. RootTypeOK /\ RunRootInv => StaleStayPastKeep
  <2>1. ASSUME RootTypeOK, RunRootInv, NEW r \in Runs, NEW d \in stale[r] \cap Kept
        PROVE  Cardinality(AsRecent(d)) >= Keep
    <3>1. d \in Runs /\ PastKeep(d)
      BY <2>1 DEF RunRootInv, StaleInv, Kept
    <3>2. QED
      BY <2>1, <3>1, AheadAsRecent
  <2>2. QED
    BY <2>1 DEF StaleStayPastKeep
<1>2. QED
  BY <1>1, Typed, Consistent, PTL

\* Only pruning takes a kept directory, and only one past the newest Keep.
LEMMA EvictionStep ==
  ASSUME RootTypeOK, RunRootInv, [RootNext]_rootVars,
         NEW d \in Runs, root[d] = "kept", root'[d] # "kept"
  PROVE  PastKeep(d)
<1>. USE DEF RunRootInv, RootInv, Opening, Unopened, Retaining, baseVars, Proceed
<1>1. PICK r \in Runs : Bootstrap(r) \/ Hooks(r) \/ Cleanup(r) \/ Kill(r)
  BY DEF RootNext, rootVars
<1>2. ~Bootstrap(r)
  BY DEF Bootstrap, RefuseRun, LocateStorage, Provision, ProvisionFails, RootTypeOK
<1>3. ~Hooks(r)
  BY DEF Hooks, Configure, Doctor, EndWithoutSession, StartSession, SessionDies,
         FinishSession, Summarize, SkipSummary
<1>4. ~Kill(r)
  BY DEF Kill
<1>5. ~Remove(r)
  BY DEF Remove, RootTypeOK
<1>6. ~Mark(r)
  BY DEF Mark, RootTypeOK
<1>7. CASE Prune(r)
  BY <1>7 DEF Prune, NextStale, StaleInv, RootTypeOK
<1>8. CASE PruneFails(r)
  BY <1>8 DEF PruneFails, NextStale, StaleInv, RootTypeOK, Kept
<1>9. QED
  BY <1>1, <1>2, <1>3, <1>4, <1>5, <1>6, <1>7, <1>8
     DEF Cleanup, Decide, StopContainer, StopRaises, Restore, Announce,
         RetentionRaises, Scan, FinishPrune

\* No run ever evicts one of the Keep most recently retained directories,
\* however the scans and removals of several runs interleave.
THEOREM Evictions == RootSpec => EvictsOnlyPastKeep
<1>1. RootTypeOK /\ RunRootInv /\ [RootNext]_rootVars =>
        [\A d \in Runs : root[d] = "kept" /\ root'[d] # "kept" =>
           Cardinality(AsRecent(d)) >= Keep]_rootVars
  BY EvictionStep, AheadAsRecent
<1>2. QED
  BY <1>1, Typed, Consistent, PTL DEF RootSpec, EvictsOnlyPastKeep

-----------------------------------------------------------------------------
(* Retention *)

\* The directories that are not past the newest Keep are no more than Keep: no
\* two of them have the same number of directories ahead.
LEMMA RecentAreFew ==
  ASSUME RootTypeOK
  PROVE  Cardinality({d \in Kept : ~PastKeep(d)}) <= Keep
<1>. DEFINE Recent == {d \in Kept : ~PastKeep(d)}
            count == [d \in Recent |-> Cardinality(Ahead(d))]
<1>1. Recent \subseteq Runs /\ IsFiniteSet(Recent)
  BY RunsAssumption, FS_Subset DEF Kept
<1>2. /\ IsFiniteSet(0 .. Keep - 1)
      /\ Cardinality(0 .. Keep - 1) = Keep
  BY RunsAssumption, FS_Interval
<1>3. count \in [Recent -> 0 .. Keep - 1]
  <2>1. ASSUME NEW d \in Recent
        PROVE  Cardinality(Ahead(d)) \in 0 .. Keep - 1
    <3>1. d \in Runs /\ ~(Cardinality(Ahead(d)) >= Keep)
      BY <1>1 DEF PastKeep
    <3>2. Cardinality(Ahead(d)) \in Nat
      BY <3>1, AheadFinite
    <3>3. QED
      BY <3>1, <3>2, RunsAssumption
  <2>2. QED
    BY <2>1
<1>4. ASSUME NEW d \in Recent, NEW e \in Recent, Newer(d, e)
      PROVE  count[d] # count[e]
  <2>1. d \in Runs /\ e \in Runs /\ d \in Kept
    BY <1>1
  <2>2. \A k \in Runs : k \in Nat /\ stamp[k] \in Nat
    BY RunsAssumption DEF RootTypeOK
  <2>3. Ahead(d) \subseteq Ahead(e)
    BY <1>4, <2>1, <2>2 DEF Ahead, Kept, Newer
  <2>4. d \in Ahead(e) /\ d \notin Ahead(d)
    BY <1>4, <2>1, <2>2 DEF Ahead, Newer
  <2>5. Cardinality(Ahead(d)) # Cardinality(Ahead(e))
    BY <2>1, <2>3, <2>4, AheadFinite, FS_Subset
  <2>6. QED
    BY <2>5
<1>5. ASSUME NEW d \in Recent, NEW e \in Recent, d # e
      PROVE  count[d] # count[e]
  <2>1. d \in Nat /\ e \in Nat /\ stamp[d] \in Nat /\ stamp[e] \in Nat
    BY <1>1, RunsAssumption DEF RootTypeOK
  <2>2. Newer(d, e) \/ Newer(e, d)
    BY <1>5, <2>1 DEF Newer
  <2>3. QED
    BY <1>4, <2>2
<1>6. Cardinality(Recent) \in Nat
  BY <1>1, FS_CardinalityType
<1>. HIDE DEF count, Recent
<1>7. ~(Keep < Cardinality(Recent))
  BY <1>1, <1>2, <1>3, <1>5, FS_PigeonHole
<1>8. QED
  BY <1>6, <1>7, RunsAssumption DEF Recent

\* Only a scan adds a directory to those of the runs without trouble, and only a
\* removal that worked takes one off a list.
LEMMA ScanStays ==
  ASSUME RootTypeOK, ScanInv, Scanned' \subseteq Scanned,
         \A q \in Scanned' : (stale[q] \ stale'[q]) \cap Scanned' = {}
  PROVE  ScanInv'
<1>1. ASSUME NEW T \in SUBSET Scanned', T # {}
      PROVE  \E q \in T : Cardinality(T \ stale'[q]) <= Keep
  <2>1. PICK q \in T : Cardinality(T \ stale[q]) <= Keep
    BY <1>1 DEF ScanInv
  <2>2. T \ stale'[q] \subseteq T \ stale[q]
    BY <1>1
  <2>3. T \subseteq Runs
    BY DEF Scanned, Kept
  <2>4. IsFiniteSet(T \ stale[q])
    BY <2>3, RunsAssumption, FS_Subset
  <2>5. Cardinality(T \ stale'[q]) <= Cardinality(T \ stale[q])
    BY <2>2, <2>4, FS_Subset
  <2>6. Cardinality(T \ stale[q]) \in Nat /\ Cardinality(T \ stale'[q]) \in Nat
    BY <2>2, <2>4, FS_Subset, FS_CardinalityType
  <2>7. Cardinality(T \ stale'[q]) <= Keep
    BY <2>1, <2>5, <2>6, RunsAssumption
  <2>8. QED
    BY <2>7
<1>2. QED
  BY <1>1 DEF ScanInv

\* Directories are kept and lists of stale ones made only where MarkedInv says.
LEMMA MarkedStep ==
  ASSUME RootTypeOK, RootInv, MarkedInv, [RootNext]_rootVars
  PROVE  MarkedInv'
<1>. USE DEF RootTypeOK, Stages, Ended, Opening, Unopened, Retaining, Pruning, RootInv,
             MarkedInv, baseVars, Proceed
<1>1. CASE UNCHANGED rootVars
  BY <1>1 DEF rootVars
<1>2. ASSUME NEW r \in Runs, Bootstrap(r)
      PROVE  MarkedInv'
  BY <1>2 DEF Bootstrap, RefuseRun, LocateStorage, Provision, ProvisionFails
<1>3. ASSUME NEW r \in Runs, Hooks(r)
      PROVE  MarkedInv'
  BY <1>3 DEF Hooks, Configure, Doctor, EndWithoutSession, StartSession, SessionDies,
              FinishSession, Summarize, SkipSummary
<1>4. ASSUME NEW r \in Runs, Cleanup(r)
      PROVE  MarkedInv'
  <2>1. CASE Mark(r)
    BY <2>1, RunsAssumption DEF Mark
  <2>2. CASE Scan(r)
    BY <2>2 DEF Scan
  <2>3. CASE Prune(r)
    BY <2>3 DEF Prune, NextStale
  <2>4. CASE PruneFails(r)
    BY <2>4 DEF PruneFails, NextStale, Kept
  <2>5. CASE FinishPrune(r)
    BY <2>5 DEF FinishPrune
  <2>6. CASE Remove(r)
    BY <2>6 DEF Remove
  <2>7. QED
    BY <1>4, <2>1, <2>2, <2>3, <2>4, <2>5, <2>6
       DEF Cleanup, Decide, StopContainer, StopRaises, Restore, Announce, RetentionRaises
<1>5. ASSUME NEW r \in Runs, Kill(r)
      PROVE  MarkedInv'
  BY <1>5 DEF Kill
<1>6. QED
  BY <1>1, <1>2, <1>3, <1>4, <1>5 DEF RootNext

\* Whoever scans last sees every directory kept before.
LEMMA ScanStep ==
  ASSUME RootTypeOK, RootTypeOK', RootInv, MarkedInv, ScanInv, [RootNext]_rootVars
  PROVE  ScanInv'
<1>. USE DEF RootTypeOK, Stages, Ended, Scanned, Kept, baseVars, Proceed
<1>1. CASE UNCHANGED rootVars
  BY <1>1, ScanStays DEF rootVars
<1>2. ASSUME NEW r \in Runs, Bootstrap(r)
      PROVE  ScanInv'
  BY <1>2, ScanStays DEF Bootstrap, RefuseRun, LocateStorage, Provision, ProvisionFails
<1>3. ASSUME NEW r \in Runs, Hooks(r)
      PROVE  ScanInv'
  BY <1>3, ScanStays
     DEF Hooks, Configure, Doctor, EndWithoutSession, StartSession, SessionDies,
         FinishSession, Summarize, SkipSummary
<1>4. ASSUME NEW r \in Runs, Cleanup(r)
      PROVE  ScanInv'
  <2>1. CASE Mark(r)
    BY <2>1, ScanStays DEF Mark
  <2>2. CASE Scan(r)
    <3>1. ASSUME NEW T \in SUBSET Scanned', T # {}
          PROVE  \E q \in T : Cardinality(T \ stale'[q]) <= Keep
      <4>1. CASE r \in T
        <5>. DEFINE Recent == {d \in Kept : ~PastKeep(d)}
        <5>1. T \subseteq Kept /\ stale'[r] = {d \in Kept : PastKeep(d)}
          BY <2>2 DEF Scan
        <5>2. T \ stale'[r] \subseteq Recent /\ Recent \subseteq Runs
          BY <5>1
        <5>3. IsFiniteSet(Recent)
          BY <5>2, RunsAssumption, FS_Subset
        <5>4. Cardinality(T \ stale'[r]) <= Cardinality(Recent)
          BY <5>2, <5>3, FS_Subset
        <5>5. Cardinality(T \ stale'[r]) \in Nat /\ Cardinality(Recent) \in Nat
          BY <5>2, <5>3, FS_Subset, FS_CardinalityType
        <5>6. Cardinality(Recent) <= Keep
          BY RecentAreFew
        <5>. HIDE DEF Recent
        <5>7. Cardinality(T \ stale'[r]) <= Keep
          BY <5>4, <5>5, <5>6, RunsAssumption
        <5>8. QED
          BY <4>1, <5>7
      <4>2. CASE r \notin T
        <5>1. T \subseteq Scanned
          BY <2>2, <3>1, <4>2 DEF Scan
        <5>2. PICK q \in T : Cardinality(T \ stale[q]) <= Keep
          BY <3>1, <5>1 DEF ScanInv
        <5>3. stale'[q] = stale[q]
          BY <2>2, <4>2, <5>1 DEF Scan
        <5>4. QED
          BY <5>2, <5>3
      <4>3. QED
        BY <4>1, <4>2
    <3>2. QED
      BY <3>1 DEF ScanInv
  <2>3. CASE Prune(r)
    <3>1. PICK d \in Runs :
            /\ stale' = [stale EXCEPT ![r] = @ \ {d}]
            /\ root' = [root EXCEPT ![d] = IF @ \in {"live", "kept"} THEN "pruned" ELSE @]
      BY <2>3 DEF Prune, NextStale
    <3>2. stage' = stage /\ Scanned' \subseteq Scanned /\ d \notin Scanned'
      BY <2>3, <3>1 DEF Prune
    <3>3. \A q \in Runs : stale[q] \ stale'[q] \subseteq {d}
      BY <3>1
    <3>4. QED
      BY <3>2, <3>3, ScanStays
  <2>4. CASE PruneFails(r)
    <3>1. PICK d \in Kept, left \in {"kept", "debris"} :
            /\ stale' = [stale EXCEPT ![r] = @ \ {d}]
            /\ root' = [root EXCEPT ![d] = left]
      BY <2>4 DEF PruneFails, NextStale
    <3>2. stage' = [stage EXCEPT ![r] = "prune.warned"]
      BY <2>4 DEF PruneFails
    <3>3. Scanned' \subseteq Scanned \ {r}
      BY <3>1, <3>2
    <3>4. \A q \in Runs \ {r} : stale'[q] = stale[q]
      BY <3>1
    <3>5. QED
      BY <3>3, <3>4, ScanStays
  <2>5. CASE FinishPrune(r)
    BY <2>5, ScanStays DEF FinishPrune
  <2>6. CASE Remove(r)
    BY <2>6, ScanStays DEF Remove
  <2>7. QED
    BY <1>4, <2>1, <2>2, <2>3, <2>4, <2>5, <2>6, ScanStays
       DEF Cleanup, Decide, StopContainer, StopRaises, Restore, Announce, RetentionRaises
<1>5. ASSUME NEW r \in Runs, Kill(r)
      PROVE  ScanInv'
  BY <1>5, ScanStays DEF Kill
<1>6. QED
  BY <1>1, <1>2, <1>3, <1>4, <1>5 DEF RootNext

\* No more than Keep directories stay beyond those of the runs that have not
\* finished pruning, were killed in it, or could not remove something.
LEMMA FewStay ==
  ASSUME RootTypeOK, MarkedInv, ScanInv
  PROVE  BoundedRetention
<1>. DEFINE Done == {r \in Kept : stage[r] = "done"}
            Exempt == {r \in Runs : stamp[r] > 0 /\ stage[r] \in
                         {"scan", "prune", "prune.warned", "warned", "killed"}}
<1>1. IsFiniteSet(Done) /\ IsFiniteSet(Exempt) /\ IsFiniteSet(Kept)
  BY RunsAssumption, FS_Subset DEF Kept
<1>2. Cardinality(Done) \in Nat /\ Cardinality(Exempt) \in Nat /\ Cardinality(Kept) \in Nat
  BY <1>1, FS_CardinalityType
<1>3. Cardinality(Done) <= Keep
  <2>1. CASE Done = {}
    BY <2>1, FS_EmptySet, RunsAssumption
  <2>2. CASE Done # {}
    <3>1. Done \in SUBSET Scanned
      BY DEF Scanned
    <3>2. PICK q \in Done : Cardinality(Done \ stale[q]) <= Keep
      BY <2>2, <3>1 DEF ScanInv
    <3>3. stale[q] = {}
      BY DEF MarkedInv, Kept
    <3>4. QED
      BY <3>2, <3>3
  <2>3. QED
    BY <2>1, <2>2
<1>4. Kept \subseteq Done \cup Exempt
  BY DEF MarkedInv, Pruning, Kept
<1>5. /\ IsFiniteSet(Done \cup Exempt)
      /\ Cardinality(Done \cup Exempt)
           = Cardinality(Done) + Cardinality(Exempt) - Cardinality(Done \cap Exempt)
  BY <1>1, FS_Union
<1>6. Cardinality(Done \cap Exempt) \in Nat /\ Cardinality(Done \cup Exempt) \in Nat
  BY <1>1, <1>5, FS_Subset, FS_CardinalityType
<1>7. Cardinality(Kept) <= Cardinality(Done \cup Exempt)
  BY <1>4, <1>5, FS_Subset
<1>8. Cardinality(Kept) <= Keep + Cardinality(Exempt)
  <2>. HIDE DEF Done, Exempt
  <2>1. QED
    BY <1>2, <1>3, <1>5, <1>6, <1>7, RunsAssumption
<1>9. QED
  BY <1>8 DEF BoundedRetention

\* Retained directories stay bounded however many runs mark and prune at once.
THEOREM Bounded == RootSpec => []BoundedRetention
<1>1. RootInit => MarkedInv /\ ScanInv
  <2>1. ASSUME RootInit
        PROVE  MarkedInv
    BY <2>1 DEF RootInit, MarkedInv
  <2>2. ASSUME RootInit
        PROVE  Scanned = {}
    BY <2>2 DEF RootInit, Scanned, Kept
  <2>3. QED
    BY <2>1, <2>2 DEF ScanInv
<1>2. RootTypeOK /\ RootTypeOK' /\ RunRootInv /\ (MarkedInv /\ ScanInv) /\ [RootNext]_rootVars
        => (MarkedInv /\ ScanInv)'
  BY MarkedStep, ScanStep DEF RunRootInv
<1>3. RootTypeOK /\ (MarkedInv /\ ScanInv) => BoundedRetention
  BY FewStay
<1>4. QED
  BY <1>1, <1>2, <1>3, Typed, Consistent, PTL DEF RootSpec

\* Concurrent prunings together keep Keep directories and the newest ones, for
\* any number of runs and any retention count.
THEOREM Retention == RootSpec => RetentionKeepsNewest
BY Bounded, Evictions, PTL DEF RetentionKeepsNewest

-----------------------------------------------------------------------------
(* Refinement *)

\* The directory of one run changes as RootLifecycle allows.
LEMMA LifecycleMove ==
  ASSUME RootTypeOK, RootTypeOK', NEW d \in Runs,
         root' = [root EXCEPT ![d] = root'[d]], announced' = announced,
         \/ root'[d] = root[d]
         \/ root[d] = "none" /\ root'[d] = "live"
         \/ root[d] = "live" /\ root'[d] = "kept" /\ announced[d]
         \/ root[d] = "live" /\ root'[d] \in {"removed", "debris"} /\ ~announced[d]
         \/ root[d] = "kept" /\ root'[d] \in {"pruned", "debris"} /\ PastKeep(d)
  PROVE  [Lifecycle!Next]_Lifecycle!lifecycleVars
<1>1. \A e \in Runs : /\ root[e] \in {"none", "live", "kept"} => Life[e] = root[e]
                      /\ root[e] \in RootStates \ {"none", "live", "kept"} => Life[e] = "gone"
  BY DEF Life, RootStates
<1>0. \A e \in Runs : e # d => root'[e] = root[e]
  BY DEF RootTypeOK
<1>2. root'[d] \in {"none", "live", "kept"} => Life' = [Life EXCEPT ![d] = root'[d]]
  BY <1>0 DEF Life
<1>3. root'[d] \in RootStates \ {"none", "live", "kept"} => Life' = [Life EXCEPT ![d] = "gone"]
  BY <1>0 DEF Life
<1>4. CASE root'[d] = root[d]
  <2>1. root' = root
    BY <1>4 DEF RootTypeOK
  <2>2. QED
    BY <2>1 DEF Lifecycle!lifecycleVars, Life
<1>5. CASE root[d] = "none" /\ root'[d] = "live"
  BY <1>1, <1>2, <1>5 DEF Lifecycle!Next, Lifecycle!Create, Lifecycle!Become
<1>6. CASE root[d] = "live" /\ root'[d] = "kept" /\ announced[d]
  BY <1>1, <1>2, <1>6 DEF Lifecycle!Next, Lifecycle!Retain, Lifecycle!Become
<1>7. CASE root[d] = "live" /\ root'[d] \in {"removed", "debris"} /\ ~announced[d]
  BY <1>1, <1>3, <1>7 DEF RootStates, Lifecycle!Next, Lifecycle!Discard, Lifecycle!Become
<1>8. CASE root[d] = "kept" /\ root'[d] \in {"pruned", "debris"} /\ PastKeep(d)
  <2>. DEFINE Others == {s \in Runs \ {d} : Life[s] = "kept"}
  <2>1. Ahead(d) \subseteq Others
    <3>1. ASSUME NEW e \in Ahead(d)
          PROVE  e \in Runs /\ e # d /\ Life[e] = "kept"
      <4>1. e \in Runs /\ root[e] = "kept" /\ Newer(e, d)
        BY DEF Ahead, Kept
      <4>2. e # d
        BY <4>1, RunsAssumption DEF Newer, RootTypeOK
      <4>3. QED
        BY <1>1, <4>1, <4>2
    <3>2. QED
      BY <3>1
  <2>2. IsFiniteSet(Others)
    BY RunsAssumption, FS_Subset
  <2>3. Cardinality(Others) >= Keep
    <3>1. Cardinality(Ahead(d)) <= Cardinality(Others)
      BY <2>1, <2>2, FS_Subset
    <3>2. QED
      BY <1>8, <2>2, <3>1, AheadFinite, FS_CardinalityType, RunsAssumption DEF PastKeep
  <2>4. Lifecycle!Become(d, "kept", "gone")
    BY <1>1, <1>3, <1>8 DEF RootStates, Lifecycle!Become
  <2>5. Lifecycle!Evict(d)
    BY <2>3, <2>4 DEF Lifecycle!Evict, Lifecycle!Cardinality, Cardinality, Lifecycle!IsFiniteSet, IsFiniteSet
  <2>6. QED
    BY <2>5 DEF Lifecycle!Next
<1>9. QED
  BY <1>4, <1>5, <1>6, <1>7, <1>8

\* Every step of every run is a step RootLifecycle allows, or none.
LEMMA LifecycleStep ==
  ASSUME RootTypeOK, RootTypeOK', RunRootInv, [RootNext]_rootVars
  PROVE  [Lifecycle!Next]_Lifecycle!lifecycleVars
<1>. USE DEF RunRootInv, RootInv, DecisionInv, Opening, Unopened, Retaining, baseVars, Proceed
<1>1. CASE UNCHANGED rootVars
  BY <1>1 DEF rootVars, Life, Lifecycle!lifecycleVars
<1>2. ASSUME NEW r \in Runs, Bootstrap(r) \/ Hooks(r) \/ Cleanup(r) \/ Kill(r)
      PROVE  [Lifecycle!Next]_Lifecycle!lifecycleVars
  <2>1. CASE LocateStorage(r)
    <3>1. /\ root[r] = "none" /\ root'[r] = "live"
          /\ root' = [root EXCEPT ![r] = root'[r]] /\ announced' = announced
      BY <2>1 DEF LocateStorage, RootTypeOK
    <3>2. QED
      BY <3>1, LifecycleMove
  <2>2. CASE Remove(r)
    <3>1. /\ root[r] = "live" /\ root'[r] \in {"removed", "debris"} /\ ~announced[r]
          /\ root' = [root EXCEPT ![r] = root'[r]] /\ announced' = announced
      BY <2>2 DEF Remove, RootTypeOK
    <3>2. QED
      BY <3>1, LifecycleMove
  <2>3. CASE Mark(r)
    <3>1. /\ root[r] = "live" /\ root'[r] = "kept" /\ announced[r]
          /\ root' = [root EXCEPT ![r] = root'[r]] /\ announced' = announced
      BY <2>3 DEF Mark, RootTypeOK
    <3>2. QED
      BY <3>1, LifecycleMove
  <2>4. CASE Prune(r) \/ PruneFails(r)
    <3>1. PICK d \in Runs : d \in stale[r] /\ root' = [root EXCEPT ![d] = root'[d]]
            /\ (root'[d] = root[d] \/ root'[d] \in {"pruned", "debris"})
      BY <2>4 DEF Prune, PruneFails, NextStale, Kept, RootTypeOK
    <3>2. root[d] \in {"kept", "pruned", "debris"} /\ (root[d] = "kept" => PastKeep(d))
      BY <3>1 DEF StaleInv
    <3>3. root'[d] = root[d] \/ root[d] = "kept"
      BY <2>4, <3>1, <3>2 DEF Prune, PruneFails, NextStale, Kept, RootTypeOK
    <3>4. announced' = announced
      BY <2>4 DEF Prune, PruneFails
    <3>5. QED
      BY <3>1, <3>2, <3>3, <3>4, LifecycleMove
  <2>5. CASE Summarize(r) \/ Announce(r)
    <3>1. root' = root /\ root[r] = "live"
      BY <2>5 DEF Summarize, Announce
    <3>2. announced' = [announced EXCEPT ![r] = TRUE] \/ announced' = announced
      BY <2>5 DEF Summarize, Announce, RootTypeOK
    <3>3. CASE announced' = announced
      BY <3>1, <3>3 DEF Life, Lifecycle!lifecycleVars
    <3>4. CASE announced' = [announced EXCEPT ![r] = TRUE]
      BY <3>1, <3>4 DEF Life, Lifecycle!lifecycleVars, Lifecycle!Next, Lifecycle!Tell
    <3>5. QED
      BY <3>2, <3>3, <3>4
  <2>6. CASE UNCHANGED <<root, announced>>
    BY <2>6 DEF Life, Lifecycle!lifecycleVars
  <2>7. QED
    BY <1>2, <2>1, <2>2, <2>3, <2>4, <2>5, <2>6
       DEF Bootstrap, RefuseRun, Provision, ProvisionFails, Hooks, Configure, Doctor,
           EndWithoutSession, StartSession, SessionDies, FinishSession, SkipSummary,
           Cleanup, Decide, StopContainer, StopRaises, Restore, RetentionRaises,
           Scan, FinishPrune, Kill
<1>3. QED
  BY <1>1, <1>2 DEF RootNext

\* Announced directories are never discarded, none is kept unannounced, and an
\* eviction leaves Keep others: for any number of runs.
THEOREM ImplementsLifecycle == RootSpec => LifecycleSpec
<1>1. RootInit => Lifecycle!Init
  BY DEF RootInit, Life, Lifecycle!Init
<1>2. RootTypeOK /\ RootTypeOK' /\ RunRootInv /\ [RootNext]_rootVars
        => [Lifecycle!Next]_Lifecycle!lifecycleVars
  BY LifecycleStep
<1>3. QED
  BY <1>1, <1>2, Typed, Consistent, PTL DEF RootSpec, LifecycleSpec, Lifecycle!Spec

-----------------------------------------------------------------------------
(***************************************************************************)
(* StorageLadder                                                           *)
(*                                                                         *)
(* Network storage is the last resort, for every set of directories and    *)
(* whatever each of them is like.                                          *)
(***************************************************************************)

Remembered(d) == \E i \in 1..Len(fallbacks) : fallbacks[i] = d

\* A base that takes a directory was passed over for its network storage only, and is
\* remembered as a fallback.
PassedOver(d) == d \in Dirs /\ Creatable(d) => Network(d) /\ Remembered(d)

MemoryPassed ==
  Creatable(Shm) /\ InMemory(Shm) /\ system[Shm].roomy => Network(Shm)

\* What is settled when the search has come down to a rung.
LadderInv ==
  /\ rung # "done" => location = None
  /\ rung \in {"candidate", "shm", "system", "fallback"} => request.explicit = None
  /\ rung = "candidate" => request.candidate # None
  /\ rung \notin {"fallback", "done"} => \A d \in seen : PassedOver(d)
  /\ rung \in {"shm", "system", "fallback"} => PassedOver(request.candidate)
  /\ rung \in {"system", "fallback"} => MemoryPassed
  /\ rung = "fallback" => PassedOver(Temp)

LEMMA VerifiedIsLocal ==
  ASSUME LadderTypeOK, NEW d \in Dirs
  PROVE  Verified(d) <=> ~Network(d)
BY DEF LadderTypeOK, Directory, FileSystems, Verified, Network

\* Every state the search goes through is well formed.
LEMMA TypeInit ==
  ASSUME LadderAssumption, LadderInit
  PROVE  LadderTypeOK
<1>1. system \in [Dirs -> Directory] BY DEF LadderAssumption, LadderInit
<1>2. warned \in BOOLEAN BY DEF LadderInit
<1>3. fallbacks \in Seq(Dirs) /\ seen \subseteq Dirs BY DEF LadderInit
<1>. QED BY <1>1, <1>2, <1>3 DEF LadderInit, LadderTypeOK

LEMMA LocateTyped ==
  ASSUME LadderAssumption, LadderTypeOK, NEW d \in Dirs, NEW reason \in Reasons,
         Locate(d, reason), warned' \in BOOLEAN
  PROVE  LadderTypeOK' /\ location' # None /\ location'.dir = d
<1>. DEFINE n == Network(d)
<1>1. n \in BOOLEAN BY DEF Network
<1>2. location' = [dir |-> d, reason |-> reason, network |-> n] BY DEF Locate
<1>. HIDE DEF n
<1>3. location' # None BY <1>1, <1>2 DEF LadderAssumption
<1>4. location' \in [dir : Dirs, reason : Reasons, network : BOOLEAN] BY <1>1, <1>2
<1>. QED BY <1>2, <1>3, <1>4 DEF Locate, LadderTypeOK

LEMMA TryLocalTyped ==
  ASSUME LadderAssumption, LadderTypeOK, NEW d \in Dirs, NEW reason \in Reasons,
         NEW next \in {"shm", "fallback"}, TryLocal(d, reason, next)
  PROVE  LadderTypeOK'
<1>1. CASE d \in seen \/ ~Writable(d) BY <1>1 DEF TryLocal, Descend, LadderTypeOK
<1>2. CASE d \notin seen /\ Writable(d) /\ Network(d)
  BY <1>2 DEF TryLocal, Descend, LadderTypeOK
<1>3. CASE d \notin seen /\ Writable(d) /\ ~Network(d)
  <2>1. CASE Creatable(d)
    <3>1. Locate(d, reason) /\ warned' = warned BY <1>3, <2>1 DEF TryLocal
    <3>. QED BY <3>1, LocateTyped DEF LadderTypeOK
  <2>2. CASE ~Creatable(d) BY <1>3, <2>2 DEF TryLocal, Descend, LadderTypeOK
  <2>. QED BY <2>1, <2>2
<1>. QED BY <1>1, <1>2, <1>3

LEMMA TypeNext ==
  ASSUME LadderAssumption, LadderTypeOK, LadderInv, [LadderNext]_ladderVars
  PROVE  LadderTypeOK'
<1>0. request \in [explicit : Dirs \cup {None}, candidate : Dirs \cup {None}, allow : BOOLEAN]
  BY DEF LadderAssumption, LadderTypeOK
<1>1. CASE Explicit
  <2>1. request.explicit \in Dirs BY <1>0, <1>1 DEF Explicit
  <2>. QED BY <1>1, <2>1, LocateTyped DEF Explicit, Reasons, LadderTypeOK
<1>2. CASE RefuseExplicit BY <1>2 DEF RefuseExplicit, Descend, LadderTypeOK
<1>3. CASE NoExplicit BY <1>3 DEF NoExplicit, Descend, LadderTypeOK
<1>4. CASE TryCandidate
  <2>1. request.candidate \in Dirs BY <1>0, <1>4 DEF TryCandidate, LadderInv
  <2>. QED BY <1>4, <2>1, TryLocalTyped DEF TryCandidate, Reasons
<1>5. CASE TrySharedMemory
  <2>1. Shm \in Dirs BY DEF LadderAssumption
  <2>2. CASE Locate(Shm, "shared memory") /\ warned' = warned
    BY <2>1, <2>2, LocateTyped DEF Reasons, LadderTypeOK
  <2>3. CASE UNCHANGED <<seen, fallbacks>> /\ Descend("system")
    BY <2>3 DEF Descend, LadderTypeOK
  <2>. QED BY <1>5, <2>2, <2>3 DEF TrySharedMemory
<1>6. CASE TrySystemTemp
  <2>1. Temp \in Dirs BY DEF LadderAssumption
  <2>. QED BY <1>6, <2>1, TryLocalTyped DEF TrySystemTemp, Reasons
<1>7. CASE TryFallback
  <2>. fallbacks # <<>> /\ fallbacks \in Seq(Dirs) BY <1>7 DEF TryFallback, LadderTypeOK
  <2>1. Head(fallbacks) \in Dirs /\ Tail(fallbacks) \in Seq(Dirs) OBVIOUS
  <2>2. CASE Locate(Head(fallbacks), "writable fallback")
    BY <1>7, <2>1, <2>2, LocateTyped DEF TryFallback, Reasons
  <2>3. CASE fallbacks' = Tail(fallbacks) /\ UNCHANGED <<system, request, rung, seen, location>>
    BY <1>7, <2>1, <2>3 DEF TryFallback, LadderTypeOK
  <2>. QED BY <1>7, <2>2, <2>3 DEF TryFallback
<1>8. CASE NoStorage BY <1>8 DEF NoStorage, Descend, LadderTypeOK
<1>9. CASE UNCHANGED ladderVars BY <1>9 DEF ladderVars, LadderTypeOK
<1>. QED BY <1>1, <1>2, <1>3, <1>4, <1>5, <1>6, <1>7, <1>8, <1>9 DEF LadderNext

-----------------------------------------------------------------------------
\* What one of the two bases that may be remembered does to the search.
LEMMA TryLocalPasses ==
  ASSUME LadderAssumption, LadderTypeOK, NEW d \in Dirs, NEW reason \in Reasons,
         NEW next \in {"shm", "fallback"}, TryLocal(d, reason, next),
         \A e \in seen : PassedOver(e)
  PROVE  \/ rung' = "done" /\ Locate(d, reason) /\ ~Network(d) /\ warned' = warned
         \/ /\ rung' = next /\ UNCHANGED <<system, request, location>>
            /\ \A e \in Dirs \cup {None} : PassedOver(e) => PassedOver(e)'
            /\ \A e \in seen' : PassedOver(e)'
            /\ PassedOver(d)'
<1>0. fallbacks \in Seq(Dirs) /\ seen \subseteq Dirs BY DEF LadderTypeOK
<1>1. CASE d \in seen \/ ~Writable(d)
  <2>1. rung' = next /\ UNCHANGED <<system, request, location, seen, fallbacks>>
    BY <1>1 DEF TryLocal, Descend
  <2>2. PassedOver(d) BY <1>1 DEF PassedOver, Creatable, Writable
  <2>. QED BY <2>1, <2>2 DEF PassedOver, Creatable, Network, Remembered
<1>2. CASE d \notin seen /\ Writable(d) /\ Network(d)
  <2>1. /\ rung' = next /\ UNCHANGED <<system, request, location>>
        /\ seen' = seen \cup {d} /\ fallbacks' = Append(fallbacks, d)
    BY <1>2 DEF TryLocal, Descend
  <2>2. /\ Len(fallbacks') = Len(fallbacks) + 1 /\ fallbacks'[Len(fallbacks')] = d
        /\ \A i \in 1..Len(fallbacks) : fallbacks'[i] = fallbacks[i]
        /\ Len(fallbacks) \in Nat
    BY <1>0, <2>1
  <2>3. Remembered(d)'
    <3>1. Len(fallbacks') \in 1..Len(fallbacks') BY <2>2
    <3>. QED BY <2>2, <3>1 DEF Remembered
  <2>4. ASSUME NEW e, Remembered(e) PROVE Remembered(e)'
    <3>1. PICK i \in 1..Len(fallbacks) : fallbacks[i] = e BY <2>4 DEF Remembered
    <3>2. i \in 1..Len(fallbacks') /\ fallbacks'[i] = e BY <2>2, <3>1
    <3>. QED BY <3>2 DEF Remembered
  <2>5. ASSUME NEW e, PassedOver(e) PROVE PassedOver(e)'
    BY <2>1, <2>4, <2>5 DEF PassedOver, Creatable, Network
  <2>6. PassedOver(d)' BY <1>2, <2>1, <2>3 DEF PassedOver, Creatable, Network
  <2>. QED BY <2>1, <2>5, <2>6
<1>3. CASE d \notin seen /\ Writable(d) /\ ~Network(d) /\ Creatable(d)
  BY <1>3 DEF TryLocal, Locate
<1>4. CASE d \notin seen /\ Writable(d) /\ ~Network(d) /\ ~Creatable(d)
  <2>1. /\ rung' = next /\ UNCHANGED <<system, request, location, fallbacks>>
        /\ seen' = seen \cup {d}
    BY <1>4 DEF TryLocal, Descend
  <2>2. PassedOver(d) BY <1>4 DEF PassedOver
  <2>. QED BY <2>1, <2>2 DEF PassedOver, Creatable, Network, Remembered
<1>. QED BY <1>1, <1>2, <1>3, <1>4

\* Where the search ends with a base it verified.
LEMMA VerifiedEnd ==
  ASSUME LadderAssumption, LadderTypeOK, NEW d \in Dirs, NEW reason \in Reasons,
         Locate(d, reason), warned' \in BOOLEAN, ~Network(d), request.explicit = None
  PROVE  LadderInv' /\ NetworkIsLastResort'
<1>1. LadderTypeOK' /\ location' # None /\ location'.dir = d BY LocateTyped
<1>2. rung' = "done" /\ UNCHANGED <<system, request>> BY DEF Locate
<1>3. Verified(d) BY VerifiedIsLocal
<1>4. Verified(d)' BY <1>2, <1>3 DEF Verified
<1>. QED BY <1>1, <1>2, <1>4 DEF LadderInv, NetworkIsLastResort

\* No usable base was verified once all were passed over.
LEMMA NoneVerified ==
  ASSUME LadderAssumption, LadderTypeOK, LadderInv, rung = "fallback"
  PROVE  \A d \in Dirs : Usable(d) => ~Verified(d)
<1>. SUFFICES ASSUME NEW d \in Dirs, Usable(d) PROVE Network(d) BY VerifiedIsLocal
<1>. QED BY DEF Usable, LadderInv, PassedOver, MemoryPassed

LEMMA NextInv ==
  ASSUME LadderAssumption, LadderTypeOK, LadderInv, NetworkIsLastResort, [LadderNext]_ladderVars
  PROVE  LadderInv' /\ NetworkIsLastResort'
<1>0. request \in [explicit : Dirs \cup {None}, candidate : Dirs \cup {None}, allow : BOOLEAN]
  BY DEF LadderAssumption, LadderTypeOK
<1>1. CASE Explicit
  <2>. DEFINE d == request.explicit
  <2>1. d \in Dirs /\ d # None BY <1>0, <1>1 DEF Explicit
  <2>2. Locate(d, "explicit") /\ warned' = warned /\ (~Network(d) \/ request.allow)
    BY <1>1 DEF Explicit
  <2>3. location' # None /\ location'.dir = d
    BY <2>1, <2>2, LocateTyped DEF Reasons, LadderTypeOK
  <2>4. rung' = "done" /\ UNCHANGED <<system, request>> BY <2>2 DEF Locate
  <2>5. Verified(d)' \/ request.allow
    BY <2>1, <2>2, <2>4, VerifiedIsLocal DEF Verified
  <2>. QED BY <2>1, <2>3, <2>4, <2>5 DEF LadderInv, NetworkIsLastResort, Verified
<1>2. CASE RefuseExplicit
  BY <1>2 DEF RefuseExplicit, Descend, LadderInv, NetworkIsLastResort
<1>3. CASE NoExplicit
  <2>1. /\ rung' = (IF request.candidate = None THEN "shm" ELSE "candidate")
        /\ UNCHANGED <<system, request, location, seen, fallbacks>>
        /\ request.explicit = None /\ location = None /\ \A d \in seen : PassedOver(d)
    BY <1>3 DEF NoExplicit, Descend, LadderInv
  <2>2. \A d \in seen' : PassedOver(d)'
    BY <2>1 DEF PassedOver, Creatable, Network, Remembered
  <2>3. rung' = "shm" => PassedOver(request.candidate)'
    BY <2>1 DEF PassedOver, LadderAssumption
  <2>. QED BY <2>1, <2>2, <2>3 DEF LadderInv, NetworkIsLastResort
<1>4. CASE TryCandidate
  <2>1. PICK d \in Dirs : d = request.candidate BY <1>0, <1>4 DEF TryCandidate, LadderInv
  <2>2. /\ TryLocal(d, "caller temp", "shm") /\ rung = "candidate"
        /\ request.explicit = None /\ location = None /\ \A e \in seen : PassedOver(e)
    BY <1>4, <2>1 DEF TryCandidate, LadderInv
  <2>3. CASE Locate(d, "caller temp") /\ ~Network(d) /\ warned' = warned
    BY <2>2, <2>3, VerifiedEnd DEF Reasons, LadderTypeOK
  <2>4. CASE /\ rung' = "shm" /\ UNCHANGED <<system, request, location>>
             /\ \A e \in seen' : PassedOver(e)'
             /\ PassedOver(d)'
    <3>1. PassedOver(request.candidate)'
      BY <2>1, <2>4 DEF PassedOver, Creatable, Network, Remembered
    <3>. QED BY <2>2, <2>4, <3>1 DEF LadderInv, NetworkIsLastResort
  <2>5. "caller temp" \in Reasons BY DEF Reasons
  <2>. QED BY <2>2, <2>3, <2>4, <2>5, TryLocalPasses
<1>5. CASE TrySharedMemory
  <2>1. /\ rung = "shm" /\ request.explicit = None /\ location = None
        /\ (\A e \in seen : PassedOver(e)) /\ PassedOver(request.candidate)
    BY <1>5 DEF TrySharedMemory, LadderInv
  <2>2. CASE Creatable(Shm) /\ ~Network(Shm) /\ InMemory(Shm) /\ system[Shm].roomy
    <3>1. Shm \in Dirs /\ Locate(Shm, "shared memory") /\ warned' = warned
      BY <1>5, <2>2 DEF TrySharedMemory, LadderAssumption
    <3>. QED BY <2>1, <2>2, <3>1, VerifiedEnd DEF Reasons, LadderTypeOK
  <2>3. CASE ~(Creatable(Shm) /\ ~Network(Shm) /\ InMemory(Shm) /\ system[Shm].roomy)
    <3>1. rung' = "system" /\ UNCHANGED <<system, request, location, seen, fallbacks>>
      BY <1>5, <2>3 DEF TrySharedMemory, Descend
    <3>2. MemoryPassed BY <2>3 DEF MemoryPassed
    <3>3. MemoryPassed' BY <3>1, <3>2 DEF MemoryPassed, Creatable, InMemory, Network
    <3>4. (\A e \in seen' : PassedOver(e)') /\ PassedOver(request.candidate)'
      BY <2>1, <3>1 DEF PassedOver, Creatable, Network, Remembered
    <3>. QED BY <2>1, <3>1, <3>3, <3>4 DEF LadderInv, NetworkIsLastResort
  <2>. QED BY <2>2, <2>3
<1>6. CASE TrySystemTemp
  <2>1. /\ rung = "system" /\ request.explicit = None /\ location = None
        /\ (\A e \in seen : PassedOver(e)) /\ PassedOver(request.candidate) /\ MemoryPassed
    BY <1>6 DEF TrySystemTemp, LadderInv
  <2>2. Temp \in Dirs /\ TryLocal(Temp, "system temp", "fallback")
    BY <1>6 DEF TrySystemTemp, LadderAssumption
  <2>3. CASE Locate(Temp, "system temp") /\ ~Network(Temp) /\ warned' = warned
    BY <2>1, <2>2, <2>3, VerifiedEnd DEF Reasons, LadderTypeOK
  <2>4. CASE /\ rung' = "fallback" /\ UNCHANGED <<system, request, location>>
             /\ \A e \in Dirs \cup {None} : PassedOver(e) => PassedOver(e)'
             /\ PassedOver(Temp)'
    <3>1. PICK c \in Dirs \cup {None} : c = request.candidate BY <1>0
    <3>2. PassedOver(c)' BY <2>1, <2>4, <3>1
    <3>3. PassedOver(request.candidate)'
      BY <2>4, <3>1, <3>2 DEF PassedOver, Creatable, Network, Remembered
    <3>4. MemoryPassed' BY <2>1, <2>4 DEF MemoryPassed, Creatable, InMemory, Network
    <3>. QED BY <2>1, <2>4, <3>3, <3>4 DEF LadderInv, NetworkIsLastResort
  <2>5. "system temp" \in Reasons BY DEF Reasons
  <2>. QED BY <2>1, <2>2, <2>3, <2>4, <2>5, TryLocalPasses
<1>7. CASE TryFallback
  <2>1. /\ rung = "fallback" /\ request.explicit = None /\ location = None /\ warned'
        /\ PassedOver(request.candidate) /\ PassedOver(Temp) /\ MemoryPassed
    BY <1>7 DEF TryFallback, LadderInv
  <2>2. fallbacks # <<>> /\ fallbacks \in Seq(Dirs) BY <1>7 DEF TryFallback, LadderTypeOK
  <2>3. PICK d \in Dirs : d = Head(fallbacks) BY <2>2
  <2>4. CASE Creatable(d)
    <3>1. Locate(d, "writable fallback") BY <1>7, <2>3, <2>4 DEF TryFallback
    <3>2. location' # None /\ location'.dir = d
      BY <1>7, <3>1, LocateTyped DEF Reasons, TryFallback
    <3>3. rung' = "done" /\ UNCHANGED <<system, request>> BY <3>1 DEF Locate
    <3>4. \A e \in Dirs : Usable(e) => ~Verified(e) BY <2>1, NoneVerified
    <3>5. (\A e \in Dirs : Usable(e) => ~Verified(e))'
      BY <3>3, <3>4 DEF Usable, Verified, Creatable, InMemory
    <3>. QED BY <2>1, <3>2, <3>3, <3>5 DEF LadderInv, NetworkIsLastResort
  <2>5. CASE ~Creatable(d)
    <3>1. fallbacks' = Tail(fallbacks) /\ UNCHANGED <<system, request, rung, seen, location>>
      BY <1>7, <2>3, <2>5 DEF TryFallback
    <3>2. ASSUME NEW e, PassedOver(e) PROVE PassedOver(e)'
      <4>. SUFFICES ASSUME e \in Dirs, Creatable(e)' PROVE Network(e)' /\ Remembered(e)'
        BY DEF PassedOver
      <4>1. Creatable(e) /\ Network(e) /\ Remembered(e)
        BY <3>1, <3>2 DEF PassedOver, Creatable
      <4>2. PICK i \in 1..Len(fallbacks) : fallbacks[i] = e BY <4>1 DEF Remembered
      <4>3. i # 1 BY <2>2, <2>3, <2>5, <4>1, <4>2
      <4>4. i - 1 \in 1..Len(fallbacks') /\ fallbacks'[i - 1] = e BY <2>2, <3>1, <4>2, <4>3
      <4>. QED BY <3>1, <4>1, <4>4 DEF Remembered, Network
    <3>3. PICK c \in Dirs \cup {None} : c = request.candidate BY <1>0
    <3>4. PassedOver(request.candidate)'
      BY <2>1, <3>1, <3>2, <3>3 DEF PassedOver, Creatable, Network, Remembered
    <3>5. PassedOver(Temp)' BY <2>1, <3>2
    <3>6. MemoryPassed' BY <2>1, <3>1 DEF MemoryPassed, Creatable, InMemory, Network
    <3>. QED BY <2>1, <3>1, <3>4, <3>5, <3>6 DEF LadderInv, NetworkIsLastResort
  <2>. QED BY <2>4, <2>5
<1>8. CASE NoStorage
  <2>1. /\ rung = "fallback" /\ rung' = "done" /\ request.explicit = None /\ location = None
        /\ PassedOver(request.candidate) /\ PassedOver(Temp) /\ fallbacks = <<>>
        /\ UNCHANGED <<system, request, location>>
    BY <1>8 DEF NoStorage, Descend, LadderInv
  <2>2. \A d \in Dirs \ {Shm} : ~Usable(d) BY <2>1 DEF PassedOver, Remembered, Usable
  <2>3. (\A d \in Dirs \ {Shm} : ~Usable(d))' BY <2>1, <2>2 DEF Usable, Creatable
  <2>. QED BY <2>1, <2>3 DEF LadderInv, NetworkIsLastResort
<1>9. CASE UNCHANGED ladderVars
  BY <1>9 DEF ladderVars, LadderInv, NetworkIsLastResort, PassedOver, MemoryPassed, Creatable,
              Network, InMemory, Remembered, Usable, Verified
<1>. QED BY <1>1, <1>2, <1>3, <1>4, <1>5, <1>6, <1>7, <1>8, <1>9 DEF LadderNext

\* Every state of a search is well formed and remembers what it passed over
\* (locate_storage, try_local).
THEOREM Searches ==
  ASSUME LadderAssumption
  PROVE  LadderSpec => [](LadderTypeOK /\ LadderInv /\ NetworkIsLastResort)
<1>1. LadderInit => LadderTypeOK /\ LadderInv /\ NetworkIsLastResort
  <2>. SUFFICES ASSUME LadderInit PROVE LadderTypeOK /\ LadderInv /\ NetworkIsLastResort OBVIOUS
  <2>1. LadderTypeOK BY TypeInit
  <2>. QED BY <2>1 DEF LadderInit, LadderInv, NetworkIsLastResort
<1>2. LadderTypeOK /\ LadderInv /\ NetworkIsLastResort /\ [LadderNext]_ladderVars
        => (LadderTypeOK /\ LadderInv /\ NetworkIsLastResort)'
  BY TypeNext, NextInv
<1>. QED BY <1>1, <1>2, PTL DEF LadderSpec

\* Storage that is not known to be local is used with the user's consent only or,
\* announced, where no local base takes a directory, and a run is refused only when no
\* base does (locate_storage).
THEOREM LastResort ==
  ASSUME LadderAssumption
  PROVE  LadderSpec => []NetworkIsLastResort
BY Searches, PTL
=============================================================================
