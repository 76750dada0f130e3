------------------------------ MODULE RunRoot ------------------------------
(***************************************************************************)
(* The isolated AIRFLOW_HOME of each run: provisioned by bootstrap.py,     *)
(* kept or removed by the cleanup closure _owner_state registers, under    *)
(* the retention policy of _airflow_home.py as the hooks of plugin.py      *)
(* resolve it and record the outcome of the session.                       *)
(*                                                                         *)
(* Several runs of one user share a storage base.  Each prunes the marked  *)
(* directories it finds there, while others are anywhere in their life.    *)
(* Any run may be killed at any step, and every fallible step of a cleanup *)
(* may raise.                                                              *)
(***************************************************************************)
EXTENDS Naturals, FiniteSets

CONSTANTS
  Runs,         \* the runs; their order is the directory order glob returns
  Keep          \* airflow_home_retention_count, the same for all runs

ASSUME RunsAssumption ==
  /\ Runs \subseteq Nat
  /\ IsFiniteSet(Runs)
  /\ Keep \in Nat \ {0}

VARIABLES
  stage,        \* the step each run takes next
  root,         \* each run's directory
  stamp,        \* mtime of the directory's .retained marker, 0 without one
  container,    \* the Postgres container of the run
  env,          \* "original" or "installed" process environment
  policy,       \* RETENTION_POLICY_KEY, the default when not stashed
  session,      \* pytest's session as it really went
  failed,       \* SESSION_FAILED_KEY, FALSE when not stashed
  announced,    \* RETENTION_ANNOUNCED_KEY, FALSE when not stashed
  retain,       \* the cleanup closure's decision
  stale         \* directories a run has yet to prune

resourceVars == <<container, env>>
sessionVars == <<policy, session, failed>>
baseVars == <<root, stamp, stale>>
rootVars == <<stage, baseVars, resourceVars, sessionVars, announced, retain>>

Policies == {"all", "failed", "none"}
Ended == {"refused", "done", "warned", "broken", "killed"}
Stages == Ended \cup
  {"new", "provision", "loaded", "configured", "session", "finished", "closing",
   "stop", "restore", "announce", "mark", "scan", "prune", "prune.warned", "remove"}

\* "debris" is what an rmtree that failed half way leaves, without a marker.
RootStates == {"none", "live", "kept", "removed", "pruned", "debris"}

RootTypeOK ==
  /\ stage \in [Runs -> Stages]
  /\ root \in [Runs -> RootStates]
  /\ stamp \in [Runs -> Nat]
  /\ container \in [Runs -> {"none", "running", "stopped", "leaked"}]
  /\ env \in [Runs -> {"original", "installed"}]
  /\ policy \in [Runs -> Policies]
  /\ session \in [Runs -> {"unstarted", "running", "clean", "unclean"}]
  /\ failed \in [Runs -> BOOLEAN]
  /\ announced \in [Runs -> BOOLEAN]
  /\ retain \in [Runs -> BOOLEAN]
  /\ stale \in [Runs -> SUBSET Runs]

RootInit ==
  /\ stage = [r \in Runs |-> "new"]
  /\ root = [r \in Runs |-> "none"]
  /\ stamp = [r \in Runs |-> 0]
  /\ container = [r \in Runs |-> "none"]
  /\ env = [r \in Runs |-> "original"]
  /\ policy = [r \in Runs |-> "failed"]
  /\ session = [r \in Runs |-> "unstarted"]
  /\ failed = [r \in Runs |-> FALSE]
  /\ announced = [r \in Runs |-> FALSE]
  /\ retain = [r \in Runs |-> FALSE]
  /\ stale = [r \in Runs |-> {}]

Proceed(r, from, to) ==
  /\ stage[r] = from
  /\ stage' = [stage EXCEPT ![r] = to]

\* retain_airflow_home.
Retained(r) == policy[r] = "all" \/ (policy[r] = "failed" /\ failed[r])

-----------------------------------------------------------------------------
(* Bootstrap *)

\* Malformed options, a missing backend or an unusable storage base: nothing
\* was created yet.
RefuseRun(r) ==
  /\ Proceed(r, "new", "refused")
  /\ UNCHANGED <<baseVars, resourceVars, sessionVars, announced, retain>>

\* locate_storage creates the directory, then the cleanup is registered.
LocateStorage(r) ==
  /\ Proceed(r, "new", "provision")
  /\ root' = [root EXCEPT ![r] = "live"]
  /\ UNCHANGED <<stamp, stale, resourceVars, sessionVars, announced, retain>>

\* The directory is populated, a Postgres backend is started, the environment
\* is installed.
Provision(r) ==
  /\ Proceed(r, "provision", "loaded")
  /\ env' = [env EXCEPT ![r] = "installed"]
  /\ \E backend \in {"none", "running"} :
       container' = [container EXCEPT ![r] = backend]
  /\ UNCHANGED <<baseVars, sessionVars, announced, retain>>

\* Any step of it raises; a container that failed to start was stopped already
\* or could not be.  cleanup(retain=False), or an interrupt's default decision.
ProvisionFails(r) ==
  /\ Proceed(r, "provision", "stop")
  /\ \E state \in {"none", "running", "stopped", "leaked"} :
       container' = [container EXCEPT ![r] = state]
  /\ retain' = [retain EXCEPT ![r] = FALSE]
  /\ UNCHANGED <<baseVars, env, sessionVars, announced>>

-----------------------------------------------------------------------------
(* The hooks of plugin.py *)

\* pytest_configure resolves the policy before anything else can fail.
Configure(r) ==
  /\ Proceed(r, "loaded", "configured")
  /\ \E p \in Policies : policy' = [policy EXCEPT ![r] = p]
  /\ UNCHANGED <<baseVars, resourceVars, session, failed, announced, retain>>

\* --airflow-doctor prints its report and resolves the policy, without session.
Doctor(r) ==
  /\ Proceed(r, "loaded", "closing")
  /\ \E p \in Policies : policy' = [policy EXCEPT ![r] = p]
  /\ UNCHANGED <<baseVars, resourceVars, session, failed, announced, retain>>

\* --help, a usage error, or a hook that raises before a session starts.
EndWithoutSession(r) ==
  /\ \E step \in {"loaded", "configured"} : Proceed(r, step, "closing")
  /\ UNCHANGED <<baseVars, resourceVars, sessionVars, announced, retain>>

StartSession(r) ==
  /\ Proceed(r, "configured", "session")
  /\ session' = [session EXCEPT ![r] = "running"]
  /\ failed' = [failed EXCEPT ![r] = TRUE]
  /\ UNCHANGED <<baseVars, resourceVars, policy, announced, retain>>

\* A startup hook crashes, or a sessionfinish hook before record_session_outcome.
SessionDies(r) ==
  /\ Proceed(r, "session", "closing")
  /\ UNCHANGED <<baseVars, resourceVars, sessionVars, announced, retain>>

FinishSession(r) ==
  /\ Proceed(r, "session", "finished")
  /\ \E outcome \in {"clean", "unclean"} :
       /\ session' = [session EXCEPT ![r] = outcome]
       /\ failed' = [failed EXCEPT ![r] = outcome = "unclean"]
  /\ UNCHANGED <<baseVars, resourceVars, policy, announced, retain>>

Summarize(r) ==
  /\ Proceed(r, "finished", "closing")
  /\ announced' = [announced EXCEPT ![r] = @ \/ Retained(r)]
  /\ UNCHANGED <<baseVars, resourceVars, sessionVars, retain>>

\* pytest skips the summary after an internal error, or another hook raises.
SkipSummary(r) ==
  /\ Proceed(r, "finished", "closing")
  /\ UNCHANGED <<baseVars, resourceVars, sessionVars, announced, retain>>

-----------------------------------------------------------------------------
(* The cleanup closure *)

Decide(r) ==
  /\ Proceed(r, "closing", "stop")
  /\ retain' = [retain EXCEPT ![r] = Retained(r)]
  /\ UNCHANGED <<baseVars, resourceVars, sessionVars, announced>>

StopContainer(r) ==
  /\ Proceed(r, "stop", "restore")
  /\ container' = [container EXCEPT ![r] = IF @ = "running" THEN "stopped" ELSE @]
  /\ UNCHANGED <<baseVars, env, sessionVars, announced, retain>>

\* Mutant: the rest of the closure does not survive a failing stop.
StopRaisesThrough(r) ==
  /\ container[r] = "running"
  /\ Proceed(r, "stop", "done")
  /\ container' = [container EXCEPT ![r] = "leaked"]
  /\ UNCHANGED <<baseVars, env, sessionVars, announced, retain>>

\* The handle is gone; the exception leaves once the finally block has run.
StopRaises(r) ==
  /\ container[r] = "running"
  /\ Proceed(r, "stop", "restore")
  /\ container' = [container EXCEPT ![r] = "leaked"]
  /\ UNCHANGED <<baseVars, env, sessionVars, announced, retain>>

\* Mutant: the terminal summary is trusted to have announced the directory.
RestoreUnannounced(r) ==
  /\ Proceed(r, "restore", IF retain[r] THEN "mark" ELSE "remove")
  /\ env' = [env EXCEPT ![r] = "original"]
  /\ UNCHANGED <<baseVars, container, sessionVars, announced, retain>>

Restore(r) ==
  /\ Proceed(r, "restore", IF retain[r] THEN "announce" ELSE "remove")
  /\ env' = [env EXCEPT ![r] = "original"]
  /\ UNCHANGED <<baseVars, container, sessionVars, announced, retain>>

\* rmtree with ignore_errors.
Remove(r) ==
  /\ Proceed(r, "remove", "done")
  /\ \E left \in {"removed", "debris"} : root' = [root EXCEPT ![r] = left]
  /\ UNCHANGED <<stamp, stale, resourceVars, sessionVars, announced, retain>>

Announce(r) ==
  /\ Proceed(r, "announce", "mark")
  /\ announced' = [announced EXCEPT ![r] = TRUE]
  /\ UNCHANGED <<baseVars, resourceVars, sessionVars, retain>>

\* stderr cannot be written, or the marker cannot be touched.
RetentionRaises(r) ==
  /\ \/ ~announced[r] /\ Proceed(r, "announce", "broken")
     \/ Proceed(r, "mark", "broken")
  /\ UNCHANGED <<baseVars, resourceVars, sessionVars, announced, retain>>

\* Mutant: the marker is taken for granted on every run directory.
KeptUnmarked == {r \in Runs : root[r] \in {"live", "kept"}}

Kept == {r \in Runs : root[r] = "kept"}

\* The file system's clock never runs backwards, and may not have advanced
\* since the last marker.
Mark(r) ==
  /\ Proceed(r, "mark", "scan")
  /\ root' = [root EXCEPT ![r] = "kept"]
  /\ \E t \in 1 .. Cardinality(Runs) :
       /\ \A d \in Runs : stamp[d] <= t
       /\ t = 1 \/ \E d \in Runs : stamp[d] \in {t, t - 1}
       /\ stamp' = [stamp EXCEPT ![r] = t]
  /\ UNCHANGED <<stale, resourceVars, sessionVars, announced, retain>>

\* The order of _retained_siblings: by marker time, and a stable sort.
Newer(d, e) == stamp[d] > stamp[e] \/ (stamp[d] = stamp[e] /\ d < e)

\* The directories _retained_siblings lists before d.
Ahead(d) == {e \in Kept : Newer(e, d)}

\* Mutant: it starts one directory too early.
PastKeepEarly(d) == Cardinality(Ahead(d)) >= Keep - 1

\* A directory of _retained_siblings(base)[keep:].
PastKeep(d) == Cardinality(Ahead(d)) >= Keep

Scan(r) ==
  /\ Proceed(r, "scan", "prune")
  /\ stale' = [stale EXCEPT ![r] = {d \in Kept : PastKeep(d)}]
  /\ UNCHANGED <<root, stamp, resourceVars, sessionVars, announced, retain>>

\* The next stale directory, newest first.
NextStale(r, d) ==
  /\ d \in stale[r]
  /\ \A e \in stale[r] \ {d} : Newer(d, e)
  /\ stale' = [stale EXCEPT ![r] = @ \ {d}]

\* A directory another run removed meanwhile only draws a warning.
Prune(r) ==
  /\ stage[r] \in {"prune", "prune.warned"}
  /\ \E d \in Runs :
       /\ NextStale(r, d)
       /\ root' = [root EXCEPT ![d] = IF @ \in {"live", "kept"} THEN "pruned" ELSE @]
  /\ UNCHANGED <<stage, stamp, resourceVars, sessionVars, announced, retain>>

\* The rmtree raises with or without having removed the marker.
PruneFails(r) ==
  /\ \E step \in {"prune", "prune.warned"} : Proceed(r, step, "prune.warned")
  /\ \E d \in Kept, left \in {"kept", "debris"} :
       /\ NextStale(r, d)
       /\ root' = [root EXCEPT ![d] = left]
  /\ UNCHANGED <<stamp, resourceVars, sessionVars, announced, retain>>

FinishPrune(r) ==
  /\ stale[r] = {}
  /\ Proceed(r, "prune", "done") \/ Proceed(r, "prune.warned", "warned")
  /\ UNCHANGED <<baseVars, resourceVars, sessionVars, announced, retain>>

-----------------------------------------------------------------------------
\* The controller is killed: no cleanup runs, its files stay.
Kill(r) ==
  /\ stage[r] \notin Ended \cup {"new"}
  /\ stage' = [stage EXCEPT ![r] = "killed"]
  /\ stale' = [stale EXCEPT ![r] = {}]
  /\ UNCHANGED <<root, stamp, resourceVars, sessionVars, announced, retain>>

Bootstrap(r) ==
  RefuseRun(r) \/ LocateStorage(r) \/ Provision(r) \/ ProvisionFails(r)

Hooks(r) ==
  \/ Configure(r) \/ Doctor(r) \/ EndWithoutSession(r) \/ StartSession(r)
  \/ SessionDies(r) \/ FinishSession(r) \/ Summarize(r) \/ SkipSummary(r)

Cleanup(r) ==
  \/ Decide(r) \/ StopContainer(r) \/ StopRaises(r) \/ Restore(r)
  \/ Remove(r) \/ Announce(r) \/ RetentionRaises(r) \/ Mark(r)
  \/ Scan(r) \/ Prune(r) \/ PruneFails(r) \/ FinishPrune(r)

RootNext == \E r \in Runs : Bootstrap(r) \/ Hooks(r) \/ Cleanup(r) \/ Kill(r)

RootSpec == RootInit /\ [][RootNext]_rootVars

-----------------------------------------------------------------------------
(* Properties *)

\* While a run needs its directory, nobody has removed it: neither its own
\* cleanup nor the pruning of a concurrent run (_airflow_home.py:433, "an active
\* run ... is never touched").
LiveRunHasRoot ==
  \A r \in Runs :
    stage[r] \in Stages \ (Ended \cup {"new", "scan", "prune", "prune.warned"})
      => root[r] = "live"

\* What happens to the directory is decided by how the session really went:
\* a run that never started one or finished it cleanly leaves nothing under the
\* default policy, a session that died anywhere keeps it.
OutcomeGovernsRetention ==
  \A r \in Runs :
    /\ root[r] = "removed" =>
         \/ policy[r] = "none"
         \/ policy[r] = "failed" /\ session[r] \in {"unstarted", "clean"}
    /\ root[r] \in {"kept", "pruned"} =>
         \/ policy[r] = "all"
         \/ policy[r] = "failed" /\ session[r] \in {"running", "unclean"}

\* A cleanup that came to its end left nothing half done, whatever raised on
\* the way: the environment is back, no container is left without an attempt to
\* stop it, and the directory is marked or removed.
CleanupEndsClean ==
  \A r \in Runs :
    /\ stage[r] \in {"done", "warned", "broken"} =>
         env[r] = "original" /\ container[r] # "running"
    /\ stage[r] \in {"done", "warned"} => root[r] # "live"

\* The cleanup decides by the session's outcome and carries through what it decided.
CleanupFollowsOutcome == OutcomeGovernsRetention /\ CleanupEndsClean

\* Retained directories stay bounded, but for the runs that have not finished
\* pruning, were killed in it, or could not remove something.
BoundedRetention ==
  Cardinality(Kept) <= Keep + Cardinality(
    {r \in Runs : stamp[r] > 0 /\ stage[r] \in
       {"scan", "prune", "prune.warned", "warned", "killed"}})

\* The other retained directories that are at least as recent.
AsRecent(d) == {e \in Runs \ {d} : root[e] = "kept" /\ stamp[e] >= stamp[d]}

\* What a run decided to prune stays past the Keep most recent directories,
\* although other runs mark and prune between its scan and its removals.
StaleStayPastKeep ==
  \A r \in Runs : \A d \in stale[r] \cap Kept : Cardinality(AsRecent(d)) >= Keep

\* No run ever evicts one of the Keep most recently retained directories.
EvictsOnlyPastKeep ==
  [][\A d \in Runs : root[d] = "kept" /\ root'[d] # "kept" =>
       Cardinality(AsRecent(d)) >= Keep]_rootVars

\* Concurrent prunings together keep Keep directories and the newest ones
\* (prune_retained_roots).
RetentionKeepsNewest == []BoundedRetention /\ EvictsOnlyPastKeep

\* What the user can tell of each run's directory.
Life == [r \in Runs |-> IF root[r] \in {"none", "live", "kept"} THEN root[r] ELSE "gone"]

\* Each run's directory goes through the life RootLifecycle promises.
Lifecycle == INSTANCE RootLifecycle WITH told <- announced, life <- Life

\* Announced directories are never discarded, none is kept unannounced, and an
\* eviction leaves Keep others.
LifecycleSpec == Lifecycle!Spec

-----------------------------------------------------------------------------
(* The inductive invariant *)

Unopened == {"new", "provision", "loaded"}
Opening == Unopened \cup {"configured", "session", "finished"}
Retaining == {"announce", "mark"}
Pruning == {"scan", "prune", "prune.warned"}

\* The stash entry follows pytest's session.
SessionInv ==
  \A r \in Runs :
    /\ failed[r] <=> session[r] \in {"running", "unclean"}
    /\ stage[r] \in Unopened => policy[r] = "failed"
    /\ stage[r] \in Unopened \cup {"configured"} => session[r] = "unstarted"

\* The decision stands from the moment it is taken to the step that acts on it,
\* and agrees with what a terminal summary announced before.
DecisionInv ==
  \A r \in Runs :
    /\ stage[r] \in {"stop", "restore"} => (retain[r] <=> Retained(r))
    /\ stage[r] \in Retaining => Retained(r)
    /\ stage[r] = "remove" => ~Retained(r)
    /\ announced[r] => stage[r] \notin Opening /\ Retained(r)
    /\ stage[r] = "mark" => announced[r]

\* Where each directory can be, given the step its owner is at.
RootInv ==
  \A r \in Runs :
    /\ stage[r] \in {"new", "refused"} <=> root[r] = "none"
    /\ stage[r] \in Opening \cup Retaining \cup {"closing", "stop", "restore", "remove"}
         => root[r] \in {"none", "live"}
    /\ stage[r] \in Pruning \cup {"done", "warned"} => root[r] # "live"
    /\ root[r] \in {"kept", "pruned"} => announced[r]
    /\ root[r] = "removed" => ~Retained(r)

\* What the closure has given back by the step it is at.
ReleaseInv ==
  \A r \in Runs :
    /\ stage[r] \in Retaining \cup Pruning \cup {"restore", "remove", "done", "warned", "broken"}
         => container[r] # "running"
    /\ stage[r] \in Retaining \cup Pruning \cup {"remove", "done", "warned", "broken"}
         => env[r] = "original"

\* Pruning candidates were marked, and stay past the newest Keep.
StaleInv ==
  \A r \in Runs : \A d \in stale[r] :
    /\ root[d] \in {"kept", "pruned", "debris"}
    /\ root[d] = "kept" => PastKeep(d)

\* Only directories whose owner got to its pruning are kept, and a list of stale
\* directories exists only while its owner prunes.
MarkedInv ==
  \A r \in Runs :
    /\ root[r] = "kept" =>
         stamp[r] > 0 /\ stage[r] \in Pruning \cup {"done", "warned", "killed"}
    /\ stage[r] \notin {"prune", "prune.warned"} => stale[r] = {}

\* The kept directories of the runs whose pruning has met no trouble.
Scanned == {r \in Kept : stage[r] \in {"prune", "done"}}

\* Of any such runs, one will leave no more than Keep of their directories: the
\* one that scanned last saw all of them.
ScanInv ==
  \A T \in SUBSET Scanned : T # {} => \E q \in T : Cardinality(T \ stale[q]) <= Keep

\* The decision, the directory and the stash tell one story at every step: the
\* strengthening under which the invariants above are inductive.
RunRootInv == SessionInv /\ DecisionInv /\ RootInv /\ ReleaseInv /\ StaleInv
=============================================================================
