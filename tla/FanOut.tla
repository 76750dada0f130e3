------------------------------- MODULE FanOut -------------------------------
(***************************************************************************)
(* The fan-out of a Dag corpus parse over shard processes                  *)
(* (parallel_dagbag.py), as the elected builder of the corpus runs it      *)
(* (_build_dag_corpus in dagcorpus.py): shards are spawned, awaited in     *)
(* order under one deadline and merged; whatever goes wrong, the rest is   *)
(* killed and the builder parses the folder by itself.                     *)
(*                                                                         *)
(* A file defines a set of Dags, or cannot be imported.  Of a parsed Dag   *)
(* only the file it was taken from matters here, of an import error only   *)
(* the file it is filed under.                                             *)
(***************************************************************************)
EXTENDS Naturals, Sequences, SequencesExt

CONSTANTS
  Files,
  DagIds,
  Discovered,   \* the files in the order Airflow's walk finds them
  Sorted,       \* the same, sorted
  Workers       \* resolved_worker_count

ASSUME FanOutAssumption ==
  /\ Discovered \in Seq(Files) /\ Sorted \in Seq(Files)
  /\ ToSet(Discovered) = Files /\ ToSet(Sorted) = Files
  /\ \A i, j \in DOMAIN Sorted : Sorted[i] = Sorted[j] => i = j
  /\ Workers \in 1..Len(Sorted)
  /\ "none" \notin Files /\ "unimportable" \notin DagIds

VARIABLES
  content,    \* the Dags each file defines, or Unimportable
  pc,
  next,       \* the shard to be spawned, awaited or merged
  expired,    \* the deadline has passed
  child,      \* the process of each shard
  reaped,     \* shards whose process was waited for
  parsed      \* what the builder has found so far

launchVars == <<pc, next>>
childVars == <<child, reaped>>
vars == <<content, launchVars, expired, childVars, parsed>>

Shards == 1..Workers
Unimportable == {"unimportable"}
NoFile == "none"

\* What a parse yields: the file each Dag is taken from, and the files errors
\* are filed under.
Corpora == [dags : [DagIds -> Files \cup {NoFile}], errors : SUBSET Files]
EmptyCorpus == [dags |-> [d \in DagIds |-> NoFile], errors |-> {}]

TypeOK ==
  /\ content \in [Files -> {Unimportable} \cup SUBSET DagIds]
  /\ pc \in {"spawn", "await", "merge", "fallback", "done", "interrupted"}
  /\ next \in 1..Workers + 1
  /\ expired \in BOOLEAN
  /\ child \in [Shards -> {"none", "running", "ok", "failed", "killed"}]
  /\ reaped \subseteq Shards
  /\ parsed \in Corpora

-----------------------------------------------------------------------------
(* Parsing and merging *)

\* A Dag is taken from the first file that defines it; a file that cannot be imported,
\* or loses a Dag to an earlier one, gets an error (DagBag.collect_dags, DagBag.bag_dag).
TakenFrom(d, listing, places) ==
  LET definers == {k \in places : d \in content[listing[k]]}
  IN  IF definers = {} THEN NoFile
      ELSE listing[CHOOSE k \in definers : \A j \in definers : k <= j]

Erroneous(f, winners) == content[f] = Unimportable \/ \E d \in content[f] : winners[d] # f

Parse(listing, places) ==
  LET winners == [d \in DagIds |-> TakenFrom(d, listing, places)]
  IN  [dags |-> winners, errors |-> {f \in {listing[k] : k \in places} : Erroneous(f, winners)}]

\* shard_file_paths: round robin over the sorted files.
ShardPlaces(s) == {k \in DOMAIN Sorted : s = 1 + ((k - 1) % Workers)}

\* Mutant: the entry of a later shard replaces the earlier one.
MergeLater(merged, payload) ==
  [dags |-> [d \in DagIds |-> IF payload.dags[d] # NoFile THEN payload.dags[d] ELSE merged.dags[d]],
   errors |-> merged.errors \cup payload.errors]

\* One round of merge_shard_payloads: a Dag that an earlier shard had makes an
\* error of the file this shard took it from.
MergePayload(merged, payload) ==
  LET losing == {d \in DagIds : payload.dags[d] # NoFile /\ merged.dags[d] # NoFile} IN
  [dags |-> [d \in DagIds |-> IF merged.dags[d] # NoFile THEN merged.dags[d] ELSE payload.dags[d]],
   errors |-> merged.errors \cup payload.errors \cup {payload.dags[d] : d \in losing}]

-----------------------------------------------------------------------------
Init ==
  /\ content \in [Files -> {Unimportable} \cup SUBSET DagIds]
  /\ pc = "spawn" /\ next = 1
  /\ expired = FALSE
  /\ child = [s \in Shards |-> "none"]
  /\ reaped = {}
  /\ parsed = EmptyCorpus

Spawned == {s \in Shards : child[s] # "none"}

\* Mutant: shards that are not awaited yet are left alone.
KillAllAwaited(waited) ==
  /\ child' = [child EXCEPT ![next] = IF @ = "running" THEN "killed" ELSE @]
  /\ reaped' = reaped \cup waited \cup (Spawned \cap {next})

\* _kill_all: kill and reap whatever was not waited for; the id of a process that
\* was may belong to another one by now.
KillAll(waited) ==
  LET left == Spawned \ (reaped \cup waited) IN
  /\ child' = [s \in Shards |-> IF s \in left /\ child[s] = "running" THEN "killed" ELSE child[s]]
  /\ reaped' = reaped \cup waited \cup left

GiveUp(waited) ==
  /\ pc' = "fallback"
  /\ KillAll(waited)
  /\ UNCHANGED <<content, next, expired, parsed>>

SpawnShard ==
  /\ pc = "spawn" /\ next \in Shards
  /\ next' = next + 1
  /\ child' = [child EXCEPT ![next] = "running"]
  /\ UNCHANGED <<content, pc, expired, reaped, parsed>>

SpawnFails ==
  /\ pc = "spawn" /\ next \in Shards
  /\ GiveUp({})

AllSpawned ==
  /\ pc = "spawn" /\ next \notin Shards
  /\ pc' = "await" /\ next' = 1
  /\ UNCHANGED <<content, expired, childVars, parsed>>

\* An exited shard is taken even if the deadline has passed.
AwaitShard ==
  /\ pc = "await" /\ next \in Shards /\ child[next] = "ok"
  /\ next' = next + 1
  /\ reaped' = reaped \cup {next}
  /\ UNCHANGED <<content, pc, expired, child, parsed>>

AwaitFails ==
  /\ pc = "await" /\ next \in Shards /\ child[next] = "failed"
  /\ GiveUp({next})

OutputUnreadable ==
  /\ pc = "await" /\ next \in Shards /\ child[next] = "ok"
  /\ GiveUp({next})

\* Mutant: the deadline is looked at between shards only.
AwaitTimeoutBetween ==
  /\ pc = "await" /\ next \in Shards /\ child[next] # "running" /\ expired
  /\ GiveUp({})

AwaitTimeout ==
  /\ pc = "await" /\ next \in Shards /\ child[next] = "running" /\ expired
  /\ GiveUp({})

AllAwaited ==
  /\ pc = "await" /\ next \notin Shards
  /\ pc' = "merge" /\ next' = 1
  /\ UNCHANGED <<content, expired, childVars, parsed>>

MergeShard ==
  /\ pc = "merge"
  /\ parsed' = MergePayload(parsed, Parse(Sorted, ShardPlaces(next)))
  /\ next' = next + 1
  /\ pc' = IF next = Workers THEN "done" ELSE "merge"
  /\ UNCHANGED <<content, expired, childVars>>

\* _build_dag_corpus parses in its own process.
ParseSerially ==
  /\ pc = "fallback"
  /\ pc' = "done"
  /\ parsed' = Parse(Discovered, DOMAIN Discovered)
  /\ UNCHANGED <<content, next, expired, childVars>>

\* KeyboardInterrupt, which nothing here handles.
Interrupt ==
  /\ pc \in {"spawn", "await", "merge"}
  /\ pc' = "interrupted"
  /\ UNCHANGED <<content, next, expired, childVars, parsed>>

DeadlinePasses ==
  /\ pc \in {"spawn", "await"} /\ ~expired
  /\ expired' = TRUE
  /\ UNCHANGED <<content, launchVars, childVars, parsed>>

\* A shard process writes its payload by an atomic rename and exits, or fails.
ShardExits(s) ==
  /\ child[s] = "running"
  /\ \E status \in {"ok", "failed"} : child' = [child EXCEPT ![s] = status]
  /\ UNCHANGED <<content, launchVars, expired, reaped, parsed>>

-----------------------------------------------------------------------------
Build ==
  \/ SpawnShard \/ SpawnFails \/ AllSpawned
  \/ AwaitShard \/ AwaitFails \/ OutputUnreadable \/ AwaitTimeout
  \/ AllAwaited \/ MergeShard \/ ParseSerially

Next == Build \/ Interrupt \/ DeadlinePasses \/ \E s \in Shards : ShardExits(s)

Spec == Init /\ [][Next]_vars

\* The builder goes on and time passes; shards may hang.
FairSpec == Spec /\ WF_vars(Build) /\ WF_vars(DeadlinePasses)

-----------------------------------------------------------------------------
(* Properties *)

\* Whatever ends the fan-out but an interrupt, no shard process is left, and
\* each was waited for (fan_out_dag_bag, _kill_all).
NoShardLeft ==
  pc \in {"merge", "fallback", "done"} => \A s \in Shards :
    child[s] # "running" /\ (child[s] # "none" => s \in reaped)

\* Fanned out or not, the builder finds the same: every Dag some file defines, taken
\* from a file that defines it, and an import error for exactly the files that
\* cannot be imported or lose a Dag to another ("Both paths promise only that a
\* collision is detected and named, never a specific winner",
\* merge_shard_payloads).
FindingsAgree ==
  /\ TypeOK
  /\ pc = "done" =>
       /\ \A d \in DagIds :
            IF parsed.dags[d] = NoFile THEN \A f \in Files : d \notin content[f]
            ELSE d \in content[parsed.dags[d]]
       /\ parsed.errors = {f \in Files : Erroneous(f, parsed.dags)}

\* The builder gets a corpus, even if every shard hangs.
BuildEnds == <>(pc \in {"done", "interrupted"})
=============================================================================
