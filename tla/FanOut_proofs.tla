--------------------------- MODULE FanOut_proofs ----------------------------
(***************************************************************************)
(* Proofs about what is found out about a Dag folder: the fanned-out parse *)
(* (FanOut), the catalog that shares one parse (SmokeCatalog), and the     *)
(* check that reads the source (VersionInflation).                         *)
(***************************************************************************)
EXTENDS FanOut, SmokeCatalog, VersionInflation, FiniteSetTheorems, WellFoundedInduction,
        TLAPS

\* A set of natural numbers that is not empty has a least element.
LEMMA LeastNat ==
  ASSUME NEW T, T \subseteq Nat, T # {}
  PROVE  \E x \in T : \A y \in T : x <= y
<1>. DEFINE R == OpToRel(<, Nat)
<1>1. IsWellFoundedOn(R, Nat)
  BY NatLessThanWellFounded
<1>2. \A x, y \in Nat : <<x, y>> \in R <=> x < y
  BY DEF OpToRel
<1>. HIDE DEF R
<1>3. \E x \in T : \A y \in T : ~(<<y, x>> \in R)
  BY <1>1, WFMin, Zenon
<1>4. \A x, y \in T : ~(<<y, x>> \in R) => x <= y
  BY <1>2
<1>. QED BY <1>3, <1>4

-----------------------------------------------------------------------------
(***************************************************************************)
(* FanOut                                                                  *)
(*                                                                         *)
(* No shard process is left, and fanned out or not the same is found, for  *)
(* every folder, order of discovery and number of shards.                  *)
(***************************************************************************)

-----------------------------------------------------------------------------
(* Parsing and merging *)

\* What was found is what the files at these places of the listing hold.
Exact(listing, places, found) ==
  /\ found \in Corpora
  /\ \A d \in DagIds : found.dags[d] = NoFile =>
       \A k \in places : d \notin content[listing[k]]
  /\ \A d \in DagIds : found.dags[d] # NoFile =>
       \E k \in places : listing[k] = found.dags[d] /\ d \in content[listing[k]]
  /\ \A f : f \in found.errors <=>
       (\E k \in places : listing[k] = f) /\ Erroneous(f, found.dags)

ContentOK == content \in [Files -> {Unimportable} \cup SUBSET DagIds]

LEMMA TakenIs ==
  ASSUME NEW listing \in Seq(Files), NEW places, places \subseteq DOMAIN listing, NEW d
  PROVE  /\ TakenFrom(d, listing, places) = NoFile =>
              \A k \in places : d \notin content[listing[k]]
         /\ TakenFrom(d, listing, places) # NoFile =>
              \E k \in places : /\ listing[k] = TakenFrom(d, listing, places)
                               /\ d \in content[listing[k]]
         /\ TakenFrom(d, listing, places) \in Files \cup {NoFile}
<1>. DEFINE definers == {k \in places : d \in content[listing[k]]}
            first == CHOOSE k \in definers : \A j \in definers : k <= j
<1>1. CASE definers = {}
  BY <1>1 DEF TakenFrom
<1>2. CASE definers # {}
  <2>1. definers \subseteq Nat
    OBVIOUS
  <2>2. first \in definers
    BY <2>1, <1>2, LeastNat
  <2>3. TakenFrom(d, listing, places) = listing[first]
    BY <1>2 DEF TakenFrom
  <2>4. listing[first] \in Files /\ listing[first] # NoFile
    BY <2>2, FanOutAssumption DEF NoFile
  <2>. QED BY <2>2, <2>3, <2>4
<1>. QED BY <1>1, <1>2

LEMMA ParseIsExact ==
  ASSUME NEW listing \in Seq(Files), NEW places, places \subseteq DOMAIN listing
  PROVE  Exact(listing, places, Parse(listing, places))
<1>. DEFINE winners == [d \in DagIds |-> TakenFrom(d, listing, places)]
            errors == {f \in {listing[k] : k \in places} : Erroneous(f, winners)}
<1>1. Parse(listing, places) = [dags |-> winners, errors |-> errors]
  BY DEF Parse
<1>2. winners \in [DagIds -> Files \cup {NoFile}]
  BY TakenIs
<1>3. errors \subseteq Files
  OBVIOUS
<1>4. \A d \in DagIds : winners[d] = TakenFrom(d, listing, places)
  OBVIOUS
<1>5. \A f : f \in errors <=> (\E k \in places : listing[k] = f) /\ Erroneous(f, winners)
  OBVIOUS
<1>. HIDE DEF winners, errors
<1>6. /\ Parse(listing, places) \in Corpora
      /\ Parse(listing, places).dags = winners /\ Parse(listing, places).errors = errors
  BY <1>1, <1>2, <1>3 DEF Corpora
<1>. QED BY <1>4, <1>5, <1>6, TakenIs DEF Exact

\* Merging what two disjoint sets of places hold gives what both hold.
LEMMA MergeIsExact ==
  ASSUME NEW listing \in Seq(Files), \A i, j \in DOMAIN listing : listing[i] = listing[j] => i = j,
         ContentOK,
         NEW P, NEW Q, P \subseteq DOMAIN listing, Q \subseteq DOMAIN listing, P \cap Q = {},
         NEW a, NEW b, Exact(listing, P, a), Exact(listing, Q, b)
  PROVE  Exact(listing, P \cup Q, MergePayload(a, b))
<1>. DEFINE m == MergePayload(a, b)
            losing == {d \in DagIds : b.dags[d] # NoFile /\ a.dags[d] # NoFile}
            winners == [d \in DagIds |-> IF a.dags[d] # NoFile THEN a.dags[d] ELSE b.dags[d]]
            errors == a.errors \cup b.errors \cup {b.dags[d] : d \in losing}
<1>1. /\ a.dags \in [DagIds -> Files \cup {NoFile}] /\ a.errors \subseteq Files
      /\ b.dags \in [DagIds -> Files \cup {NoFile}] /\ b.errors \subseteq Files
  BY DEF Exact, Corpora
<1>2. m = [dags |-> winners, errors |-> errors]
  BY DEF MergePayload
<1>3. winners \in [DagIds -> Files \cup {NoFile}] /\ errors \subseteq Files
  BY <1>1
<1>4. m \in Corpora /\ m.dags = winners /\ m.errors = errors
  BY <1>2, <1>3 DEF Corpora
<1>5. \A d \in DagIds : /\ a.dags[d] # NoFile => winners[d] = a.dags[d]
                        /\ a.dags[d] = NoFile => winners[d] = b.dags[d]
  OBVIOUS
<1>6. \A f : f \in errors <=>
        f \in a.errors \/ f \in b.errors
          \/ \E d \in DagIds : b.dags[d] = f /\ b.dags[d] # NoFile /\ a.dags[d] # NoFile
  OBVIOUS
<1>. HIDE DEF winners, errors, m
<1>7. ASSUME NEW d \in DagIds, winners[d] = NoFile, NEW k \in P \cup Q
      PROVE  d \notin content[listing[k]]
  <2>1. a.dags[d] = NoFile /\ b.dags[d] = NoFile
    BY <1>5, <1>7
  <2>. QED BY <2>1 DEF Exact
<1>8. ASSUME NEW d \in DagIds, winners[d] # NoFile
      PROVE  \E k \in P \cup Q : listing[k] = winners[d] /\ d \in content[listing[k]]
  <2>1. CASE a.dags[d] # NoFile
    BY <2>1, <1>5 DEF Exact
  <2>2. CASE a.dags[d] = NoFile
    BY <2>2, <1>5, <1>8 DEF Exact
  <2>. QED BY <2>1, <2>2
<1>9. ASSUME NEW k \in P \cup Q, NEW d \in content[listing[k]], content[listing[k]] # Unimportable
      PROVE  d \in DagIds
  BY <1>9 DEF ContentOK
<1>10. ASSUME NEW p \in P
       PROVE  listing[p] \in errors <=> Erroneous(listing[p], winners)
  <2>. DEFINE f == listing[p]
  <2>1. f \notin b.errors /\ \A d \in DagIds : b.dags[d] # NoFile => b.dags[d] # f
    BY DEF Exact
  <2>2. f \in errors <=> f \in a.errors
    BY <2>1, <1>6
  <2>3. f \in a.errors <=> Erroneous(f, a.dags)
    BY DEF Exact
  <2>4. ASSUME content[f] # Unimportable, NEW d \in content[f] PROVE winners[d] = a.dags[d]
    <3>1. d \in DagIds
      BY <2>4, <1>9
    <3>2. a.dags[d] # NoFile
      BY <3>1 DEF Exact
    <3>. QED BY <3>1, <3>2, <1>5
  <2>5. Erroneous(f, a.dags) <=> Erroneous(f, winners)
    BY <2>4 DEF Erroneous
  <2>. QED BY <2>2, <2>3, <2>5
<1>11. ASSUME NEW q \in Q
       PROVE  listing[q] \in errors <=> Erroneous(listing[q], winners)
  <2>. DEFINE f == listing[q]
  <2>1. f \notin a.errors /\ \A d \in DagIds : a.dags[d] # NoFile => a.dags[d] # f
    BY DEF Exact
  <2>2. f \in b.errors <=> Erroneous(f, b.dags)
    BY DEF Exact
  <2>3. CASE content[f] = Unimportable
    BY <2>2, <2>3, <1>6 DEF Erroneous
  <2>4. CASE content[f] # Unimportable
    <3>1. \A d \in content[f] : d \in DagIds /\ b.dags[d] # NoFile
      <4>1. \A d \in content[f] : d \in DagIds
        BY <2>4, <1>9
      <4>. QED BY <4>1 DEF Exact
    <3>2. ASSUME f \in errors PROVE \E d \in content[f] : winners[d] # f
      <4>1. CASE f \in b.errors
        <5>1. PICK d \in content[f] : b.dags[d] # f
          BY <4>1, <2>2, <2>4 DEF Erroneous
        <5>. QED BY <5>1, <3>1, <2>1, <1>5
      <4>2. CASE f \notin b.errors
        <5>1. PICK d \in DagIds : b.dags[d] = f /\ b.dags[d] # NoFile /\ a.dags[d] # NoFile
          BY <3>2, <4>2, <2>1, <1>6
        <5>2. d \in content[f]
          BY <5>1 DEF Exact
        <5>. QED BY <5>1, <5>2, <2>1, <1>5
      <4>. QED BY <4>1, <4>2
    <3>3. ASSUME NEW d \in content[f], winners[d] # f PROVE f \in errors
      <4>1. CASE b.dags[d] = f
        <5>1. a.dags[d] # NoFile
          BY <3>1, <3>3, <4>1, <1>5
        <5>. QED BY <5>1, <4>1, <3>1, <1>6
      <4>2. CASE b.dags[d] # f
        <5>1. f \in b.errors
          BY <4>2, <2>2 DEF Erroneous
        <5>. QED BY <5>1, <1>6
      <4>. QED BY <4>1, <4>2
    <3>. QED BY <2>4, <3>2, <3>3 DEF Erroneous
  <2>. QED BY <2>3, <2>4
<1>12. \A f : f \in errors => \E k \in P \cup Q : listing[k] = f
  <2>1. ASSUME NEW f, f \in errors PROVE \E k \in P \cup Q : listing[k] = f
    BY <2>1, <1>6 DEF Exact
  <2>. QED BY <2>1
<1>13. ASSUME NEW f
       PROVE  f \in errors <=> (\E k \in P \cup Q : listing[k] = f) /\ Erroneous(f, winners)
  BY <1>10, <1>11, <1>12
<1>. QED BY <1>4, <1>7, <1>8, <1>13 DEF Exact, m

-----------------------------------------------------------------------------
(* The invariant *)

MergedPlaces(n) == {k \in DOMAIN Sorted : 1 + ((k - 1) % Workers) < n}

\* The shards spawned are those before the next one; while the builder waits it has
\* reaped those before the next one, which had all exited; while it merges, what it
\* has is exactly what the shards before the next one hold.
BuildInv ==
  /\ TypeOK
  /\ pc = "spawn" => /\ reaped = {}
                     /\ \A s \in Shards : s >= next => child[s] = "none"
  /\ pc = "await" => /\ reaped = {s \in Shards : s < next}
                     /\ \A s \in Shards : s < next => child[s] = "ok"
  /\ NoShardLeft
  /\ pc \in {"spawn", "await"} => parsed = EmptyCorpus
  /\ pc = "merge" => next \in Shards /\ Exact(Sorted, MergedPlaces(next), parsed)
  /\ pc = "done" => \/ Exact(Sorted, DOMAIN Sorted, parsed)
                    \/ Exact(Discovered, DOMAIN Discovered, parsed)

LEMMA WorkersNat == Workers \in Nat \ {0}
  <1>1. Len(Sorted) \in Nat
    BY FanOutAssumption
  <1> QED
    BY <1>1, FanOutAssumption

LEMMA EmptyIsExact == Exact(Sorted, MergedPlaces(1), EmptyCorpus)
<1>1. MergedPlaces(1) = {}
  <2>1. \A k \in DOMAIN Sorted : k \in Nat \ {0}
    BY FanOutAssumption
  <2>2. \A k \in Nat \ {0} : (k - 1) % Workers \in Nat
    BY WorkersNat
  <2>. QED BY <2>1, <2>2 DEF MergedPlaces
<1>2. EmptyCorpus \in Corpora /\ EmptyCorpus.errors = {} /\ \A d \in DagIds : EmptyCorpus.dags[d] = NoFile
  BY DEF EmptyCorpus, Corpora
<1>. QED BY <1>1, <1>2 DEF Exact

LEMMA PlacesAre ==
  /\ \A n \in Shards : /\ MergedPlaces(n) \cup ShardPlaces(n) = MergedPlaces(n + 1)
                       /\ MergedPlaces(n) \cap ShardPlaces(n) = {}
                       /\ MergedPlaces(n) \subseteq DOMAIN Sorted
                       /\ ShardPlaces(n) \subseteq DOMAIN Sorted
  /\ MergedPlaces(Workers + 1) = DOMAIN Sorted
<1>1. \A k \in DOMAIN Sorted : k \in Nat \ {0}
  BY FanOutAssumption
<1>2. \A k \in Nat \ {0} : (k - 1) % Workers \in 0..Workers - 1
  BY WorkersNat
<1>. DEFINE shard(k) == 1 + ((k - 1) % Workers)
<1>3. \A k \in DOMAIN Sorted : shard(k) \in 1..Workers
  BY <1>1, <1>2, WorkersNat
<1>4. /\ \A n : MergedPlaces(n) = {k \in DOMAIN Sorted : shard(k) < n}
      /\ \A n : ShardPlaces(n) = {k \in DOMAIN Sorted : n = shard(k)}
  BY DEF MergedPlaces, ShardPlaces
<1>. HIDE DEF shard
<1>5. ASSUME NEW n \in Shards
      PROVE  /\ MergedPlaces(n) \cup ShardPlaces(n) = MergedPlaces(n + 1)
             /\ MergedPlaces(n) \cap ShardPlaces(n) = {}
             /\ MergedPlaces(n) \subseteq DOMAIN Sorted
             /\ ShardPlaces(n) \subseteq DOMAIN Sorted
  <2>1. n \in Nat
    BY WorkersNat DEF Shards
  <2>2. \A k \in DOMAIN Sorted : shard(k) < n + 1 <=> (shard(k) < n \/ n = shard(k))
    BY <1>3, <2>1, WorkersNat
  <2>3. \A k \in DOMAIN Sorted : ~(shard(k) < n /\ n = shard(k))
    BY <1>3, <2>1, WorkersNat
  <2>. QED BY <1>4, <2>2, <2>3
<1>6. \A k \in DOMAIN Sorted : shard(k) < Workers + 1
  BY <1>3, WorkersNat
<1>7. MergedPlaces(Workers + 1) = DOMAIN Sorted
  BY <1>4, <1>6
<1>. QED BY <1>5, <1>7

LEMMA FilesAre ==
  /\ Sorted \in Seq(Files) /\ Discovered \in Seq(Files)
  /\ \A f \in Files : \E k \in DOMAIN Sorted : Sorted[k] = f
  /\ \A f \in Files : \E k \in DOMAIN Discovered : Discovered[k] = f
  BY FanOutAssumption DEF ToSet

\* What is exact of the whole folder is what the property asks for.
LEMMA WholeIsRight ==
  ASSUME NEW listing \in Seq(Files), \A f \in Files : \E k \in DOMAIN listing : listing[k] = f,
         Exact(listing, DOMAIN listing, parsed)
  PROVE  /\ \A d \in DagIds :
              IF parsed.dags[d] = NoFile THEN \A f \in Files : d \notin content[f]
              ELSE d \in content[parsed.dags[d]]
         /\ parsed.errors = {f \in Files : Erroneous(f, parsed.dags)}
<1>1. \A d \in DagIds : parsed.dags[d] = NoFile => \A f \in Files : d \notin content[f]
  BY DEF Exact
<1>2. \A d \in DagIds : parsed.dags[d] # NoFile => d \in content[parsed.dags[d]]
  BY DEF Exact
<1>3. parsed.errors \subseteq Files
  BY DEF Exact, Corpora
<1>4. \A f \in Files : f \in parsed.errors <=> Erroneous(f, parsed.dags)
  BY DEF Exact
<1>. QED BY <1>1, <1>2, <1>3, <1>4

LEMMA BuildIsRight == BuildInv => FindingsAgree
<1>. SUFFICES ASSUME BuildInv, pc = "done"
              PROVE  /\ \A d \in DagIds :
                          IF parsed.dags[d] = NoFile THEN \A f \in Files : d \notin content[f]
                          ELSE d \in content[parsed.dags[d]]
                     /\ parsed.errors = {f \in Files : Erroneous(f, parsed.dags)}
  BY DEF BuildInv, FindingsAgree
<1>1. CASE Exact(Sorted, DOMAIN Sorted, parsed)
  BY <1>1, FilesAre, WholeIsRight
<1>2. CASE Exact(Discovered, DOMAIN Discovered, parsed)
  BY <1>2, FilesAre, WholeIsRight
<1>. QED BY <1>1, <1>2 DEF BuildInv

-----------------------------------------------------------------------------
(* The steps *)

LEMMA InitBuildInv == Init => BuildInv
<1>1. EmptyCorpus \in Corpora
  BY DEF EmptyCorpus, Corpora
<1>2. ASSUME Init PROVE TypeOK
  <2>1. child \in [Shards -> {"none", "running", "ok", "failed", "killed"}] /\ reaped \subseteq Shards
    BY <1>2 DEF Init
  <2>2. next \in 1..Workers + 1
    BY <1>2, WorkersNat DEF Init
  <2>3. content \in [Files -> {Unimportable} \cup SUBSET DagIds] /\ parsed \in Corpora
    BY <1>1, <1>2 DEF Init
  <2>4. pc = "spawn" /\ expired = FALSE
    BY <1>2 DEF Init
  <2>. QED BY <2>1, <2>2, <2>3, <2>4 DEF TypeOK
<1>3. ASSUME Init PROVE NoShardLeft
  BY <1>3 DEF Init, NoShardLeft
<1>4. ASSUME Init
      PROVE  /\ pc = "spawn" /\ reaped = {} /\ parsed = EmptyCorpus
             /\ \A s \in Shards : child[s] = "none"
  BY <1>4 DEF Init
<1>. QED BY <1>2, <1>3, <1>4 DEF BuildInv

\* What giving up does in either loop, whichever shards were just waited for.
LEMMA GiveUpInv ==
  ASSUME BuildInv, NEW waited, waited \subseteq Shards, GiveUp(waited),
         reaped \subseteq Shards,
         \A s \in waited : child[s] \notin {"none", "running"},
         \A s \in reaped : child[s] \notin {"none", "running"}
  PROVE  BuildInv'
<1>. USE DEF GiveUp, KillAll, Spawned
<1>1. child' \in [Shards -> {"none", "running", "ok", "failed", "killed"}]
  BY DEF BuildInv, TypeOK
<1>2. NoShardLeft'
  BY DEF BuildInv, TypeOK, NoShardLeft
<1>3. TypeOK'
  BY <1>1 DEF BuildInv, TypeOK
<1>. QED BY <1>2, <1>3 DEF BuildInv

\* Of the same files, what is exact stays exact.
LEMMA ExactStays ==
  ASSUME UNCHANGED <<content, parsed>>
  PROVE  \A listing, places :
           Exact(listing, places, parsed) => Exact(listing, places, parsed)'
  BY DEF Exact, Erroneous

LEMMA MergeShardInv == BuildInv /\ MergeShard => BuildInv'
<1>. SUFFICES ASSUME BuildInv, MergeShard PROVE BuildInv'
  OBVIOUS
<1>0. /\ pc = "merge" /\ next \in Shards /\ next' = next + 1 /\ content' = content
      /\ parsed' = MergePayload(parsed, Parse(Sorted, ShardPlaces(next)))
      /\ next = Workers => pc' = "done"
      /\ next # Workers => pc' = "merge"
      /\ UNCHANGED <<expired, child, reaped>>
  BY DEF BuildInv, MergeShard, childVars
<1>1. Exact(Sorted, ShardPlaces(next), Parse(Sorted, ShardPlaces(next)))
  BY <1>0, PlacesAre, FilesAre, ParseIsExact
<1>2. Exact(Sorted, MergedPlaces(next), parsed) /\ ContentOK
  BY <1>0 DEF BuildInv, TypeOK, ContentOK
<1>3. Exact(Sorted, MergedPlaces(next) \cup ShardPlaces(next),
            MergePayload(parsed, Parse(Sorted, ShardPlaces(next))))
  BY <1>0, <1>1, <1>2, PlacesAre, FilesAre, FanOutAssumption, MergeIsExact
<1>4. Exact(Sorted, MergedPlaces(next + 1), parsed')
  BY <1>0, <1>3, PlacesAre
<1>6. parsed' \in Corpora
  BY <1>4 DEF Exact
<1>7. TypeOK'
  BY <1>0, <1>6, WorkersNat DEF BuildInv, TypeOK, Shards
<1>8. NoShardLeft'
  BY <1>0 DEF BuildInv, NoShardLeft
<1>9. CASE next = Workers
  <2>1. MergedPlaces(next + 1) = DOMAIN Sorted
    BY <1>9, PlacesAre
  <2>2. Exact(Sorted, DOMAIN Sorted, parsed)'
    BY <1>0, <1>4, <2>1 DEF Exact, Erroneous
  <2>. QED BY <1>0, <1>7, <1>8, <1>9, <2>2 DEF BuildInv
<1>10. CASE next # Workers
  <2>1. next' \in Shards
    BY <1>0, <1>10, WorkersNat DEF Shards
  <2>2. Exact(Sorted, MergedPlaces(next), parsed)'
    BY <1>0, <1>4 DEF Exact, Erroneous, MergedPlaces
  <2>. QED BY <1>0, <1>7, <1>8, <1>10, <2>1, <2>2 DEF BuildInv
<1>. QED BY <1>9, <1>10

LEMMA NextBuildInv == BuildInv /\ [Next]_vars => BuildInv'
<1>. SUFFICES ASSUME BuildInv, [Next]_vars PROVE BuildInv'
  OBVIOUS
<1>. USE WorkersNat DEF Shards
<1>1. CASE SpawnShard
  BY <1>1 DEF SpawnShard, BuildInv, TypeOK, NoShardLeft
<1>2. CASE SpawnFails
  BY <1>2, GiveUpInv DEF SpawnFails, BuildInv
<1>3. CASE AllSpawned
  <2>1. /\ pc = "spawn" /\ pc' = "await" /\ next' = 1
        /\ UNCHANGED <<content, expired, child, reaped, parsed>>
    BY <1>3 DEF AllSpawned, childVars
  <2>2. TypeOK' /\ NoShardLeft'
    BY <2>1 DEF BuildInv, TypeOK, NoShardLeft
  <2>3. \A s \in Shards : ~(s < next')
    BY <2>1
  <2>4. reaped' = {s \in Shards : s < next'}
    BY <2>1, <2>3 DEF BuildInv
  <2>. QED BY <2>1, <2>2, <2>3, <2>4 DEF BuildInv
<1>4. CASE AwaitShard
  <2>1. /\ pc = "await" /\ next \in Shards /\ child[next] = "ok" /\ next' = next + 1
        /\ reaped' = reaped \cup {next} /\ UNCHANGED <<content, pc, expired, child, parsed>>
    BY <1>4 DEF AwaitShard
  <2>2. TypeOK' /\ NoShardLeft'
    BY <2>1 DEF BuildInv, TypeOK, NoShardLeft
  <2>3. reaped' = {s \in Shards : s < next'}
    <3>1. reaped = {s \in Shards : s < next}
      BY <2>1 DEF BuildInv
    <3>2. \A s \in Shards : s < next + 1 <=> (s < next \/ s = next)
      BY <2>1
    <3>. HIDE DEF Shards
    <3>. QED BY <2>1, <3>1, <3>2
  <2>4. \A s \in Shards : s < next' => child'[s] = "ok"
    BY <2>1 DEF BuildInv
  <2>. HIDE DEF Shards
  <2>. QED BY <2>1, <2>2, <2>3, <2>4 DEF BuildInv
<1>5. CASE AwaitFails \/ OutputUnreadable
  <2>1. {next} \subseteq Shards /\ GiveUp({next}) /\ child[next] \in {"ok", "failed"}
    BY <1>5 DEF AwaitFails, OutputUnreadable
  <2>2. reaped \subseteq Shards /\ \A s \in reaped : child[s] = "ok"
    BY <1>5 DEF AwaitFails, OutputUnreadable, BuildInv
  <2>. QED BY <2>1, <2>2, GiveUpInv
<1>6. CASE AwaitTimeout
  BY <1>6, GiveUpInv DEF AwaitTimeout, BuildInv
<1>7. CASE AllAwaited
  <2>1. /\ pc = "await" /\ pc' = "merge" /\ next' = 1 /\ next = Workers + 1
        /\ UNCHANGED <<content, expired, child, reaped, parsed>>
    BY <1>7 DEF AllAwaited, childVars, BuildInv, TypeOK
  <2>2. Exact(Sorted, MergedPlaces(1), parsed)
    BY <2>1, EmptyIsExact DEF BuildInv
  <2>3. Exact(Sorted, MergedPlaces(next), parsed)'
    BY <2>1, <2>2 DEF Exact, Erroneous, MergedPlaces
  <2>4. TypeOK' /\ NoShardLeft'
    BY <2>1 DEF BuildInv, TypeOK, NoShardLeft
  <2>5. next' \in Shards
    BY <2>1
  <2>. QED BY <2>1, <2>3, <2>4, <2>5 DEF BuildInv
<1>8. CASE MergeShard
  BY <1>8, MergeShardInv
<1>9. CASE ParseSerially
  <2>1. /\ pc = "fallback" /\ pc' = "done" /\ parsed' = Parse(Discovered, DOMAIN Discovered)
        /\ UNCHANGED <<content, next, expired, child, reaped>>
    BY <1>9 DEF ParseSerially, childVars
  <2>2. Exact(Discovered, DOMAIN Discovered, parsed')
    BY <2>1, ParseIsExact, FilesAre
  <2>3. Exact(Discovered, DOMAIN Discovered, parsed)'
    BY <2>1, <2>2 DEF Exact, Erroneous
  <2>4. TypeOK' /\ NoShardLeft'
    BY <2>1, <2>2 DEF BuildInv, TypeOK, NoShardLeft, Exact
  <2>. QED BY <2>1, <2>3, <2>4 DEF BuildInv
<1>10. CASE Interrupt
  BY <1>10 DEF Interrupt, childVars, BuildInv, TypeOK, NoShardLeft
<1>11. CASE DeadlinePasses
  BY <1>11 DEF DeadlinePasses, launchVars, childVars, BuildInv, TypeOK, NoShardLeft
<1>12. ASSUME NEW s \in Shards, ShardExits(s) PROVE BuildInv'
  <2>1. child' \in [Shards -> {"none", "running", "ok", "failed", "killed"}]
    BY <1>12 DEF ShardExits, BuildInv, TypeOK
  <2>2. \A r \in Shards : child[r] # "running" => child'[r] = child[r]
    BY <1>12 DEF ShardExits, BuildInv, TypeOK
  <2>3. \A r \in Shards : child'[r] # child[r] => child'[r] \in {"ok", "failed"}
    BY <1>12 DEF ShardExits, BuildInv, TypeOK
  <2>4. UNCHANGED <<content, pc, next, expired, reaped, parsed>>
    BY <1>12 DEF ShardExits, launchVars
  <2>5. TypeOK' /\ NoShardLeft'
    BY <2>1, <2>2, <2>3, <2>4 DEF BuildInv, TypeOK, NoShardLeft
  <2>6. /\ \A listing, places : Exact(listing, places, parsed) => Exact(listing, places, parsed)'
        /\ MergedPlaces(next)' = MergedPlaces(next)
    BY <2>4, ExactStays DEF MergedPlaces
  <2>7. child[s] = "running" /\ \A r \in Shards : child'[r] = "none" <=> child[r] = "none"
    BY <1>12 DEF ShardExits, BuildInv, TypeOK
  <2>8. pc' = "merge" => next' \in Shards /\ Exact(Sorted, MergedPlaces(next), parsed)'
    BY <2>4, ExactStays DEF BuildInv, MergedPlaces
  <2>9. pc' = "done" => \/ Exact(Sorted, DOMAIN Sorted, parsed)'
                       \/ Exact(Discovered, DOMAIN Discovered, parsed)'
    BY <2>4, ExactStays DEF BuildInv
  <2>. QED BY <2>2, <2>4, <2>5, <2>7, <2>8, <2>9 DEF BuildInv
<1>13. CASE UNCHANGED vars
  <2>1. UNCHANGED <<content, pc, next, expired, child, reaped, parsed>>
    BY <1>13 DEF vars, launchVars, childVars
  <2>2. TypeOK' /\ NoShardLeft'
    BY <2>1 DEF BuildInv, TypeOK, NoShardLeft
  <2>3. pc' = "merge" => next' \in Shards /\ Exact(Sorted, MergedPlaces(next), parsed)'
    BY <2>1, ExactStays DEF BuildInv, MergedPlaces
  <2>4. pc' = "done" => \/ Exact(Sorted, DOMAIN Sorted, parsed)'
                       \/ Exact(Discovered, DOMAIN Discovered, parsed)'
    BY <2>1, ExactStays DEF BuildInv
  <2>. QED BY <2>1, <2>2, <2>3, <2>4 DEF BuildInv
<1>. QED BY <1>1, <1>2, <1>3, <1>4, <1>5, <1>6, <1>7, <1>8, <1>9, <1>10, <1>11, <1>12, <1>13
         DEF Next, Build

-----------------------------------------------------------------------------
(* The theorems *)

\* The inductive invariant of the build, for every folder and number of shards.
THEOREM BuildInvariant == Spec => []BuildInv
  BY InitBuildInv, NextBuildInv, PTL DEF Spec

\* No shard process outlives a fan-out that ended by itself, and each was waited
\* for (fan_out_dag_bag).
THEOREM NoneLeft == Spec => []NoShardLeft
<1>1. BuildInv => NoShardLeft
  BY DEF BuildInv
<1>. QED BY <1>1, BuildInvariant, PTL

\* Fanned out or not, the same Dags are found, and every collision is reported
\* (merge_shard_payloads), whatever the files define.
THEOREM FannedOutOrNot == Spec => []FindingsAgree
  BY BuildInvariant, BuildIsRight, PTL

-----------------------------------------------------------------------------
(***************************************************************************)
(* SmokeCatalog                                                            *)
(*                                                                         *)
(* One worker holds the corpus, no parse is repeated in silence, and the   *)
(* checks report what they look for, for every collection of tests, Dags,  *)
(* sessions and nodes.                                                     *)
(***************************************************************************)

Order == Tests \o SmokeChecks

LEMMA OrderIs ==
  /\ Order \in Seq(Items) /\ Len(Order) = Len(Tests) + Len(SmokeChecks)
  /\ DOMAIN Order = 1..Len(Order)
  /\ Len(Tests) \in Nat /\ Len(SmokeChecks) \in Nat
  /\ TestItems = {Tests[k] : k \in 1..Len(Tests)}
  /\ Smoke = {SmokeChecks[k] : k \in 1..Len(SmokeChecks)}
  /\ \A k \in 1..Len(Tests) : Order[k] = Tests[k]
  /\ \A k \in 1..Len(SmokeChecks) : Order[Len(Tests) + k] = SmokeChecks[k]
<1>1. SmokeChecks \in Seq({"integrity", "roundtrip", "schedule", "pools", "lookups", "io",
                            "catchup", "expand", "dag_id", "tags", "owner", "snapshot",
                            "varying"})
  BY DEF SmokeChecks
<1>2. Tests \in Seq(TestItems)
  BY CatalogAssumption
<1>3. SmokeChecks \in Seq(Smoke)
  BY <1>1 DEF Smoke, ToSet
<1>4. Tests \in Seq(Items) /\ SmokeChecks \in Seq(Items)
  BY <1>2, <1>3 DEF Items
<1>. QED BY <1>4 DEF Order, Items, TestItems, Smoke, ToSet

LEMMA PositionIs ==
  /\ \A i \in Items : Position(i) \in DOMAIN Order /\ Order[Position(i)] = i
  /\ \A i, j \in Items : Position(i) = Position(j) => i = j
  /\ \A i \in TestItems, j \in Smoke : Position(i) < Position(j)
<1>1. ASSUME NEW i \in Items PROVE \E k \in DOMAIN Order : Order[k] = i
  <2>1. CASE i \in TestItems
    <3>1. PICK k \in 1..Len(Tests) : Tests[k] = i
      BY <2>1, OrderIs
    <3>. QED BY <3>1, OrderIs
  <2>2. CASE i \in Smoke
    <3>1. PICK k \in 1..Len(SmokeChecks) : SmokeChecks[k] = i
      BY <2>2, OrderIs
    <3>2. Len(Tests) + k \in DOMAIN Order /\ Order[Len(Tests) + k] = i
      BY <3>1, OrderIs
    <3>. QED BY <3>2
  <2>. QED BY <2>1, <2>2 DEF Items
<1>2. \A i \in Items : Position(i) \in DOMAIN Order /\ Order[Position(i)] = i
  BY <1>1 DEF Position, Order
<1>3. \A i, j \in Items : Position(i) = Position(j) => i = j
  BY <1>2
<1>4. ASSUME NEW i \in TestItems, NEW j \in Smoke PROVE Position(i) < Position(j)
  <2>1. i \in Items /\ j \in Items /\ i \notin Smoke /\ j \notin TestItems
    BY CatalogAssumption DEF Items
  <2>2. Position(i) \in 1..Len(Tests)
    <3>1. SUFFICES ASSUME Position(i) \notin 1..Len(Tests) PROVE FALSE
      OBVIOUS
    <3>2. PICK k \in 1..Len(SmokeChecks) : Position(i) = Len(Tests) + k
      <4>1. Position(i) \in 1..(Len(Tests) + Len(SmokeChecks))
        BY <1>2, <2>1, OrderIs
      <4>2. Position(i) - Len(Tests) \in 1..Len(SmokeChecks)
        BY <4>1, <3>1, OrderIs
      <4>3. Position(i) = Len(Tests) + (Position(i) - Len(Tests))
        BY <4>1, OrderIs
      <4>. QED BY <4>2, <4>3, Zenon
    <3>3. i = SmokeChecks[k]
      BY <1>2, <2>1, <3>2, OrderIs
    <3>. QED BY <3>3, <2>1, OrderIs
  <2>3. Position(j) \in 1..Len(Order) /\ Position(j) \notin 1..Len(Tests)
    <3>1. Position(j) \in DOMAIN Order /\ Order[Position(j)] = j
      BY <1>2, <2>1
    <3>. QED BY <3>1, <2>1, OrderIs
  <2>. QED BY <2>2, <2>3, OrderIs
<1>. QED BY <1>2, <1>3, <1>4

-----------------------------------------------------------------------------
(* The invariant *)

CollectedOnce ==
  /\ phase = "run" =>
       /\ items = Kept
       /\ group = GroupItems(Collected, Collected \cap Smoke)
       /\ requested <=> Requests(Collected)
       /\ warned <=> Warns(Collected, Collected \cap Smoke)
  /\ phase # "run" => items = {}

\* The items of a unit ran in order and on one node.
Together ==
  /\ \A i \in Items : Ran(i) => i \in items
  /\ \A j \in items : Ran(j) => \A i \in Unit(j) \cap Before(j) : ranOn[i] = ranOn[j]

\* Which nodes hold a DagBag and the corpus.
Holders ==
  /\ \A i \in items : Ran(i) /\ Uses(i, "dag_bag") => ranOn[i] \in bag
  /\ \A n \in held : \E i \in items :
       Ran(i) /\ ranOn[i] = n /\ (i \in Smoke \/ Uses(i, "dag_corpus"))

\* The corpus says of each Dag what the session makes of it.
CorpusRight ==
  corpus # NoCorpus =>
    /\ phase = "run" /\ corpus \in Artifacts
    /\ \A d \in Dags : corpus.outcome[d] = Outcome(d)
    /\ SmokeInScope => corpus.lookups

Reported ==
  \A c \in Smoke : Ran(c) => corpus # NoCorpus /\ reports[c] = CheckFindings(c, corpus)

CatalogInv ==
  /\ CatalogTypeOK
  /\ CollectedOnce
  /\ Together
  /\ Holders
  /\ CorpusRight
  /\ Reported
  /\ ExtraParseAnnounced

-----------------------------------------------------------------------------
(* What the invariant says of the properties *)

LEMMA SessionIs ==
  CatalogTypeOK =>
    /\ session.tests \in [TestItems -> TestTraits]
    /\ options.dist \in {"serial", "load", "loadgroup"}
    /\ options.sample \in Nat /\ options.checks \subseteq Smoke
  BY CatalogAssumption DEF CatalogTypeOK, options

LEMMA ItemsAre ==
  ASSUME CatalogTypeOK, CollectedOnce, NEW i \in items
  PROVE  /\ phase = "run" /\ i \in Collected /\ Fate(i) = "kept" /\ i \in Items
         /\ i \in Smoke \/ i \in TestItems
         /\ i \in Smoke => i \in options.checks /\ SmokeInScope
<1>1. phase = "run" /\ i \in Kept /\ i \in Items
  BY DEF CollectedOnce, CatalogTypeOK
<1>2. i \in Smoke => i \in CatalogItems
  BY <1>1, CatalogAssumption DEF Kept, Collected
<1>. QED BY <1>1, <1>2 DEF Kept, Collected, CatalogItems, Items

\* Under loadgroup the items that hold the corpus are one group.
LEMMA OneGroup ==
  ASSUME CatalogTypeOK, CollectedOnce, Loadgroup,
         \A i \in items : Uses(i, "dag_corpus") => session.tests[i].group = Ungrouped,
         NEW i \in items, NEW j \in items,
         i \in Smoke \/ Uses(i, "dag_corpus"), j \in Smoke \/ Uses(j, "dag_corpus")
  PROVE  group[i] = group[j] /\ group[i] # Ungrouped
<1>. DEFINE smoke == Collected \cap Smoke
            holds(k) == k \in Smoke \/ Uses(k, "dag_corpus")
<1>1. phase = "run" /\ group = GroupItems(Collected, smoke)
  BY ItemsAre DEF CollectedOnce
<1>2. \A k \in items : k \in Items /\ k \in Collected /\ Fate(k) = "kept"
  BY ItemsAre
<1>3. \A k \in items : k \in Smoke => k \in smoke
  BY <1>2
<1>4. \A k \in items : Uses(k, "dag_corpus") => k \in Anchors(Collected, "dag_corpus")
  BY <1>2 DEF Anchors, Consumers, Eligible
<1>5. ASSUME NEW name, name # Ungrouped, NEW joining, group = Grouped(joining, name),
             i \in joining, j \in joining
      PROVE  group[i] = group[j] /\ group[i] # Ungrouped
  BY <1>5, <1>2 DEF Grouped
<1>6. CASE Anchors(Collected, "dag_corpus") # {}
  <2>1. group = Grouped(smoke \cup Anchors(Collected, "dag_corpus"), "dag-corpus")
    BY <1>1, <1>6 DEF GroupItems
  <2>. QED BY <2>1, <1>3, <1>4, <1>5 DEF Ungrouped
<1>7. CASE Anchors(Collected, "dag_corpus") = {}
  <2>1. i \in smoke /\ j \in smoke
    BY <1>3, <1>4, <1>7
  <2>2. CASE Anchors(Collected, "dag_bag") = {}
    <3>1. group = Grouped(smoke, "smoke-catalog-fallback")
      BY <1>1, <1>7, <2>1, <2>2 DEF GroupItems, CatalogAlone
    <3>. QED BY <3>1, <2>1, <1>5 DEF Ungrouped
  <2>3. CASE Anchors(Collected, "dag_bag") # {}
    <3>1. group = Grouped(smoke \cup {First(Anchors(Collected, "dag_bag"))}, "dag-bag")
      BY <1>1, <1>7, <2>1, <2>3 DEF GroupItems
    <3>. QED BY <3>1, <2>1, <1>5 DEF Ungrouped
  <2>. QED BY <2>2, <2>3
<1>. QED BY <1>6, <1>7

LEMMA HeldOnce == CatalogInv => CorpusHeldOnce
<1>. SUFFICES ASSUME CatalogInv, Loadgroup,
                     \A i \in items : Uses(i, "dag_corpus") => session.tests[i].group = Ungrouped
              PROVE  Cardinality(held) <= 1
  BY DEF CorpusHeldOnce
<1>1. ASSUME NEW m \in held, NEW n \in held PROVE m = n
  <2>1. PICK i \in items : Ran(i) /\ ranOn[i] = m /\ (i \in Smoke \/ Uses(i, "dag_corpus"))
    BY DEF CatalogInv, Holders
  <2>2. PICK j \in items : Ran(j) /\ ranOn[j] = n /\ (j \in Smoke \/ Uses(j, "dag_corpus"))
    BY DEF CatalogInv, Holders
  <2>3. group[i] = group[j] /\ group[i] # Ungrouped
    BY <2>1, <2>2, OneGroup DEF CatalogInv
  <2>4. i \in Unit(j) /\ j \in Unit(i)
    BY <2>3 DEF Unit, Loadgroup
  <2>5. i \in Before(j) \/ j \in Before(i) \/ i = j
    <3>1. i \in Items /\ j \in Items
      BY DEF CatalogInv, CatalogTypeOK
    <3>2. Position(i) \in Nat /\ Position(j) \in Nat
      BY <3>1, PositionIs, OrderIs
    <3>. QED BY <3>1, <3>2, PositionIs DEF Before
  <2>. QED BY <2>1, <2>2, <2>4, <2>5 DEF CatalogInv, Together
<1>2. CASE held = {}
  BY <1>2, FS_EmptySet
<1>3. CASE held # {}
  <2>1. PICK n \in held : held = {n}
    BY <1>1, <1>3
  <2>. QED BY <2>1, FS_Singleton
<1>. QED BY <1>2, <1>3

LEMMA SelectedAre ==
  ASSUME CatalogTypeOK
  PROVE  /\ SelectedDags \subseteq Dags
         /\ requested => SelectedDags = Dags
<1>1. \A k \in DOMAIN Ranking : Ranking[k] \in Dags
  BY CatalogAssumption
<1>. QED BY <1>1 DEF SelectedDags, CorpusSerializationNeeded, EffectiveSampleSize

LEMMA ConsumersAreServed == CatalogInv => ConsumersServed
<1>. SUFFICES ASSUME CatalogInv, corpus # NoCorpus, NEW d \in Dags, corpus.outcome[d] = "none"
              PROVE  /\ d \notin SelectedDags
                     /\ \A i \in TestItems : Uses(i, "dag_corpus") => ~Ran(i)
  BY DEF ConsumersServed
<1>1. d \notin SelectedDags
  BY DEF CatalogInv, CorpusRight, Outcome
<1>2. ASSUME NEW i \in TestItems, Uses(i, "dag_corpus"), Ran(i) PROVE FALSE
  <2>1. i \in items
    BY <1>2 DEF CatalogInv, Together, Items
  <2>2. i \in Collected /\ phase = "run"
    BY <2>1, ItemsAre DEF CatalogInv
  <2>3. Requests(Collected)
    BY <2>2, <1>2 DEF Requests, Consumers
  <2>4. requested
    BY <2>2, <2>3 DEF CatalogInv, CollectedOnce
  <2>. QED BY <2>4, <1>1, SelectedAre DEF CatalogInv
<1>. QED BY <1>1, <1>2

LEMMA ReportsAreComplete == CatalogInv => ReportsComplete
<1>. SUFFICES ASSUME CatalogInv PROVE ReportsComplete
  OBVIOUS
<1>0. \A i \in Items : Ran(i) => i \in items
  BY DEF CatalogInv, Together
<1>1. {"schedule", "roundtrip", "lookups", "snapshot"} \subseteq Smoke
  <2>1. /\ SmokeChecks[3] = "schedule" /\ SmokeChecks[2] = "roundtrip"
        /\ SmokeChecks[5] = "lookups" /\ SmokeChecks[12] = "snapshot"
        /\ {2, 3, 5, 12} \subseteq 1..Len(SmokeChecks)
    BY DEF SmokeChecks
  <2>2. {SmokeChecks[k] : k \in {2, 3, 5, 12}} \subseteq Smoke
    BY <2>1, OrderIs
  <2>. QED BY <2>1, <2>2
<1>2. ASSUME Ran("schedule"), Ran("roundtrip") \/ "roundtrip" \notin options.checks,
             NEW d \in SelectedDags \cap With({"scheduled"}),
             traits[d] \cap {"unserializable", "undecodable", "no next run"} # {}
      PROVE  \E c \in {"roundtrip", "schedule", "snapshot"} : d \in reports[c]
  <2>1. corpus # NoCorpus /\ reports["schedule"] = ScheduleFindings(corpus)
    BY <1>1, <1>2 DEF CatalogInv, Reported, CheckFindings
  <2>2. d \in Dags /\ d \in SelectedDags
    BY SelectedAre DEF CatalogInv
  <2>3. corpus.outcome[d] = Outcome(d)
    BY <2>1, <2>2 DEF CatalogInv, CorpusRight
  <2>4. CASE "unserializable" \in traits[d]
    <3>1. d \in Failed(corpus)
      BY <2>2, <2>3, <2>4 DEF Failed, Outcome
    <3>2. CASE Ran("roundtrip")
      <4>1. reports["roundtrip"] = RoundtripFindings(corpus)
        BY <1>1, <3>2 DEF CatalogInv, Reported, CheckFindings
      <4>. QED BY <3>1, <4>1 DEF RoundtripFindings
    <3>3. CASE "roundtrip" \notin options.checks
      <4>1. d \in ScheduleFindings(corpus)
        BY <3>1, <3>3 DEF ScheduleFindings
      <4>. QED BY <2>1, <4>1
    <3>. QED BY <3>2, <3>3, <1>2
  <2>5. CASE "unserializable" \notin traits[d]
    <3>1. d \in Encoded(corpus)
      BY <2>2, <2>3, <2>5 DEF Encoded, Outcome
    <3>2. d \in With({"undecodable"}) \cup With({"no next run"})
      BY <1>2, <2>2, <2>5 DEF With
    <3>3. d \in ScheduleFindings(corpus)
      BY <3>1, <3>2 DEF ScheduleFindings
    <3>. QED BY <2>1, <3>3
  <2>. QED BY <2>4, <2>5
<1>3. ASSUME Ran("lookups")
      PROVE  With({"lookup"}) \cup With({"hidden lookup"}) \subseteq reports["lookups"]
  <2>1. corpus # NoCorpus /\ reports["lookups"] = LookupFindings(corpus)
    BY <1>1, <1>3 DEF CatalogInv, Reported, CheckFindings
  <2>2. "lookups" \in items
    BY <1>0, <1>1, <1>3 DEF Items
  <2>3. SmokeInScope
    BY <1>1, <2>2, ItemsAre DEF CatalogInv
  <2>4. corpus.lookups
    BY <2>1, <2>3 DEF CatalogInv, CorpusRight
  <2>. QED BY <2>1, <2>4 DEF LookupFindings
<1>. QED BY <1>2, <1>3 DEF ReportsComplete

-----------------------------------------------------------------------------
(* The steps *)

LEMMA BuiltIs ==
  ASSUME NEW n
  PROVE  /\ BuiltCorpus(n) \in Artifacts
         /\ BuiltCorpus(n).reused <=> n \in bag
         /\ SmokeInScope => BuiltCorpus(n).lookups
         /\ \A d \in Dags : BuiltCorpus(n).outcome[d] = Outcome(d)
<1>1. \A d \in Dags : Outcome(d) \in {"none", "error", "encoded"}
  BY DEF Outcome
<1>2. [d \in Dags |-> Outcome(d)] \in [Dags -> {"none", "error", "encoded"}]
  BY <1>1
<1>3. (n \in bag) \in BOOLEAN /\ (n \notin bag \/ SmokeInScope) \in BOOLEAN
  OBVIOUS
<1>4. BuiltCorpus(n) \in Artifacts
  BY <1>2, <1>3, Zenon DEF BuiltCorpus, Artifacts
<1>5. BuiltCorpus(n).reused <=> n \in bag
  BY Zenon DEF BuiltCorpus
<1>6. SmokeInScope => BuiltCorpus(n).lookups
  BY Zenon DEF BuiltCorpus
<1>7. BuiltCorpus(n).outcome = [d \in Dags |-> Outcome(d)]
  BY DEF BuiltCorpus
<1>. QED BY <1>4, <1>5, <1>6, <1>7

LEMMA FindingsAreDags ==
  ASSUME CatalogTypeOK, NEW c, NEW x
  PROVE  CheckFindings(c, x) \subseteq Dags
<1>1. \A flaws : With(flaws) \subseteq Dags
  BY DEF With
<1>2. Failed(x) \subseteq Dags /\ Encoded(x) \subseteq Dags
  BY SelectedAre DEF Failed, Encoded
<1>. QED BY <1>1, <1>2 DEF CheckFindings, IntegrityFindings, RoundtripFindings,
         ScheduleFindings, SnapshotFindings, LookupFindings, PoolFindings

\* Running items changes nothing that was settled by collection.
LEMMA SettledByCollection ==
  ASSUME UNCHANGED <<session, collection>>
  PROVE  /\ CollectedOnce => CollectedOnce'
         /\ SelectedDags' = SelectedDags
         /\ SmokeInScope' <=> SmokeInScope
         /\ \A d : Outcome(d)' = Outcome(d)
         /\ \A i : Unit(i)' = Unit(i) /\ Before(i)' = Before(i)
         /\ \A i, fixture : Uses(i, fixture)' <=> Uses(i, fixture)
         /\ \A c, x : CheckFindings(c, x)' = CheckFindings(c, x)
<1>1. /\ session' = session /\ items' = items /\ group' = group
      /\ requested' = requested /\ warned' = warned /\ phase' = phase
      /\ options' = options /\ traits' = traits
  BY DEF collection, options, traits
<1>2. \A i : Fate(i)' = Fate(i)
  BY <1>1 DEF Fate
<1>3. \A i, fixture : Uses(i, fixture)' <=> Uses(i, fixture)
  BY <1>1 DEF Uses
<1>4. SmokeInScope' <=> SmokeInScope
  BY <1>1 DEF SmokeInScope
<1>5. Collected' = Collected /\ Kept' = Kept
  BY <1>1, <1>2, <1>4 DEF Collected, Kept, CatalogItems
<1>6. SelectedDags' = SelectedDags
  BY <1>1, <1>4 DEF SelectedDags, CorpusSerializationNeeded, EffectiveSampleSize,
     SmokeSerializationNeeded
<1>7. \A d : Outcome(d)' = Outcome(d)
  BY <1>1, <1>6 DEF Outcome
<1>8. \A i : Unit(i)' = Unit(i) /\ Before(i)' = Before(i)
  BY <1>1 DEF Unit, Before, Loadgroup
<1>9. \A flaws : With(flaws)' = With(flaws)
  BY <1>1 DEF With
<1>10. \A x : Failed(x)' = Failed(x) /\ Encoded(x)' = Encoded(x)
  BY <1>6 DEF Failed, Encoded
<1>11. \A c, x : CheckFindings(c, x)' = CheckFindings(c, x)
  BY <1>1, <1>9, <1>10 DEF CheckFindings, IntegrityFindings, RoundtripFindings,
     ScheduleFindings, SnapshotFindings, LookupFindings, PoolFindings
<1>12. /\ \A s, fixture : (Consumers(s, fixture))' = Consumers(s, fixture)
       /\ \A s, fixture : (Anchors(s, fixture))' = Anchors(s, fixture)
  <2>1. \A i : Eligible(i)' <=> Eligible(i)
    BY <1>1, <1>2 DEF Eligible
  <2>2. \A s, fixture : (Consumers(s, fixture))' = Consumers(s, fixture)
    BY <1>3 DEF Consumers
  <2>. QED BY <2>1, <2>2 DEF Anchors
<1>13. \A s, t : GroupItems(s, t)' = GroupItems(s, t)
  <2>1. \A s, name : Grouped(s, name)' = Grouped(s, name)
    BY <1>1 DEF Grouped
  <2>. QED BY <2>1, <1>1, <1>12 DEF GroupItems, Loadgroup, CatalogAlone
<1>14. \A s, t : Warns(s, t)' <=> Warns(s, t)
  BY <1>1, <1>12 DEF Warns, Loadgroup, NoAnchor
<1>15. \A s : Requests(s)' <=> Requests(s)
  BY <1>12 DEF Requests
<1>16. CollectedOnce => CollectedOnce'
  BY <1>1, <1>5, <1>13, <1>14, <1>15 DEF CollectedOnce
<1>. QED BY <1>3, <1>4, <1>6, <1>7, <1>8, <1>11, <1>16

\* What is true of an item taken by a node, whatever it is.
LEMMA TakenTogether ==
  ASSUME CatalogInv, NEW n \in Nodes, NEW i \in items, Takes(n, i)
  PROVE  /\ Together' /\ CollectedOnce'
         /\ ranOn' \in [Items -> Nodes \cup {Nowhere}]
         /\ \A j \in Items : Ran(j)' <=> Ran(j) \/ j = i
         /\ ranOn'[i] = n /\ \A j \in Items : j # i => ranOn'[j] = ranOn[j]
<1>0. UNCHANGED <<session, collection>> /\ items' = items
  BY DEF Takes, collection
<1>1. ranOn \in [Items -> Nodes \cup {Nowhere}] /\ i \in Items /\ items \subseteq Items
  BY DEF CatalogInv, CatalogTypeOK
<1>2. /\ ranOn' \in [Items -> Nodes \cup {Nowhere}] /\ ranOn'[i] = n /\ ranOn[i] = Nowhere
      /\ \A j \in Items : j # i => ranOn'[j] = ranOn[j]
  BY <1>1 DEF Takes
<1>3. n # Nowhere
  BY CatalogAssumption
<1>4. \A j \in Items : Ran(j)' <=> Ran(j) \/ j = i
  BY <1>2, <1>3 DEF Ran
<1>5. ASSUME NEW j \in items, Ran(j)', NEW k \in Unit(j)' \cap Before(j)'
      PROVE  ranOn'[k] = ranOn'[j]
  <2>1. k \in Unit(j) \cap Before(j) /\ k \in items
    BY <1>0, SettledByCollection DEF Before
  <2>2. CASE j = i
    <3>1. ranOn[k] = n
      BY <2>1, <2>2 DEF Takes
    <3>. QED BY <3>1, <2>2, <1>1, <1>2, <1>3, <2>1
  <2>3. CASE j # i
    <3>1. ranOn[k] = ranOn[j] /\ ranOn[j] # Nowhere
      BY <2>1, <2>3, <1>1, <1>4, <1>5 DEF CatalogInv, Together, Ran
    <3>. QED BY <3>1, <2>1, <2>3, <1>1, <1>2
  <2>. QED BY <2>2, <2>3
<1>6. \A j \in Items : Ran(j)' => j \in items'
  BY <1>0, <1>4 DEF CatalogInv, Together
<1>7. Together'
  BY <1>0, <1>5, <1>6 DEF Together
<1>8. CollectedOnce'
  BY <1>0, SettledByCollection DEF CatalogInv
<1>. QED BY <1>2, <1>4, <1>7, <1>8

\* Tests that parse the folder run before the catalog, and the one the catalog is
\* grouped with on the same node.
LEMMA BagIsThere ==
  ASSUME CatalogInv, NEW n \in Nodes, NEW i \in items, Takes(n, i), i \in Smoke,
         ~requested, ~warned, \E j \in items : Uses(j, "dag_bag"),
         ~ \E j \in TestItems : Uses(j, "dag_bag") /\ Eligible(j) /\ Fate(j) = "keyword"
  PROVE  n \in bag
<1>. DEFINE smoke == Collected \cap Smoke
            bagAnchors == Anchors(Collected, "dag_bag")
<1>0. /\ phase = "run" /\ group = GroupItems(Collected, smoke)
      /\ ~Requests(Collected) /\ ~Warns(Collected, smoke) /\ items = Kept
  BY DEF CatalogInv, CollectedOnce, Takes
<1>1. Anchors(Collected, "dag_corpus") = {} /\ Consumers(Collected, "dag_corpus") = {}
  BY <1>0 DEF Requests, Anchors
<1>2. \A k \in items : k \in Items /\ k \in Collected
  BY ItemsAre DEF CatalogInv
<1>3. i \in smoke
  BY <1>2
<1>4. PICK j \in items : Uses(j, "dag_bag")
  OBVIOUS
<1>5. ASSUME NEW a \in items, Uses(a, "dag_bag"), a \in Unit(i) PROVE n \in bag
  <2>1. a \in TestItems /\ a \in Items /\ i \in Items
    BY <1>2, <1>5 DEF Uses, Items
  <2>2. a \in Before(i)
    BY <2>1, PositionIs DEF Before
  <2>3. ranOn[a] = n /\ n # Nowhere
    BY <1>5, <2>2, CatalogAssumption DEF Takes
  <2>. QED BY <1>5, <2>3 DEF CatalogInv, Holders, Ran
<1>6. options.dist \in {"serial", "load", "loadgroup"}
  BY SessionIs DEF CatalogInv
<1>7. CASE options.dist = "serial"
  BY <1>4, <1>5, <1>7 DEF Unit
<1>8. CASE options.dist = "load"
  <2>1. j \in Consumers(Collected, "dag_bag")
    BY <1>2, <1>4 DEF Consumers
  <2>. QED BY <2>1, <1>0, <1>3, <1>8 DEF Warns
<1>9. CASE Loadgroup
  <2>1. j \in Consumers(Collected, "dag_bag")
    BY <1>2, <1>4 DEF Consumers
  <2>2. bagAnchors # {}
    BY <2>1, <1>0, <1>1, <1>3, <1>9 DEF Warns, NoAnchor
  <2>. DEFINE a == First(bagAnchors)
  <2>3. a \in bagAnchors
    <3>1. bagAnchors \subseteq Items
      <4>1. Collected \subseteq Items
        BY DEF Collected, CatalogItems, Items
      <4>. QED BY <4>1 DEF Anchors, Consumers
    <3>2. {Position(k) : k \in bagAnchors} \subseteq Nat
      BY <3>1, PositionIs, OrderIs
    <3>3. PICK x \in {Position(k) : k \in bagAnchors} :
            \A y \in {Position(k) : k \in bagAnchors} : x <= y
      BY <3>2, <2>2, LeastNat
    <3>. QED BY <3>3 DEF First
  <2>4. Uses(a, "dag_bag") /\ Eligible(a) /\ a \in Collected
    BY <2>3 DEF Anchors, Consumers
  <2>5. a \in TestItems
    BY <2>4 DEF Collected, Uses, CatalogItems
  <2>6. Fate(a) = "kept"
    <3>1. Fate(a) # "keyword" /\ Fate(a) # "mark" /\ Fate(a) # "baseline"
      BY <2>4, <2>5 DEF Eligible, Collected
    <3>2. Fate(a) = session.tests[a].fate
      BY <2>5, CatalogAssumption DEF Fate
    <3>3. session.tests[a] \in TestTraits
      BY <2>5, SessionIs DEF CatalogInv
    <3>. QED BY <3>1, <3>2, <3>3 DEF TestTraits
  <2>7. a \in items
    BY <2>4, <2>6, <1>0 DEF Kept
  <2>8. group = Grouped(smoke \cup {a}, "dag-bag")
    BY <1>0, <1>1, <1>3, <1>9, <2>2 DEF GroupItems
  <2>9. group[a] = "dag-bag" /\ group[i] = "dag-bag"
    BY <2>8, <2>7, <1>2, <1>3 DEF Grouped
  <2>10. a \in Unit(i)
    BY <2>7, <2>9, <1>9 DEF Unit, Loadgroup, Ungrouped
  <2>. QED BY <2>4, <2>7, <2>10, <1>5
<1>. QED BY <1>6, <1>7, <1>8, <1>9 DEF Loadgroup

LEMMA CatalogInitInv == CatalogInit => CatalogInv
<1>. SUFFICES ASSUME CatalogInit PROVE CatalogInv
  OBVIOUS
<1>1. CatalogTypeOK
  BY DEF CatalogInit, CatalogTypeOK
<1>2. \A i \in Items : ~Ran(i)
  BY DEF CatalogInit, Ran
<1>3. Smoke \subseteq Items
  BY DEF Items
<1>. QED BY <1>1, <1>2, <1>3 DEF CatalogInit, CatalogInv, CollectedOnce, Together, Holders,
         CorpusRight, Reported, ExtraParseAnnounced

LEMMA CollectInv == CatalogInv /\ CollectItems => CatalogInv'
<1>. SUFFICES ASSUME CatalogInv, CollectItems PROVE CatalogInv'
  OBVIOUS
<1>0. /\ phase = "collect" /\ phase' = "run" /\ items = {} /\ items' = Kept
      /\ UNCHANGED <<session, ranOn, bag, corpus, held, reports>>
      /\ options' = options /\ traits' = traits
  BY DEF CollectItems, CatalogInv, CollectedOnce, options, traits
<1>1. /\ requested' \in BOOLEAN /\ warned' \in BOOLEAN
      /\ requested' <=> Requests(Collected)
      /\ warned' <=> Warns(Collected, Collected \cap Smoke)
      /\ group' = GroupItems(Collected, Collected \cap Smoke)
  BY Zenon DEF CollectItems, Requests, Warns
<1>2. Collected \subseteq Items /\ Kept \subseteq Items
  BY DEF Collected, Kept, CatalogItems, Items
<1>3. CatalogTypeOK'
  BY <1>0, <1>1, <1>2 DEF CatalogInv, CatalogTypeOK
<1>4. /\ \A i : Fate(i)' = Fate(i)
      /\ \A i, fixture : Uses(i, fixture)' <=> Uses(i, fixture)
      /\ SmokeInScope' <=> SmokeInScope
  BY <1>0 DEF Fate, Uses, SmokeInScope
<1>5. Collected' = Collected /\ Kept' = Kept
  BY <1>0, <1>4 DEF Collected, Kept, CatalogItems
<1>6. /\ \A s, fixture : (Consumers(s, fixture))' = Consumers(s, fixture)
      /\ \A s, fixture : (Anchors(s, fixture))' = Anchors(s, fixture)
  <2>1. \A i : Eligible(i)' <=> Eligible(i)
    BY <1>0, <1>4 DEF Eligible
  <2>2. \A s, fixture : (Consumers(s, fixture))' = Consumers(s, fixture)
    BY <1>4 DEF Consumers
  <2>. QED BY <2>1, <2>2 DEF Anchors
<1>7. \A s, t : GroupItems(s, t)' = GroupItems(s, t)
  <2>1. \A s, name : Grouped(s, name)' = Grouped(s, name)
    BY <1>0 DEF Grouped
  <2>. QED BY <2>1, <1>0, <1>6 DEF GroupItems, Loadgroup, CatalogAlone
<1>8. \A s, t : Warns(s, t)' <=> Warns(s, t)
  BY <1>0, <1>6 DEF Warns, Loadgroup, NoAnchor
<1>9. \A s : Requests(s)' <=> Requests(s)
  BY <1>6 DEF Requests
<1>10. CollectedOnce'
  BY <1>0, <1>1, <1>5, <1>7, <1>8, <1>9 DEF CollectedOnce
<1>11. \A i \in Items : ~Ran(i) /\ ~Ran(i)'
  BY <1>0 DEF CatalogInv, Together, Ran
<1>12. Together'
  BY <1>0, <1>2, <1>11 DEF Together
<1>13. Holders'
  BY <1>0, <1>2, <1>11 DEF CatalogInv, Holders
<1>14. corpus = NoCorpus /\ corpus' = NoCorpus
  BY <1>0 DEF CatalogInv, CorpusRight
<1>15. CorpusRight' /\ ExtraParseAnnounced'
  BY <1>14 DEF CorpusRight, ExtraParseAnnounced
<1>16. Reported'
  BY <1>11 DEF Reported, Items
<1>. QED BY <1>3, <1>10, <1>12, <1>13, <1>15, <1>16 DEF CatalogInv

LEMMA UsageErrorInv == CatalogInv /\ UsageError => CatalogInv'
<1>. SUFFICES ASSUME CatalogInv, UsageError PROVE CatalogInv'
  OBVIOUS
<1>0. /\ phase = "collect" /\ phase' = "refused" /\ items = {} /\ items' = {}
      /\ UNCHANGED <<session, items, group, requested, warned, ranOn, bag, corpus, held, reports>>
  BY DEF UsageError, CatalogInv, CollectedOnce
<1>1. CatalogTypeOK' /\ CollectedOnce'
  BY <1>0 DEF CatalogInv, CatalogTypeOK, CollectedOnce
<1>2. \A i \in Items : ~Ran(i) /\ ~Ran(i)'
  BY <1>0 DEF CatalogInv, Together, Ran
<1>3. Together' /\ Holders'
  BY <1>0, <1>2 DEF CatalogInv, Together, Holders
<1>4. corpus = NoCorpus /\ corpus' = NoCorpus
  BY <1>0 DEF CatalogInv, CorpusRight
<1>5. CorpusRight' /\ ExtraParseAnnounced' /\ Reported'
  BY <1>2, <1>4 DEF CorpusRight, ExtraParseAnnounced, Reported, Items
<1>. QED BY <1>1, <1>3, <1>5 DEF CatalogInv

LEMMA RunBagInv ==
  ASSUME CatalogInv, NEW n \in Nodes, NEW i \in items, RunWithDagBag(n, i)
  PROVE  CatalogInv'
<1>0. /\ UNCHANGED <<session, collection>> /\ items' = items /\ phase' = phase
      /\ UNCHANGED <<corpus, held, reports>> /\ bag' = bag \cup {n}
      /\ requested' = requested /\ warned' = warned
      /\ Takes(n, i) /\ Uses(i, "dag_bag")
  BY DEF RunWithDagBag, Takes, collection
<1>1. /\ Together' /\ CollectedOnce'
      /\ ranOn' \in [Items -> Nodes \cup {Nowhere}]
      /\ \A j \in Items : Ran(j)' <=> Ran(j) \/ j = i
      /\ ranOn'[i] = n /\ \A j \in Items : j # i => ranOn'[j] = ranOn[j]
  BY <1>0, TakenTogether
<1>2. CatalogTypeOK'
  BY <1>0, <1>1 DEF CatalogInv, CatalogTypeOK
<1>3. items \subseteq Items /\ i \notin Smoke
  BY <1>0 DEF CatalogInv, CatalogTypeOK, Uses
<1>4. \A j, fixture : Uses(j, fixture)' <=> Uses(j, fixture)
  BY <1>0, SettledByCollection
<1>5. ranOn[i] = Nowhere
  BY <1>0 DEF Takes
<1>6. Holders'
  <2>1. ASSUME NEW j \in items, Ran(j)', Uses(j, "dag_bag") PROVE ranOn'[j] \in bag'
    <3>1. CASE j = i
      BY <3>1, <1>0, <1>1
    <3>2. CASE j # i
      <4>1. Ran(j) /\ ranOn'[j] = ranOn[j]
        BY <1>1, <1>3, <2>1, <3>2
      <4>. QED BY <4>1, <2>1, <1>0 DEF CatalogInv, Holders
    <3>. QED BY <3>1, <3>2
  <2>2. ASSUME NEW m \in held
        PROVE  \E j \in items : Ran(j)' /\ ranOn'[j] = m /\ (j \in Smoke \/ Uses(j, "dag_corpus"))
    <3>1. PICK j \in items : Ran(j) /\ ranOn[j] = m /\ (j \in Smoke \/ Uses(j, "dag_corpus"))
      BY DEF CatalogInv, Holders
    <3>2. j # i
      BY <3>1, <1>5 DEF Ran
    <3>. QED BY <3>1, <3>2, <1>1, <1>3
  <2>. QED BY <2>1, <2>2, <1>0, <1>4 DEF Holders
<1>7. CorpusRight'
  BY <1>0, SettledByCollection DEF CatalogInv, CorpusRight
<1>8. Reported'
  <2>1. \A c \in Smoke : Ran(c)' => Ran(c)
    BY <1>1, <1>3 DEF Items
  <2>2. \A c, x : CheckFindings(c, x)' = CheckFindings(c, x)
    BY <1>0, SettledByCollection
  <2>. QED BY <2>1, <2>2, <1>0 DEF CatalogInv, Reported
<1>9. ExtraParseAnnounced'
  <2>1. \A j : Eligible(j)' <=> Eligible(j)
    BY <1>0 DEF Eligible, Fate, options
  <2>2. \A j : Fate(j)' = Fate(j)
    BY <1>0 DEF Fate, options
  <2>. QED BY <2>1, <2>2, <1>0, <1>4 DEF CatalogInv, ExtraParseAnnounced
<1>. QED BY <1>1, <1>2, <1>6, <1>7, <1>8, <1>9 DEF CatalogInv

\* What a request for the corpus does, whoever makes it.
LEMMA RequestServed ==
  ASSUME CatalogInv, NEW n \in Nodes, NEW i \in items, Takes(n, i), RequestCorpus(n),
         bag' = bag, i \in Smoke \/ Uses(i, "dag_corpus")
  PROVE  /\ held' \subseteq Nodes /\ Holders' /\ CorpusRight' /\ ExtraParseAnnounced'
         /\ corpus' # NoCorpus
         /\ corpus # NoCorpus => corpus' = corpus
<1>0. /\ UNCHANGED <<session, collection>> /\ items' = items /\ phase' = phase
      /\ phase = "run" /\ held' = held \cup {n} /\ corpus' = CorpusOn(n)
      /\ requested' = requested /\ warned' = warned
  BY DEF Takes, RequestCorpus, collection
<1>1. /\ \A j \in Items : Ran(j)' <=> Ran(j) \/ j = i
      /\ ranOn'[i] = n /\ \A j \in Items : j # i => ranOn'[j] = ranOn[j]
  BY TakenTogether
<1>2. items \subseteq Items /\ held' \subseteq Nodes
  BY <1>0 DEF CatalogInv, CatalogTypeOK
<1>3. \A j, fixture : Uses(j, fixture)' <=> Uses(j, fixture)
  BY <1>0, SettledByCollection
<1>4. ranOn[i] = Nowhere
  BY DEF Takes
<1>5. Uses(i, "dag_bag") => FALSE
  BY DEF Uses
<1>6. Holders'
  <2>1. ASSUME NEW j \in items, Ran(j)', Uses(j, "dag_bag") PROVE ranOn'[j] \in bag'
    <3>1. j # i
      BY <2>1, <1>5
    <3>2. Ran(j) /\ ranOn'[j] = ranOn[j]
      BY <1>1, <1>2, <2>1, <3>1
    <3>. QED BY <3>2, <2>1 DEF CatalogInv, Holders
  <2>2. ASSUME NEW m \in held'
        PROVE  \E j \in items : Ran(j)' /\ ranOn'[j] = m /\ (j \in Smoke \/ Uses(j, "dag_corpus"))
    <3>1. CASE m = n
      BY <3>1, <1>1, <1>2
    <3>2. CASE m \in held
      <4>1. PICK j \in items : Ran(j) /\ ranOn[j] = m /\ (j \in Smoke \/ Uses(j, "dag_corpus"))
        BY <3>2 DEF CatalogInv, Holders
      <4>2. j # i
        BY <4>1, <1>4 DEF Ran
      <4>. QED BY <4>1, <4>2, <1>1, <1>2
    <3>. QED BY <3>1, <3>2, <2>2, <1>0
  <2>. QED BY <2>1, <2>2, <1>0, <1>3 DEF Holders
<1>7. /\ corpus' \in Artifacts /\ corpus' # NoCorpus
      /\ \A d \in Dags : corpus'.outcome[d] = Outcome(d)
      /\ SmokeInScope => corpus'.lookups
      /\ corpus # NoCorpus => corpus' = corpus
      /\ corpus = NoCorpus => (corpus'.reused <=> n \in bag)
  <2>1. CASE corpus = NoCorpus
    <3>1. corpus' = BuiltCorpus(n)
      BY <1>0, <2>1 DEF CorpusOn
    <3>. QED BY <2>1, <3>1, BuiltIs, CatalogAssumption
  <2>2. CASE corpus # NoCorpus
    <3>1. corpus' = corpus
      BY <1>0, <2>2 DEF CorpusOn
    <3>. QED BY <2>2, <3>1 DEF CatalogInv, CorpusRight
  <2>. QED BY <2>1, <2>2
<1>8. CorpusRight'
  BY <1>0, <1>7, SettledByCollection DEF CorpusRight
<1>9. ExtraParseAnnounced'
  <2>1. \A j : Eligible(j)' <=> Eligible(j)
    BY <1>0 DEF Eligible, Fate, options
  <2>2. \A j : Fate(j)' = Fate(j)
    BY <1>0 DEF Fate, options
  <2>3. CASE corpus # NoCorpus
    BY <2>1, <2>2, <2>3, <1>0, <1>3, <1>7 DEF CatalogInv, ExtraParseAnnounced
  <2>4. CASE corpus = NoCorpus
    <3>1. SUFFICES ASSUME ~corpus'.reused, ~requested, \E j \in items : Uses(j, "dag_bag"), ~warned,
                          ~ \E j \in TestItems : Uses(j, "dag_bag") /\ Eligible(j) /\ Fate(j) = "keyword"
                   PROVE  FALSE
      BY <2>1, <2>2, <1>0, <1>3 DEF ExtraParseAnnounced
    <3>2. CASE i \in Smoke
      <4>1. n \in bag
        BY <3>1, <3>2, BagIsThere
      <4>. QED BY <4>1, <3>1, <1>7, <2>4
    <3>3. CASE Uses(i, "dag_corpus")
      <4>1. i \in Collected
        BY ItemsAre DEF CatalogInv
      <4>2. Requests(Collected)
        BY <4>1, <3>3 DEF Requests, Consumers
      <4>. QED BY <4>2, <3>1, <1>0 DEF CatalogInv, CollectedOnce
    <3>. QED BY <3>2, <3>3
  <2>. QED BY <2>3, <2>4
<1>. QED BY <1>2, <1>6, <1>7, <1>8, <1>9

LEMMA RunCorpusInv ==
  ASSUME CatalogInv, NEW n \in Nodes, NEW i \in items, RunWithDagCorpus(n, i)
  PROVE  CatalogInv'
<1>0. /\ UNCHANGED <<session, collection>> /\ items' = items /\ phase' = phase
      /\ requested' = requested /\ warned' = warned /\ UNCHANGED <<bag, reports>>
      /\ Takes(n, i) /\ RequestCorpus(n) /\ Uses(i, "dag_corpus") /\ i \notin Smoke
  BY DEF RunWithDagCorpus, Takes, collection, Uses
<1>1. /\ Together' /\ CollectedOnce'
      /\ ranOn' \in [Items -> Nodes \cup {Nowhere}]
      /\ \A j \in Items : Ran(j)' <=> Ran(j) \/ j = i
  BY <1>0, TakenTogether
<1>2. /\ held' \subseteq Nodes /\ Holders' /\ CorpusRight' /\ ExtraParseAnnounced'
      /\ corpus' # NoCorpus
      /\ corpus # NoCorpus => corpus' = corpus
  BY <1>0, RequestServed
<1>3. CatalogTypeOK'
  BY <1>0, <1>1, <1>2 DEF CatalogInv, CatalogTypeOK
<1>4. Reported'
  <2>1. \A c \in Smoke : Ran(c)' => Ran(c)
    BY <1>0, <1>1 DEF Items
  <2>2. \A c, x : CheckFindings(c, x)' = CheckFindings(c, x)
    BY <1>0, SettledByCollection
  <2>. QED BY <2>1, <2>2, <1>0, <1>2 DEF CatalogInv, Reported
<1>. QED BY <1>1, <1>2, <1>3, <1>4 DEF CatalogInv

LEMMA RunCheckInv ==
  ASSUME CatalogInv, NEW n \in Nodes, NEW i \in items, RunCheck(n, i)
  PROVE  CatalogInv'
<1>0. /\ UNCHANGED <<session, collection>> /\ items' = items /\ phase' = phase
      /\ requested' = requested /\ warned' = warned /\ UNCHANGED bag
      /\ Takes(n, i) /\ RequestCorpus(n) /\ i \in Smoke
      /\ reports' = [reports EXCEPT ![i] = CheckFindings(i, corpus')]
  BY DEF RunCheck, Takes, collection
<1>1. /\ Together' /\ CollectedOnce'
      /\ ranOn' \in [Items -> Nodes \cup {Nowhere}]
      /\ \A j \in Items : Ran(j)' <=> Ran(j) \/ j = i
  BY <1>0, TakenTogether
<1>2. /\ held' \subseteq Nodes /\ Holders' /\ CorpusRight' /\ ExtraParseAnnounced'
      /\ corpus' # NoCorpus
      /\ corpus # NoCorpus => corpus' = corpus
  BY <1>0, RequestServed
<1>3. CheckFindings(i, corpus') \subseteq Dags
  BY FindingsAreDags DEF CatalogInv
<1>4. reports \in [Smoke -> SUBSET Dags] /\ reports' \in [Smoke -> SUBSET Dags]
  BY <1>0, <1>3 DEF CatalogInv, CatalogTypeOK
<1>5. CatalogTypeOK'
  BY <1>0, <1>1, <1>2, <1>4 DEF CatalogInv, CatalogTypeOK
<1>6. Reported'
  <2>1. \A c \in Smoke : Ran(c)' => Ran(c) \/ c = i
    BY <1>1 DEF Items
  <2>2. \A c, x : CheckFindings(c, x)' = CheckFindings(c, x)
    BY <1>0, SettledByCollection
  <2>3. ASSUME NEW c \in Smoke, Ran(c)' PROVE reports'[c] = CheckFindings(c, corpus')
    <3>1. CASE c = i
      BY <3>1, <1>0, <1>4
    <3>2. CASE c # i
      <4>1. corpus # NoCorpus /\ reports[c] = CheckFindings(c, corpus)
        BY <2>1, <2>3, <3>2 DEF CatalogInv, Reported
      <4>. QED BY <4>1, <3>2, <1>0, <1>2, <1>4
    <3>. QED BY <3>1, <3>2
  <2>. QED BY <2>2, <2>3, <1>2 DEF Reported
<1>. QED BY <1>1, <1>2, <1>5, <1>6 DEF CatalogInv

LEMMA CatalogNextInv == CatalogInv /\ [CatalogNext]_catalogVars => CatalogInv'
<1>. SUFFICES ASSUME CatalogInv, [CatalogNext]_catalogVars PROVE CatalogInv'
  OBVIOUS
<1>1. CASE UNCHANGED catalogVars
  <2>1. /\ UNCHANGED <<session, collection, ranOn, bag, corpus, held, reports>>
        /\ UNCHANGED <<session, items, group, requested, warned, phase>>
    BY <1>1 DEF catalogVars, collection
  <2>2. /\ \A i, fixture : Uses(i, fixture)' <=> Uses(i, fixture)
        /\ \A i : Fate(i)' = Fate(i) /\ (Eligible(i)' <=> Eligible(i)) /\ (Ran(i)' <=> Ran(i))
    BY <2>1 DEF Uses, Fate, Eligible, Ran, options
  <2>3. CollectedOnce' /\ CatalogTypeOK'
    BY <2>1, SettledByCollection DEF CatalogInv, CatalogTypeOK
  <2>4. Together' /\ Holders'
    BY <2>1, <2>2, SettledByCollection DEF CatalogInv, Together, Holders
  <2>5. CorpusRight' /\ Reported'
    BY <2>1, <2>2, SettledByCollection DEF CatalogInv, CorpusRight, Reported
  <2>6. ExtraParseAnnounced'
    BY <2>1, <2>2 DEF CatalogInv, ExtraParseAnnounced
  <2>. QED BY <2>3, <2>4, <2>5, <2>6 DEF CatalogInv
<1>. QED BY <1>1, CollectInv, UsageErrorInv, RunBagInv, RunCorpusInv, RunCheckInv
         DEF CatalogNext, Run

-----------------------------------------------------------------------------
(* The theorems *)

\* The inductive invariant of the catalog, for every collection of tests, sessions
\* and numbers of nodes.
THEOREM CatalogInvariant == CatalogSpec => []CatalogInv
  BY CatalogInitInv, CatalogNextInv, PTL DEF CatalogSpec

\* The corpus is held by one worker at most under --dist loadgroup, and a second parse of
\* the Dag folder for the catalog is one that was announced (smoke.py,
\* _colocate_dag_corpus_consumers and _colocate_smoke_catalog_with_dag_bag).
THEOREM CorpusIsShared == CatalogSpec => []CorpusShared
<1>1. CatalogInv => CorpusShared
  BY HeldOnce DEF CatalogInv, CorpusShared
<1>. QED BY <1>1, CatalogInvariant, PTL

\* Every consumer is served by the corpus there is, and the checks together report
\* what they look for.
THEOREM ChecksAreServed == CatalogSpec => []ChecksServed
<1>1. CatalogInv => ChecksServed
  BY ConsumersAreServed, ReportsAreComplete DEF CatalogInv, ChecksServed
<1>. QED BY <1>1, CatalogInvariant, PTL

-----------------------------------------------------------------------------
(***************************************************************************)
(* VersionInflation                                                        *)
(*                                                                         *)
(* What really varies the visitor believes to vary, and a function with an *)
(* argument that varies has a line among its own that is reported already  *)
(* or will be when it is called, for Dag files of every length and depth.  *)
(***************************************************************************)

Blocks == [kind : {"for", "with", "def"}, name : Names \cup LoopNames \cup Functions,
           outer : BOOLEAN \cup SUBSET (Names \cup LoopNames)]

\* The names of the loops open among the first n blocks of s.
OpenLoops(s, n) == {s[i].name : i \in {j \in 1..n : s[j].kind = "for"}}

\* A list of open blocks, when the names of v are believed to vary.
Nested(s, v) ==
  /\ s \in Seq(Blocks)
  /\ \A i \in 1..Len(s) : s[i].kind = "for" => s[i].name \in LoopNames
  /\ \A i, j \in 1..Len(s) : i < j /\ s[j].kind = "for" => s[i].name # s[j].name
  /\ \A i, j \in 1..Len(s) : s[i].kind = "with" /\ s[j].kind = "with" => i = j
  /\ \A i \in 1..Len(s) : s[i].kind = "def" =>
       /\ s[i].name \in Functions
       /\ s[i].outer \subseteq v
       /\ s[i].outer \subseteq Names \cup OpenLoops(s, i)

\* A line of the function is reported, or the one to be.
Covered(f) == \E l \in built[f] : l \in findings \/ l = deferred[f]

Accounted ==
  /\ owing \subseteq Functions /\ built \in [Functions -> SUBSET (Nat \ {0})]
  /\ \A f \in owing : Covered(f)
  /\ \A lines \in owed : lines \cap findings # {}

Believed == moving \subseteq varying /\ moving \subseteq Names \cup OpenLoops(blocks, Len(blocks))

SourceInv ==
  /\ SourceTypeOK /\ line \in Nat \ {0}
  /\ Nested(blocks, varying)
  /\ Believed
  /\ inDag <=> Open("with")
  /\ factory = None \/ factory = Function
  /\ Accounted

-----------------------------------------------------------------------------
(* The innermost function *)

LEMMA GreatestOf ==
  ASSUME NEW n \in Nat, NEW S \in SUBSET (1..n), S # {}
  PROVE  \E i \in S : \A j \in S : j <= i
<1>. DEFINE T == {n - i : i \in S}
<1>0. \A i \in S : i \in Nat /\ i <= n
  OBVIOUS
<1>00. \A i \in S : n - i \in Nat
  BY <1>0
<1>1. T \subseteq Nat /\ T # {}
  BY <1>00
<1>2. PICK x \in T : \A y \in T : x <= y
  BY <1>1, LeastNat
<1>3. PICK i \in S : x = n - i
  BY <1>2
<1>4. \A j \in S : n - i <= n - j
  BY <1>2, <1>3
<1>5. i \in Nat
  BY <1>0
<1>. QED BY <1>0, <1>4, <1>5

\* The i-th block is the innermost definition.
DefAt(s, i) ==
  i \in 1..Len(s) /\ s[i].kind = "def" /\ \A j \in 1..Len(s) : s[j].kind = "def" => j <= i

NoDef(s) == \A i \in 1..Len(s) : s[i].kind # "def"

LEMMA FunctionIs ==
  blocks \in Seq(Blocks) =>
    /\ NoDef(blocks) => Function = None
    /\ \A i : DefAt(blocks, i) => Function = blocks[i].name
    /\ NoDef(blocks) \/ \E i : DefAt(blocks, i)
<1>. SUFFICES ASSUME blocks \in Seq(Blocks)
              PROVE  /\ NoDef(blocks) => Function = None
                     /\ \A i : DefAt(blocks, i) => Function = blocks[i].name
                     /\ NoDef(blocks) \/ \E i : DefAt(blocks, i)
  OBVIOUS
<1>. DEFINE defs == {i \in DOMAIN blocks : blocks[i].kind = "def"}
            top == CHOOSE i \in defs : \A j \in defs : j <= i
<1>1. DOMAIN blocks = 1..Len(blocks) /\ Len(blocks) \in Nat
  OBVIOUS
<1>2. NoDef(blocks) <=> defs = {}
  BY <1>1 DEF NoDef
<1>3. \A i : DefAt(blocks, i) <=> i \in defs /\ \A j \in defs : j <= i
  BY <1>1 DEF DefAt
<1>4. defs # {} => \E i \in defs : \A j \in defs : j <= i
  BY <1>1, GreatestOf
<1>5. Function = IF defs = {} THEN None ELSE blocks[top].name
  BY DEF Function
<1>6. \A i : DefAt(blocks, i) => i = top
  <2>. SUFFICES ASSUME NEW i, DefAt(blocks, i) PROVE i = top
    OBVIOUS
  <2>1. top \in defs /\ \A j \in defs : j <= top
    BY <1>3
  <2>2. i \in Nat /\ top \in Nat /\ i <= top /\ top <= i
    BY <1>1, <1>3, <2>1
  <2>. QED BY <2>2
<1>. QED BY <1>2, <1>3, <1>4, <1>5, <1>6

LEMMA FunctionTyped ==
  ASSUME SourceInv
  PROVE  Function \in Functions \cup {None}
BY FunctionIs DEF SourceInv, Nested, DefAt

-----------------------------------------------------------------------------
(* Entering and leaving blocks *)

LEMMA Entered ==
  ASSUME NEW s, NEW v, Nested(s, v), NEW w, v \subseteq w, NEW b \in Blocks,
         b.kind = "for" => b.name \in LoopNames /\ \A i \in 1..Len(s) : s[i].name # b.name,
         b.kind = "with" => \A i \in 1..Len(s) : s[i].kind # "with",
         b.kind = "def" => /\ b.name \in Functions /\ b.outer \subseteq w
                           /\ b.outer \subseteq Names \cup OpenLoops(s, Len(s))
  PROVE  LET t == Append(s, b) IN
         /\ Nested(t, w) /\ Len(t) = Len(s) + 1 /\ t[Len(t)] = b
         /\ \A i \in 1..Len(s) : t[i] = s[i]
         /\ OpenLoops(s, Len(s)) \subseteq OpenLoops(t, Len(t))
         /\ b.kind = "for" => b.name \in OpenLoops(t, Len(t))
<1>. DEFINE t == Append(s, b)
            n == Len(s)
<1>1. s \in Seq(Blocks) /\ n \in Nat
  BY DEF Nested
<1>2. t \in Seq(Blocks) /\ Len(t) = n + 1 /\ t[n + 1] = b /\ \A i \in 1..n : t[i] = s[i]
  BY <1>1
<1>. HIDE DEF t, n
<1>3. \A k \in 0..n : OpenLoops(t, k) = OpenLoops(s, k)
  BY <1>1, <1>2 DEF OpenLoops
<1>4. OpenLoops(s, n) \subseteq OpenLoops(t, n + 1)
  BY <1>1, <1>2 DEF OpenLoops
<1>5. OpenLoops(s, n) \subseteq OpenLoops(t, n + 1) /\ (b.kind = "for" => b.name \in OpenLoops(t, n + 1))
  BY <1>1, <1>2, <1>4 DEF OpenLoops
<1>6. \A i \in 1..n + 1 : i \in 1..n \/ i = n + 1
  BY <1>1
<1>7. \A i \in 1..Len(t) : t[i].kind = "for" => t[i].name \in LoopNames
  BY <1>2, <1>6 DEF Nested, n
<1>8. \A i, j \in 1..Len(t) : i < j /\ t[j].kind = "for" => t[i].name # t[j].name
  <2>. SUFFICES ASSUME NEW i \in 1..Len(t), NEW j \in 1..Len(t), i < j, t[j].kind = "for"
                PROVE  t[i].name # t[j].name
    OBVIOUS
  <2>1. i \in 1..n
    BY <1>1, <1>2
  <2>. QED BY <2>1, <1>1, <1>2, <1>6 DEF Nested, n
<1>9. \A i, j \in 1..Len(t) : t[i].kind = "with" /\ t[j].kind = "with" => i = j
  BY <1>2, <1>6 DEF Nested, n
<1>10. ASSUME NEW i \in 1..Len(t), t[i].kind = "def"
       PROVE  /\ t[i].name \in Functions
              /\ t[i].outer \subseteq w
              /\ t[i].outer \subseteq Names \cup OpenLoops(t, i)
  <2>1. CASE i \in 1..n
    <3>1. OpenLoops(t, i) = OpenLoops(s, i) /\ t[i] = s[i]
      BY <1>1, <1>2, <1>3, <2>1
    <3>. QED BY <3>1, <2>1, <1>10 DEF Nested, n
  <2>2. CASE i = n + 1
    BY <1>2, <1>5, <1>10, <2>2 DEF n
  <2>. QED BY <2>1, <2>2, <1>2, <1>6
<1>11. Nested(t, w)
  BY <1>2, <1>7, <1>8, <1>9, <1>10 DEF Nested
<1>. QED BY <1>2, <1>4, <1>5, <1>11 DEF t, n

LEMMA Left ==
  ASSUME NEW s, NEW v, Nested(s, v), s # <<>>, NEW w,
         v \subseteq w \/ (s[Len(s)].kind = "for" /\ v \ {s[Len(s)].name} \subseteq w)
  PROVE  LET t == Front(s) IN
         /\ Nested(t, w) /\ Len(s) = Len(t) + 1 /\ Len(t) \in Nat
         /\ \A i \in 1..Len(t) : t[i] = s[i]
         /\ OpenLoops(s, Len(s)) \subseteq OpenLoops(t, Len(t)) \cup {s[Len(s)].name}
         /\ s[Len(s)].kind # "for" => OpenLoops(s, Len(s)) = OpenLoops(t, Len(t))
<1>. DEFINE t == Front(s)
<1>0. s \in Seq(Blocks) /\ Len(s) \in Nat \ {0}
  BY DEF Nested
<1>1. PICK n \in Nat : n = Len(s) - 1 /\ Len(s) = n + 1 /\ s \in Seq(Blocks)
  BY <1>0
<1>2. t = SubSeq(s, 1, n)
  BY <1>1 DEF Front
<1>3. t \in Seq(Blocks) /\ Len(t) = n /\ \A i \in 1..n : t[i] = s[i]
  BY <1>1, <1>2
<1>. HIDE DEF t
<1>. DEFINE b == s[n + 1]
<1>4. \A k \in 0..n : OpenLoops(t, k) = OpenLoops(s, k)
  <2>. SUFFICES ASSUME NEW k \in 0..n PROVE OpenLoops(t, k) = OpenLoops(s, k)
    OBVIOUS
  <2>1. \A i \in 1..k : t[i] = s[i]
    BY <1>3
  <2>. QED BY <2>1 DEF OpenLoops
<1>5. \A i \in 1..n + 1 : i \in 1..n \/ i = n + 1
  BY <1>1
<1>6. /\ OpenLoops(s, n + 1) \subseteq OpenLoops(t, n) \cup {b.name}
      /\ b.kind # "for" => OpenLoops(s, n + 1) = OpenLoops(t, n)
  BY <1>1, <1>3, <1>5 DEF OpenLoops
<1>7. \A i \in 1..n : i \in 1..n + 1 /\ i < n + 1
  BY <1>1
<1>8. ASSUME NEW i \in 1..n, s[i].kind = "def"
      PROVE  /\ s[i].name \in Functions /\ s[i].outer \subseteq w
             /\ s[i].outer \subseteq Names \cup OpenLoops(t, i)
  <2>1. s[i].name \in Functions /\ s[i].outer \subseteq v /\ s[i].outer \subseteq Names \cup OpenLoops(s, i)
    BY <1>1, <1>7, <1>8 DEF Nested
  <2>2. OpenLoops(t, i) = OpenLoops(s, i)
    BY <1>4
  <2>3. CASE v \subseteq w
    BY <2>1, <2>2, <2>3
  <2>4. CASE b.kind = "for" /\ v \ {b.name} \subseteq w
    <3>1. b.name \in LoopNames /\ b.name \notin Names
      BY <1>1, <2>4, ScopesApart DEF Nested
    <3>2. \A j \in 1..i : j \in 1..Len(s) /\ n + 1 \in 1..Len(s) /\ j < n + 1
      BY <1>1
    <3>3. \A j \in 1..i : s[j].name # b.name
      BY <1>1, <2>4, <3>2 DEF Nested
    <3>4. b.name \notin OpenLoops(s, i)
      BY <3>3 DEF OpenLoops
    <3>. QED BY <2>1, <2>2, <2>4, <3>1, <3>4
  <2>. QED BY <2>3, <2>4, <1>1
<1>9. Nested(t, w)
  <2>1. \A i \in 1..Len(t) : t[i].kind = "for" => t[i].name \in LoopNames
    BY <1>1, <1>3, <1>7 DEF Nested
  <2>2. \A i, j \in 1..Len(t) : i < j /\ t[j].kind = "for" => t[i].name # t[j].name
    BY <1>1, <1>3, <1>7 DEF Nested
  <2>3. \A i, j \in 1..Len(t) : t[i].kind = "with" /\ t[j].kind = "with" => i = j
    BY <1>1, <1>3, <1>7 DEF Nested
  <2>. QED BY <2>1, <2>2, <2>3, <1>3, <1>8 DEF Nested
<1>. QED BY <1>1, <1>3, <1>6, <1>9 DEF t

-----------------------------------------------------------------------------
(* The statements *)

\* What Record and Built do together.
LEMMA RecordedIs ==
  ASSUME SourceInv, line <= MaxLines, NEW x, Record(x), Built({line}, Moves(x))
  PROVE  Accounted' /\ deferred' \in [Functions -> 0..MaxLines] /\ findings' \subseteq 1..MaxLines
<1>1. /\ line \in Nat \ {0} /\ owing \subseteq Functions /\ built \in [Functions -> SUBSET (Nat \ {0})]
      /\ deferred \in [Functions -> 0..MaxLines] /\ findings \subseteq 1..MaxLines
      /\ \A f \in owing : Covered(f)
      /\ \A lines \in owed : lines \cap findings # {}
      /\ factory = None \/ factory = Function
      /\ MaxLines \in Nat
  BY ScopesApart DEF SourceInv, SourceTypeOK, Accounted
<1>2. Moves(x) => Varies(x)
  BY DEF SourceInv, Believed, Moves, Varies, CallsClock
<1>3. line \in 1..MaxLines
  BY <1>1
<1>4. /\ findings \subseteq findings' /\ findings' \subseteq 1..MaxLines
      /\ deferred' \in [Functions -> 0..MaxLines]
  <2>1. line \in 0..MaxLines
    BY <1>3
  <2>2. findings \subseteq findings' /\ findings' \subseteq 1..MaxLines
    BY <1>1, <1>3 DEF Record
  <2>3. deferred' = deferred \/ deferred' = [deferred EXCEPT ![factory] = line]
    BY DEF Record
  <2>. QED BY <1>1, <2>1, <2>2, <2>3
<1>5. CASE Function = None
  <2>1. /\ owed' = IF Moves(x) THEN owed \cup {{line}} ELSE owed
        /\ owing' = owing /\ built' = built /\ deferred' = deferred
        /\ Varies(x) => line \in findings'
    BY <1>1, <1>5 DEF Built, Record
  <2>2. \A f \in owing' : (\E l \in built'[f] : l \in findings' \/ l = deferred'[f])
    BY <1>1, <1>4, <2>1 DEF Covered
  <2>3. \A lines \in owed' : lines \cap findings' # {}
    BY <1>1, <1>2, <1>4, <2>1
  <2>. QED BY <1>1, <1>4, <2>1, <2>2, <2>3 DEF Accounted, Covered
<1>6. CASE Function # None
  <2>. DEFINE F == Function
  <2>1. F \in Functions
    BY <1>6, FunctionTyped
  <2>2. /\ built' = [built EXCEPT ![F] = built[F] \cup {line}]
        /\ owing' = IF Moves(x) THEN owing \cup {F} ELSE owing
        /\ owed' = owed
    BY <1>6 DEF Built
  <2>3. /\ factory = None => deferred' = deferred /\ (Varies(x) => line \in findings')
        /\ factory = F => deferred' = IF Varies(x) THEN [deferred EXCEPT ![F] = line] ELSE deferred
    BY <1>6 DEF Record
  <2>. HIDE DEF F
  <2>4. built' \in [Functions -> SUBSET (Nat \ {0})] /\ owing' \subseteq Functions
    BY <1>1, <2>1, <2>2
  <2>5. \A f \in Functions \ {F} : built'[f] = built[f] /\ deferred'[f] = deferred[f]
    BY <1>1, <2>1, <2>2, <2>3 DEF F
  <2>6. built'[F] = built[F] \cup {line}
    BY <1>1, <2>1, <2>2
  <2>7. \A f \in owing' : (\E l \in built'[f] : l \in findings' \/ l = deferred'[f])
    <3>1. ASSUME NEW f \in owing', f # F PROVE \E l \in built'[f] : l \in findings' \/ l = deferred'[f]
      BY <1>1, <1>4, <2>2, <2>5, <3>1 DEF Covered
    <3>2. CASE Varies(x)
      <4>1. line \in findings' \/ line = deferred'[F]
        BY <1>1, <2>1, <2>3, <3>2 DEF F
      <4>. QED BY <3>1, <4>1, <2>6
    <3>3. CASE ~Varies(x)
      <4>1. deferred' = deferred /\ owing' = owing
        BY <1>1, <1>2, <2>2, <2>3, <3>3 DEF F
      <4>. QED BY <3>1, <4>1, <1>1, <1>4, <2>6 DEF Covered
    <3>. QED BY <3>2, <3>3
  <2>8. \A lines \in owed' : lines \cap findings' # {}
    BY <1>1, <1>4, <2>2
  <2>. QED BY <1>4, <2>4, <2>7, <2>8 DEF Accounted, Covered
<1>. QED BY <1>5, <1>6

LEMMA NothingRecorded ==
  ASSUME SourceInv, UNCHANGED <<deferred, findings, owing, built, owed>>
  PROVE  Accounted' /\ deferred' \in [Functions -> 0..MaxLines] /\ findings' \subseteq 1..MaxLines
BY DEF SourceInv, SourceTypeOK, Accounted, Covered

\* A statement that opens and closes no block.
LEMMA FlatStep ==
  ASSUME SourceInv, Statement, UNCHANGED <<blocks, inDag, factory>>, varying \subseteq varying',
         varying' \subseteq Names \cup LoopNames, dags' \subseteq Names,
         moving' \subseteq varying', moving' \subseteq moving \cup Names,
         Accounted', deferred' \in [Functions -> 0..MaxLines], findings' \subseteq 1..MaxLines
  PROVE  SourceInv'
<1>1. SourceTypeOK' /\ line' \in Nat \ {0}
  BY DEF SourceInv, SourceTypeOK, Statement
<1>2. Nested(blocks, varying)'
  BY DEF SourceInv, Nested
<1>3. Believed'
  BY DEF SourceInv, Believed
<1>4. (inDag <=> Open("with"))'
  BY DEF SourceInv, Open
<1>5. (factory = None \/ factory = Function)'
  BY DEF SourceInv, Function
<1>. QED BY <1>1, <1>2, <1>3, <1>4, <1>5 DEF SourceInv

LEMMA FunctionIsNext ==
  ASSUME (blocks \in Seq(Blocks))'
  PROVE  /\ NoDef(blocks') => Function' = None
         /\ \A i : DefAt(blocks', i) => Function' = blocks'[i].name
         /\ NoDef(blocks') \/ \E i : DefAt(blocks', i)
<1>1. (blocks \in Seq(Blocks) =>
         /\ NoDef(blocks) => Function = None
         /\ \A i : DefAt(blocks, i) => Function = blocks[i].name
         /\ NoDef(blocks) \/ \E i : DefAt(blocks, i))'
  BY FunctionIs, PTL
<1>. QED BY <1>1

\* A block that is no definition changes nothing about whose body a line is in.
LEMMA FunctionKept ==
  ASSUME blocks \in Seq(Blocks), blocks' \in Seq(Blocks),
         \/ /\ Len(blocks') = Len(blocks) + 1
            /\ \A i \in 1..Len(blocks) : blocks'[i] = blocks[i]
            /\ blocks'[Len(blocks')].kind # "def"
         \/ /\ Len(blocks) = Len(blocks') + 1
            /\ \A i \in 1..Len(blocks') : blocks'[i] = blocks[i]
            /\ blocks[Len(blocks)].kind # "def"
  PROVE  Function' = Function
<1>1. Len(blocks) \in Nat /\ Len(blocks') \in Nat
  OBVIOUS
<1>2. NoDef(blocks) => NoDef(blocks')
  BY <1>1 DEF NoDef
<1>3. \A i : DefAt(blocks, i) => DefAt(blocks', i) /\ blocks'[i] = blocks[i]
  BY <1>1 DEF DefAt
<1>. QED BY <1>2, <1>3, FunctionIs, FunctionIsNext

LEMMA FlatSteps ==
  ASSUME SourceInv, NEW x \in Readable,
         \/ \E n \in Names : Assign(n, x) \/ BuildDag(n, x)
         \/ \E named \in BOOLEAN, d \in dags \cup {None} : BuildTask(named, d, x)
         \/ DefineTask(x)
  PROVE  SourceInv'
<1>1. /\ varying \subseteq Names \cup LoopNames /\ dags \subseteq Names /\ moving \subseteq varying
      /\ (inDag <=> Open("with"))
  BY DEF SourceInv, SourceTypeOK, Believed
<1>2. Moves(x) => Varies(x)
  BY <1>1 DEF Moves, Varies, CallsClock
<1>3. ASSUME NEW n \in Names, Assign(n, x) PROVE SourceInv'
  <2>1. /\ Statement /\ UNCHANGED <<blocks, inDag, factory, dags>>
        /\ UNCHANGED <<deferred, findings, owing, built, owed>>
    BY <1>3 DEF Assign
  <2>2. /\ varying \subseteq varying' /\ varying' \subseteq Names \cup LoopNames
        /\ moving' \subseteq varying' /\ moving' \subseteq moving \cup Names
    BY <1>1, <1>2, <1>3 DEF Assign
  <2>. QED BY <1>1, <2>1, <2>2, NothingRecorded, FlatStep
<1>4. ASSUME NEW n \in Names, BuildDag(n, x) PROVE SourceInv'
  <2>1. /\ Statement /\ line <= MaxLines /\ Record(x) /\ Built({line}, Moves(x))
        /\ UNCHANGED <<blocks, inDag, factory, varying>>
        /\ dags' \subseteq Names /\ moving' \subseteq moving
    BY <1>1, <1>4 DEF BuildDag, Statement
  <2>. QED BY <1>1, <2>1, RecordedIs, FlatStep
<1>5. ASSUME DefineTask(x) PROVE SourceInv'
  <2>1. /\ Statement /\ line <= MaxLines /\ Record(x) /\ Built({line}, Moves(x))
        /\ UNCHANGED <<blocks, inDag, factory, varying, dags, moving>>
    BY <1>5 DEF DefineTask, Statement
  <2>. QED BY <1>1, <2>1, RecordedIs, FlatStep
<1>6. ASSUME NEW named \in BOOLEAN, NEW d \in dags \cup {None}, BuildTask(named, d, x) PROVE SourceInv'
  <2>1. /\ Statement /\ line <= MaxLines
        /\ UNCHANGED <<blocks, inDag, factory, varying, dags, moving>>
    BY <1>6 DEF BuildTask, Statement
  <2>2. IsTask(named, d) <=> (d # None \/ (named /\ Open("with")))
    BY <1>1, ScopesApart DEF IsTask
  <2>3. CASE IsTask(named, d)
    <3>1. Record(x) /\ Built({line}, Moves(x))
      BY <1>6, <2>2, <2>3 DEF BuildTask
    <3>. QED BY <1>1, <2>1, <3>1, RecordedIs, FlatStep
  <2>4. CASE ~IsTask(named, d)
    <3>1. UNCHANGED <<deferred, findings, owing, built, owed>>
      BY <1>6, <2>2, <2>4 DEF BuildTask, RecordNothing
    <3>. QED BY <1>1, <2>1, <3>1, NothingRecorded, FlatStep
  <2>. QED BY <2>3, <2>4
<1>. QED BY <1>3, <1>4, <1>5, <1>6

LEMMA CallFactoryStep ==
  ASSUME SourceInv, NEW g \in Functions, CallFactory(g)
  PROVE  SourceInv'
<1>1. /\ Statement /\ UNCHANGED <<blocks, varying, dags, inDag, factory, deferred, moving>>
      /\ findings' = IF deferred[g] = 0 THEN findings ELSE findings \cup {deferred[g]}
      /\ Built(built[g], g \in owing)
  BY DEF CallFactory
<1>2. /\ owing \subseteq Functions /\ built \in [Functions -> SUBSET (Nat \ {0})]
      /\ deferred \in [Functions -> 0..MaxLines] /\ findings \subseteq 1..MaxLines
      /\ \A f \in owing : Covered(f)
      /\ \A lines \in owed : lines \cap findings # {}
      /\ varying \subseteq Names \cup LoopNames /\ dags \subseteq Names /\ moving \subseteq varying
      /\ MaxLines \in Nat
  BY ScopesApart DEF SourceInv, SourceTypeOK, Accounted, Believed
<1>3. findings \subseteq findings' /\ findings' \subseteq 1..MaxLines
  <2>1. deferred[g] \in 0..MaxLines
    BY <1>2
  <2>2. deferred[g] # 0 => deferred[g] \in 1..MaxLines
    BY <2>1, <1>2
  <2>. QED BY <1>1, <1>2, <2>2
<1>4. g \in owing => built[g] \cap findings' # {}
  BY <1>1, <1>2 DEF Covered
<1>5. CASE Function = None
  <2>1. /\ owed' = IF g \in owing THEN owed \cup {built[g]} ELSE owed
        /\ owing' = owing /\ built' = built
    BY <1>1, <1>5 DEF Built
  <2>2. \A f \in owing' : (\E l \in built'[f] : l \in findings' \/ l = deferred'[f])
    BY <1>1, <1>2, <1>3, <2>1 DEF Covered
  <2>3. \A lines \in owed' : lines \cap findings' # {}
    BY <1>2, <1>3, <1>4, <2>1
  <2>4. Accounted'
    BY <1>2, <2>1, <2>2, <2>3 DEF Accounted, Covered
  <2>. QED BY <1>1, <1>2, <1>3, <2>4, FlatStep
<1>6. CASE Function # None
  <2>. DEFINE F == Function
  <2>1. F \in Functions
    BY <1>6, FunctionTyped
  <2>2. /\ built' = [built EXCEPT ![F] = built[F] \cup built[g]]
        /\ owing' = IF g \in owing THEN owing \cup {F} ELSE owing
        /\ owed' = owed
    BY <1>1, <1>6 DEF Built
  <2>. HIDE DEF F
  <2>3. built' \in [Functions -> SUBSET (Nat \ {0})] /\ owing' \subseteq Functions
    BY <1>2, <2>1, <2>2
  <2>4. \A f \in Functions : built[f] \subseteq built'[f]
    BY <1>2, <2>1, <2>2
  <2>5. built[g] \subseteq built'[F]
    BY <1>2, <2>1, <2>2
  <2>6. \A f \in owing' : (\E l \in built'[f] : l \in findings' \/ l = deferred'[f])
    <3>1. ASSUME NEW f \in owing PROVE \E l \in built'[f] : l \in findings' \/ l = deferred'[f]
      BY <1>1, <1>2, <1>3, <2>4 DEF Covered
    <3>2. g \in owing => \E l \in built'[F] : l \in findings'
      BY <1>4, <2>5
    <3>. QED BY <2>2, <3>1, <3>2
  <2>7. \A lines \in owed' : lines \cap findings' # {}
    BY <1>2, <1>3, <2>2
  <2>8. Accounted'
    BY <2>3, <2>6, <2>7 DEF Accounted, Covered
  <2>. QED BY <1>1, <1>2, <1>3, <2>8, FlatStep
<1>. QED BY <1>5, <1>6

-----------------------------------------------------------------------------
(* The blocks *)

LEMMA LoopStep ==
  ASSUME SourceInv, NEW n \in LoopNames, NEW x, Loop(n, x)
  PROVE  SourceInv'
<1>. DEFINE b == Block("for", n, Varies(x))
<1>1. /\ Statement /\ blocks' = Append(blocks, b) /\ \A i \in 1..Len(blocks) : blocks[i].name # n
      /\ varying' = IF Varies(x) THEN varying \cup {n} ELSE varying
      /\ moving' = IF Moves(x) THEN moving \cup {n} ELSE moving \ {n}
      /\ UNCHANGED <<dags, inDag, factory, deferred, findings, owing, built, owed>>
  BY DEF Loop, Enter, SourceInv, Nested
<1>2. /\ SourceTypeOK /\ line \in Nat \ {0} /\ Nested(blocks, varying) /\ blocks \in Seq(Blocks)
      /\ moving \subseteq varying /\ moving \subseteq Names \cup OpenLoops(blocks, Len(blocks))
  BY DEF SourceInv, Believed, Nested
<1>3. Moves(x) => Varies(x)
  BY <1>2 DEF Moves, Varies, CallsClock
<1>4. b \in Blocks /\ b.kind = "for" /\ b.name = n
  BY DEF Blocks, Block, Varies, CallsClock
<1>. HIDE DEF b
<1>5. varying \subseteq varying' /\ varying' \subseteq Names \cup LoopNames
  BY <1>1, <1>2 DEF SourceTypeOK
<1>. DEFINE t == Append(blocks, b)
<1>a. \A i \in 1..Len(blocks) : blocks[i].name # b.name
  BY <1>1, <1>4
<1>b. varying \subseteq varying' /\ b.name \in LoopNames /\ b.kind # "with" /\ b.kind # "def"
  BY <1>4, <1>5
<1>6. /\ Nested(t, varying') /\ Len(t) = Len(blocks) + 1 /\ t[Len(t)] = b
      /\ \A i \in 1..Len(blocks) : t[i] = blocks[i]
      /\ OpenLoops(blocks, Len(blocks)) \subseteq OpenLoops(t, Len(t))
      /\ b.name \in OpenLoops(t, Len(t))
  BY <1>2, <1>4, <1>a, <1>b, Entered
<1>c. n \in OpenLoops(t, Len(t))
  BY <1>4, <1>6
<1>. HIDE DEF t
<1>7. blocks' = t /\ t \in Seq(Blocks) /\ Len(blocks) \in Nat
  BY <1>1, <1>2, <1>6 DEF t, Nested
<1>8. SourceTypeOK' /\ line' \in Nat \ {0}
  BY <1>1, <1>2, <1>5 DEF SourceTypeOK, Statement
<1>9. Nested(blocks, varying)'
  BY <1>6, <1>7 DEF Nested
<1>10. Believed'
  <2>1. moving' \subseteq varying'
    BY <1>1, <1>2, <1>3
  <2>2. moving' \subseteq Names \cup OpenLoops(t, Len(t))
    BY <1>1, <1>2, <1>6, <1>c
  <2>. QED BY <2>1, <2>2, <1>7 DEF Believed
<1>11. (inDag <=> Open("with"))'
  <2>1. \A i \in 1..Len(t) : i \in 1..Len(blocks) \/ i = Len(t)
    BY <1>6, <1>7
  <2>2. (\E i \in 1..Len(t) : t[i].kind = "with") <=> (\E i \in 1..Len(blocks) : blocks[i].kind = "with")
    BY <1>4, <1>6, <1>7, <2>1
  <2>3. DOMAIN blocks = 1..Len(blocks) /\ DOMAIN t = 1..Len(t)
    BY <1>2, <1>7
  <2>4. Open("with")' <=> Open("with")
    BY <2>2, <2>3, <1>7 DEF Open
  <2>. QED BY <2>4, <1>1 DEF SourceInv
<1>12. (factory = None \/ factory = Function)'
  <2>1. Function' = Function
    BY <1>2, <1>4, <1>6, <1>7, FunctionKept
  <2>. QED BY <2>1, <1>1 DEF SourceInv
<1>13. Accounted'
  BY <1>1, NothingRecorded
<1>. QED BY <1>8, <1>9, <1>10, <1>11, <1>12, <1>13 DEF SourceInv

LEMMA WithDagStep ==
  ASSUME SourceInv, NEW n \in Names, NEW x, WithDag(n, x)
  PROVE  SourceInv'
<1>. DEFINE b == Block("with", n, FALSE)
<1>1. /\ Statement /\ line <= MaxLines /\ blocks' = Append(blocks, b) /\ ~Open("with")
      /\ Record(x) /\ Built({line}, Moves(x))
      /\ dags' = dags \cup {n} /\ inDag' = TRUE /\ moving' = moving \ {n}
      /\ UNCHANGED <<varying, factory>>
  BY DEF WithDag, Enter, Statement
<1>2. /\ SourceTypeOK /\ line \in Nat \ {0} /\ Nested(blocks, varying) /\ blocks \in Seq(Blocks)
      /\ moving \subseteq varying /\ moving \subseteq Names \cup OpenLoops(blocks, Len(blocks))
  BY DEF SourceInv, Believed, Nested
<1>3. \A i \in 1..Len(blocks) : blocks[i].kind # "with"
  BY <1>1, <1>2 DEF Open
<1>4. b \in Blocks /\ b.kind = "with"
  BY DEF Blocks, Block
<1>. HIDE DEF b
<1>. DEFINE t == Append(blocks, b)
<1>6. /\ Nested(t, varying) /\ Len(t) = Len(blocks) + 1 /\ t[Len(t)] = b
      /\ \A i \in 1..Len(blocks) : t[i] = blocks[i]
      /\ OpenLoops(blocks, Len(blocks)) \subseteq OpenLoops(t, Len(t))
  BY <1>2, <1>3, <1>4, Entered
<1>. HIDE DEF t
<1>7. blocks' = t /\ t \in Seq(Blocks) /\ Len(blocks) \in Nat
  BY <1>1, <1>2, <1>6 DEF t, Nested
<1>8. Accounted' /\ deferred' \in [Functions -> 0..MaxLines] /\ findings' \subseteq 1..MaxLines
  BY <1>1, RecordedIs
<1>9. SourceTypeOK' /\ line' \in Nat \ {0}
  BY <1>1, <1>2, <1>8 DEF SourceTypeOK, Statement
<1>10. Nested(blocks, varying)'
  BY <1>1, <1>6, <1>7 DEF Nested
<1>11. Believed'
  BY <1>1, <1>2, <1>6, <1>7 DEF Believed
<1>12. (inDag <=> Open("with"))'
  <2>1. Len(t) \in DOMAIN t
    BY <1>6, <1>7
  <2>2. Open("with")'
    BY <2>1, <1>4, <1>6, <1>7 DEF Open
  <2>. QED BY <2>2, <1>1
<1>13. (factory = None \/ factory = Function)'
  <2>1. Function' = Function
    BY <1>2, <1>4, <1>6, <1>7, FunctionKept
  <2>. QED BY <2>1, <1>1 DEF SourceInv
<1>. QED BY <1>8, <1>9, <1>10, <1>11, <1>12, <1>13 DEF SourceInv

\* What every end of a block does.
LEMMA LeftStep ==
  ASSUME SourceInv, NEW kind, Leave(kind),
         varying \subseteq varying' \/ (kind = "for" /\ varying \ {Last(blocks).name} \subseteq varying')
  PROVE  /\ blocks' = Front(blocks) /\ blocks \in Seq(Blocks) /\ blocks' \in Seq(Blocks)
         /\ Len(blocks) = Len(blocks') + 1 /\ Len(blocks') \in Nat
         /\ \A i \in 1..Len(blocks') : blocks'[i] = blocks[i]
         /\ blocks[Len(blocks)].kind = kind /\ Last(blocks) = blocks[Len(blocks)]
         /\ Nested(blocks, varying)'
         /\ OpenLoops(blocks, Len(blocks)) \subseteq OpenLoops(blocks', Len(blocks')) \cup {Last(blocks).name}
         /\ kind # "for" => OpenLoops(blocks, Len(blocks)) = OpenLoops(blocks', Len(blocks'))
         /\ kind # "def" => Function' = Function
         /\ Accounted' /\ deferred' \in [Functions -> 0..MaxLines] /\ findings' \subseteq 1..MaxLines
         /\ line' \in Nat \ {0}
<1>1. /\ blocks # <<>> /\ Last(blocks).kind = kind /\ blocks' = Front(blocks)
      /\ UNCHANGED <<line, deferred, findings, owing, built, owed>>
      /\ Nested(blocks, varying) /\ blocks \in Seq(Blocks) /\ line \in Nat \ {0}
  BY DEF Leave, SourceInv, Nested
<1>2. Last(blocks) = blocks[Len(blocks)]
  BY DEF Last
<1>. DEFINE t == Front(blocks)
<1>3. /\ Nested(t, varying') /\ Len(blocks) = Len(t) + 1 /\ Len(t) \in Nat
      /\ \A i \in 1..Len(t) : t[i] = blocks[i]
      /\ OpenLoops(blocks, Len(blocks)) \subseteq OpenLoops(t, Len(t)) \cup {blocks[Len(blocks)].name}
      /\ kind # "for" => OpenLoops(blocks, Len(blocks)) = OpenLoops(t, Len(t))
  BY <1>1, <1>2, Left
<1>. HIDE DEF t
<1>4. blocks' = t /\ t \in Seq(Blocks)
  BY <1>1, <1>3 DEF t, Nested
<1>5. kind # "def" => Function' = Function
  BY <1>1, <1>2, <1>3, <1>4, FunctionKept
<1>6. Accounted' /\ deferred' \in [Functions -> 0..MaxLines] /\ findings' \subseteq 1..MaxLines
  BY <1>1, NothingRecorded
<1>7. Nested(blocks, varying)'
  BY <1>3, <1>4 DEF Nested
<1>. QED BY <1>1, <1>2, <1>3, <1>4, <1>5, <1>6, <1>7

\* Unless the block left is a "with", there is one open afterwards if there was one before.
LEMMA StillInDag ==
  ASSUME blocks \in Seq(Blocks), blocks' \in Seq(Blocks), Len(blocks) = Len(blocks') + 1,
         \A i \in 1..Len(blocks') : blocks'[i] = blocks[i],
         blocks[Len(blocks)].kind # "with"
  PROVE  Open("with")' <=> Open("with")
<1>1. Len(blocks) \in Nat /\ Len(blocks') \in Nat
  OBVIOUS
<1>2. \A i \in 1..Len(blocks) : i \in 1..Len(blocks') \/ i = Len(blocks)
  BY <1>1
<1>3. DOMAIN blocks = 1..Len(blocks) /\ DOMAIN (blocks') = 1..Len(blocks')
  OBVIOUS
<1>4. (\E i \in 1..Len(blocks') : blocks'[i].kind = "with") <=> (\E i \in 1..Len(blocks) : blocks[i].kind = "with")
  BY <1>1, <1>2
<1>. QED BY <1>3, <1>4 DEF Open

LEMMA EndLoopStep == ASSUME SourceInv, EndLoop PROVE SourceInv'
<1>. DEFINE n == Last(blocks).name
<1>1. /\ Leave("for") /\ UNCHANGED <<dags, inDag, factory>>
      /\ varying' = IF Last(blocks).outer THEN varying \ {n} ELSE varying
      /\ moving' = moving \ {n}
      /\ moving \subseteq varying /\ moving \subseteq Names \cup OpenLoops(blocks, Len(blocks))
      /\ SourceTypeOK
  BY DEF EndLoop, SourceInv, Believed
<1>. HIDE DEF n
<1>2. varying \ {n} \subseteq varying' /\ varying' \subseteq varying
  BY <1>1
<1>3. /\ blocks \in Seq(Blocks) /\ blocks' \in Seq(Blocks)
      /\ Len(blocks) = Len(blocks') + 1 /\ Len(blocks') \in Nat
      /\ \A i \in 1..Len(blocks') : blocks'[i] = blocks[i]
      /\ blocks[Len(blocks)].kind = "for"
      /\ Nested(blocks, varying)'
      /\ OpenLoops(blocks, Len(blocks)) \subseteq OpenLoops(blocks', Len(blocks')) \cup {n}
      /\ Function' = Function
      /\ Accounted' /\ deferred' \in [Functions -> 0..MaxLines] /\ findings' \subseteq 1..MaxLines
      /\ line' \in Nat \ {0}
  BY <1>1, <1>2, LeftStep DEF n
<1>4. SourceTypeOK'
  BY <1>1, <1>2, <1>3 DEF SourceTypeOK
<1>5. Believed'
  <2>1. moving' \subseteq varying'
    BY <1>1, <1>2
  <2>2. moving' \subseteq Names \cup OpenLoops(blocks', Len(blocks'))
    BY <1>1, <1>3
  <2>. QED BY <2>1, <2>2 DEF Believed
<1>6. (inDag <=> Open("with"))'
  BY <1>1, <1>3, StillInDag DEF SourceInv
<1>7. (factory = None \/ factory = Function)'
  BY <1>1, <1>3 DEF SourceInv
<1>. QED BY <1>3, <1>4, <1>5, <1>6, <1>7 DEF SourceInv

LEMMA EndWithStep == ASSUME SourceInv, EndWith PROVE SourceInv'
<1>1. /\ Leave("with") /\ UNCHANGED <<varying, dags, factory, moving>> /\ inDag' = FALSE
      /\ moving \subseteq varying /\ moving \subseteq Names \cup OpenLoops(blocks, Len(blocks))
      /\ SourceTypeOK
  BY DEF EndWith, SourceInv, Believed
<1>2. varying \subseteq varying'
  BY <1>1
<1>3. /\ blocks \in Seq(Blocks) /\ blocks' \in Seq(Blocks)
      /\ Len(blocks) = Len(blocks') + 1 /\ Len(blocks') \in Nat
      /\ \A i \in 1..Len(blocks') : blocks'[i] = blocks[i]
      /\ blocks[Len(blocks)].kind = "with"
      /\ Nested(blocks, varying)'
      /\ OpenLoops(blocks, Len(blocks)) = OpenLoops(blocks', Len(blocks'))
      /\ Function' = Function
      /\ Accounted' /\ deferred' \in [Functions -> 0..MaxLines] /\ findings' \subseteq 1..MaxLines
      /\ line' \in Nat \ {0}
  BY <1>1, <1>2, LeftStep
<1>4. SourceTypeOK'
  BY <1>1, <1>3 DEF SourceTypeOK
<1>5. Believed'
  BY <1>1, <1>3 DEF Believed
<1>6. ~Open("with")'
  <2>1. \A i, j \in 1..Len(blocks) : blocks[i].kind = "with" /\ blocks[j].kind = "with" => i = j
    BY DEF SourceInv, Nested
  <2>2. \A i \in 1..Len(blocks') : i \in 1..Len(blocks) /\ Len(blocks) \in 1..Len(blocks) /\ i # Len(blocks)
    BY <1>3
  <2>3. \A i \in 1..Len(blocks') : blocks'[i].kind # "with"
    BY <1>3, <2>1, <2>2
  <2>4. DOMAIN (blocks') = 1..Len(blocks')
    BY <1>3
  <2>. QED BY <2>3, <2>4 DEF Open
<1>7. (factory = None \/ factory = Function)'
  BY <1>1, <1>3 DEF SourceInv
<1>8. (inDag <=> Open("with"))'
  BY <1>1, <1>6
<1>. QED BY <1>3, <1>4, <1>5, <1>7, <1>8 DEF SourceInv

LEMMA EndDefineStep == ASSUME SourceInv, EndDefine PROVE SourceInv'
<1>1. /\ Leave("def") /\ UNCHANGED <<varying, dags, inDag>> /\ factory' = None
      /\ moving' = Last(blocks).outer
      /\ SourceTypeOK /\ Nested(blocks, varying)
  BY DEF EndDefine, SourceInv
<1>2. varying \subseteq varying'
  BY <1>1
<1>3. /\ blocks \in Seq(Blocks) /\ blocks' \in Seq(Blocks)
      /\ Len(blocks) = Len(blocks') + 1 /\ Len(blocks') \in Nat
      /\ \A i \in 1..Len(blocks') : blocks'[i] = blocks[i]
      /\ blocks[Len(blocks)].kind = "def" /\ Last(blocks) = blocks[Len(blocks)]
      /\ Nested(blocks, varying)'
      /\ OpenLoops(blocks, Len(blocks)) = OpenLoops(blocks', Len(blocks'))
      /\ Accounted' /\ deferred' \in [Functions -> 0..MaxLines] /\ findings' \subseteq 1..MaxLines
      /\ line' \in Nat \ {0}
  BY <1>1, <1>2, LeftStep
<1>4. SourceTypeOK'
  BY <1>1, <1>3 DEF SourceTypeOK
<1>5. Believed'
  <2>1. Len(blocks) \in 1..Len(blocks)
    BY <1>3
  <2>2. moving' \subseteq varying /\ moving' \subseteq Names \cup OpenLoops(blocks, Len(blocks))
    BY <1>1, <1>3, <2>1 DEF Nested
  <2>. QED BY <1>1, <1>3, <2>2 DEF Believed
<1>6. (inDag <=> Open("with"))'
  BY <1>1, <1>3, StillInDag DEF SourceInv
<1>. QED BY <1>1, <1>3, <1>4, <1>5, <1>6 DEF SourceInv

LEMMA DefineStep ==
  ASSUME SourceInv, NEW f \in Functions, NEW x, Define(f, x)
  PROVE  SourceInv'
<1>. DEFINE b == Block("def", f, moving)
<1>1. /\ Statement /\ line <= MaxLines /\ blocks' = Append(blocks, b)
      /\ \A i \in DOMAIN blocks : blocks[i].name # f
      /\ Record(x) /\ factory' = f
      /\ UNCHANGED <<varying, dags, inDag, moving>>
  BY DEF Define, Enter, Statement
<1>2. /\ SourceTypeOK /\ line \in Nat \ {0} /\ Nested(blocks, varying) /\ blocks \in Seq(Blocks)
      /\ moving \subseteq varying /\ moving \subseteq Names \cup OpenLoops(blocks, Len(blocks))
      /\ moving \subseteq Names \cup LoopNames
      /\ factory = None \/ factory = Function
  BY DEF SourceInv, Believed, Nested, SourceTypeOK
<1>3. Moves(x) => Varies(x)
  BY <1>2 DEF Moves, Varies, CallsClock
<1>4. b \in Blocks /\ b.kind = "def" /\ b.name = f /\ b.outer = moving
  BY <1>2 DEF Blocks, Block
<1>. HIDE DEF b
<1>. DEFINE t == Append(blocks, b)
<1>5. /\ Nested(t, varying) /\ Len(t) = Len(blocks) + 1 /\ t[Len(t)] = b
      /\ \A i \in 1..Len(blocks) : t[i] = blocks[i]
      /\ OpenLoops(blocks, Len(blocks)) \subseteq OpenLoops(t, Len(t))
  <2>1. /\ varying \subseteq varying /\ b.kind # "for" /\ b.kind # "with" /\ b.name \in Functions
        /\ b.outer \subseteq varying /\ b.outer \subseteq Names \cup OpenLoops(blocks, Len(blocks))
    BY <1>2, <1>4
  <2>2. Nested(blocks, varying) /\ b \in Blocks
    BY <1>2, <1>4
  <2>. QED BY <2>1, <2>2, Entered
<1>. HIDE DEF t
<1>6. blocks' = t /\ t \in Seq(Blocks) /\ Len(blocks) \in Nat
  BY <1>1, <1>2, <1>5 DEF t, Nested
<1>7. Function # f
  <2>1. \A i : DefAt(blocks, i) => i \in DOMAIN blocks
    BY <1>2 DEF DefAt
  <2>. QED BY <1>1, <1>2, <2>1, FunctionIs, ScopesApart
<1>8. Function' = f
  <2>1. DefAt(t, Len(t))
    BY <1>4, <1>5, <1>6 DEF DefAt
  <2>. QED BY <2>1, <1>4, <1>5, <1>6, FunctionIsNext
<1>. DEFINE starts == [built EXCEPT ![f] = {}]
<1>9. IF Function = None
      THEN /\ owed' = IF Moves(x) THEN owed \cup {{line}} ELSE owed
           /\ owing' = owing \ {f} /\ built' = starts
      ELSE /\ built' = [starts EXCEPT ![Function] = @ \cup {line}]
           /\ owing' = IF Moves(x) THEN (owing \ {f}) \cup {Function} ELSE owing \ {f}
           /\ UNCHANGED owed
  BY DEF Define
<1>10. /\ owing \subseteq Functions /\ built \in [Functions -> SUBSET (Nat \ {0})]
       /\ deferred \in [Functions -> 0..MaxLines] /\ findings \subseteq 1..MaxLines
       /\ \A g \in owing : Covered(g)
       /\ \A lines \in owed : lines \cap findings # {}
       /\ MaxLines \in Nat /\ line \in 1..MaxLines
  BY <1>1, ScopesApart DEF SourceInv, SourceTypeOK, Accounted
<1>11. starts \in [Functions -> SUBSET (Nat \ {0})] /\ \A g \in Functions \ {f} : starts[g] = built[g]
  BY <1>10
<1>12. /\ findings \subseteq findings' /\ findings' \subseteq 1..MaxLines
  BY <1>1, <1>10 DEF Record
<1>13. deferred' \in [Functions -> 0..MaxLines]
  <2>1. deferred' = deferred \/ deferred' = [deferred EXCEPT ![factory] = line]
    BY <1>1 DEF Record
  <2>2. line \in 0..MaxLines
    BY <1>10
  <2>. QED BY <1>10, <2>1, <2>2
<1>. HIDE DEF starts
<1>14. Accounted'
  <2>1. CASE Function = None
    <3>1. /\ owed' = IF Moves(x) THEN owed \cup {{line}} ELSE owed
          /\ owing' = owing \ {f} /\ built' = starts /\ deferred' = deferred
          /\ Varies(x) => line \in findings'
      BY <1>1, <1>2, <1>9, <2>1 DEF Record
    <3>2. \A g \in owing' : (\E l \in built'[g] : l \in findings' \/ l = deferred'[g])
      BY <1>10, <1>11, <1>12, <3>1 DEF Covered
    <3>3. \A lines \in owed' : lines \cap findings' # {}
      BY <1>3, <1>10, <1>12, <3>1
    <3>. QED BY <1>10, <1>11, <3>1, <3>2, <3>3 DEF Accounted, Covered
  <2>2. CASE Function # None
    <3>. DEFINE F == Function
    <3>1. F \in Functions /\ F # f
      BY <2>2, <1>7, FunctionTyped
    <3>2. /\ built' = [starts EXCEPT ![F] = starts[F] \cup {line}]
          /\ owing' = IF Moves(x) THEN (owing \ {f}) \cup {F} ELSE owing \ {f}
          /\ owed' = owed
      BY <1>9, <2>2
    <3>3. /\ factory = None => deferred' = deferred /\ (Varies(x) => line \in findings')
          /\ factory = F => deferred' = IF Varies(x) THEN [deferred EXCEPT ![F] = line] ELSE deferred
          /\ factory = None \/ factory = F
      BY <1>1, <1>2, <2>2 DEF Record
    <3>. HIDE DEF F
    <3>4. built' \in [Functions -> SUBSET (Nat \ {0})] /\ owing' \subseteq Functions
      BY <1>10, <1>11, <3>1, <3>2
    <3>5. \A g \in Functions \ {F, f} : built'[g] = built[g] /\ deferred'[g] = deferred[g]
      BY <1>10, <1>11, <3>1, <3>2, <3>3
    <3>6. built'[F] = built[F] \cup {line}
      BY <1>11, <3>1, <3>2
    <3>7. \A g \in owing' : (\E l \in built'[g] : l \in findings' \/ l = deferred'[g])
      <4>1. ASSUME NEW g \in owing', g # F PROVE \E l \in built'[g] : l \in findings' \/ l = deferred'[g]
        <5>1. g \in owing /\ g \in Functions \ {F, f}
          BY <1>10, <3>1, <3>2, <4>1
        <5>. QED BY <5>1, <1>10, <1>12, <3>5 DEF Covered
      <4>2. CASE Varies(x)
        <5>1. line \in findings' \/ line = deferred'[F]
          BY <1>10, <3>1, <3>3, <4>2
        <5>. QED BY <4>1, <5>1, <3>6
      <4>3. CASE ~Varies(x)
        <5>1. deferred' = deferred /\ owing' = owing \ {f}
          BY <1>3, <3>2, <3>3, <4>3
        <5>. QED BY <4>1, <5>1, <1>10, <1>12, <3>6 DEF Covered
      <4>. QED BY <4>2, <4>3
    <3>8. \A lines \in owed' : lines \cap findings' # {}
      BY <1>10, <1>12, <3>2
    <3>. QED BY <3>4, <3>7, <3>8 DEF Accounted, Covered
  <2>. QED BY <2>1, <2>2
<1>15. SourceTypeOK' /\ line' \in Nat \ {0}
  BY <1>1, <1>2, <1>12, <1>13 DEF SourceTypeOK, Statement
<1>16. Nested(blocks, varying)'
  BY <1>1, <1>5, <1>6 DEF Nested
<1>17. Believed'
  BY <1>1, <1>2, <1>5, <1>6 DEF Believed
<1>18. (inDag <=> Open("with"))'
  <2>1. \A i \in 1..Len(t) : i \in 1..Len(blocks) \/ i = Len(t)
    BY <1>5, <1>6
  <2>2. (\E i \in 1..Len(t) : t[i].kind = "with") <=> (\E i \in 1..Len(blocks) : blocks[i].kind = "with")
    BY <1>4, <1>5, <1>6, <2>1
  <2>3. DOMAIN blocks = 1..Len(blocks) /\ DOMAIN t = 1..Len(t)
    BY <1>2, <1>6
  <2>4. Open("with")' <=> Open("with")
    BY <2>2, <2>3, <1>6 DEF Open
  <2>. QED BY <2>4, <1>1 DEF SourceInv
<1>. QED BY <1>1, <1>8, <1>14, <1>15, <1>16, <1>17, <1>18 DEF SourceInv

-----------------------------------------------------------------------------

LEMMA SourceStarts == SourceInit => SourceInv
<1>. SUFFICES ASSUME SourceInit PROVE SourceInv
  OBVIOUS
<1>1. SourceTypeOK /\ line \in Nat \ {0}
  <2>1. deferred \in [Functions -> 0..MaxLines]
    BY ScopesApart DEF SourceInit
  <2>2. inDag \in BOOLEAN /\ factory \in Functions \cup {None}
    BY DEF SourceInit
  <2>. QED BY <2>1, <2>2 DEF SourceInit, SourceTypeOK
<1>2. Nested(blocks, varying)
  BY DEF SourceInit, Nested
<1>3. Believed /\ (inDag <=> Open("with")) /\ Accounted
  BY DEF SourceInit, Believed, Open, Accounted
<1>. QED BY <1>1, <1>2, <1>3 DEF SourceInit, SourceInv

LEMMA SourceStep == SourceInv /\ [SourceNext]_sourceVars => SourceInv'
<1>. SUFFICES ASSUME SourceInv, [SourceNext]_sourceVars PROVE SourceInv'
  OBVIOUS
<1>1. ASSUME NEW x \in Readable,
             \/ \E n \in Names : Assign(n, x) \/ BuildDag(n, x) \/ WithDag(n, x)
             \/ \E n \in LoopNames : Loop(n, x)
             \/ \E named \in BOOLEAN, d \in dags \cup {None} : BuildTask(named, d, x)
             \/ \E f \in Functions : Define(f, x)
             \/ DefineTask(x)
      PROVE  SourceInv'
  BY <1>1, FlatSteps, WithDagStep, LoopStep, DefineStep
<1>2. ASSUME NEW f \in Functions, CallFactory(f) PROVE SourceInv'
  BY <1>2, CallFactoryStep
<1>3. CASE UNCHANGED sourceVars
  <2>1. Accounted' /\ Believed' /\ SourceTypeOK' /\ Nested(blocks, varying)'
    BY <1>3 DEF sourceVars, SourceInv, Accounted, Believed, Covered, SourceTypeOK, Nested
  <2>2. (inDag <=> Open("with"))' /\ (factory = None \/ factory = Function)'
    BY <1>3 DEF sourceVars, SourceInv, Open, Function
  <2>. QED BY <1>3, <2>1, <2>2 DEF sourceVars, SourceInv
<1>. QED BY <1>1, <1>2, <1>3, EndLoopStep, EndWithStep, EndDefineStep DEF SourceNext

\* The strengthening is inductive.
THEOREM SourceInvariant == SourceSpec => []SourceInv
BY SourceStarts, SourceStep, PTL DEF SourceSpec

\* A Dag file that passes the check has no constructor argument that varies, in the module
\* itself or behind a call of a factory (find_runtime_varying_dag_args).
THEOREM NoVaryingArgumentHides == SourceSpec => []VaryingIsReported
<1>1. SourceInv => VaryingIsReported
  BY DEF SourceInv, Accounted, VaryingIsReported
<1>. QED BY <1>1, SourceInvariant, PTL
=============================================================================
