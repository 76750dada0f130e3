---------------------------- MODULE SmokeCatalog ----------------------------
(***************************************************************************)
(* The smoke catalog and the Dag corpus under pytest-xdist (smoke.py,      *)
(* plugin.py, dagcorpus.py, fixtures/dagbag.py): collection appends the    *)
(* enabled checks to the tests and groups them with a test that parses the *)
(* Dag folder anyway; whichever process first needs the corpus builds it,  *)
(* the others decode what it published.                                    *)
(*                                                                         *)
(* Every worker collects the same items, so collection is one step; the    *)
(* election of the builder is RunCoordination's, so a request for the      *)
(* corpus is one step too.  How xdist hands out items is external: groups  *)
(* count under --dist loadgroup only, and a group runs on one worker, in   *)
(* the order of collection.                                                *)
(***************************************************************************)
EXTENDS Naturals, Sequences, FiniteSets, SequencesExt, TLC

CONSTANTS
  Nodes,       \* the processes that run tests; one of them without xdist
  Tests,       \* the tests of the project, in the order of collection
  Dags,
  Ranking,     \* Dags in the order the sampling seed ranks them
  Sessions,    \* the sessions considered: options, tests and Dag folder
  NoCorpus

VARIABLES
  session,     \* [options, tests, traits]; never changes
  items,       \* collected and not deselected
  group,       \* the xdist_group of each item
  requested,   \* DAG_CORPUS_REQUESTED_KEY
  warned,      \* SmokeColocationWarning was issued
  phase,
  ranOn,       \* the node each item was run on
  bag,         \* nodes that hold a live DagBag
  corpus,      \* the published artifact
  held,        \* nodes that hold the corpus
  reports      \* the Dags each check has reported

collection == <<items, group, requested, warned, phase>>
catalogVars == <<session, collection, ranOn, bag, corpus, held, reports>>

options == session.options
traits == session.traits

\* SMOKE_CATALOG, in its order.
SmokeChecks ==
  <<"integrity", "roundtrip", "schedule", "pools", "lookups", "io", "catchup",
    "expand", "dag_id", "tags", "owner", "snapshot", "varying">>

Smoke == ToSet(SmokeChecks)
TestItems == ToSet(Tests)
Items == TestItems \cup Smoke

\* The order of collection: the catalog is appended to the tests.
Position(i) == CHOOSE k \in DOMAIN (Tests \o SmokeChecks) : (Tests \o SmokeChecks)[k] = i
First(some) == CHOOSE i \in some : \A j \in some : Position(i) <= Position(j)

Ungrouped == "ungrouped"
Nowhere == "nowhere"

\* How far a test or check comes: dropped by the baseline selection, by -m or
\* by -k, or kept.  A smoke item carries the marks of the catalog only.
Fate(i) ==
  IF i \notin Smoke THEN session.tests[i].fate
  ELSE IF options.markexpr = "other" THEN "mark"
  ELSE IF i \in DOMAIN options.fate THEN options.fate[i] ELSE "kept"

Uses(i, fixture) == i \notin Smoke /\ session.tests[i].uses = fixture

\* A test names the fixture it parses the folder with, its own group and what becomes of
\* it; an artifact says whether a live DagBag was reused, whether its parse was watched,
\* and how each Dag came out.
TestTraits ==
  [uses : {"dag_bag", "dag_corpus"}, group : STRING,
   fate : {"kept", "baseline", "mark", "keyword"}]
Artifacts ==
  [reused : BOOLEAN, lookups : BOOLEAN, outcome : [Dags -> {"none", "error", "encoded"}]]

ASSUME CatalogAssumption ==
  /\ Tests \in Seq(TestItems) /\ TestItems \cap Smoke = {}
  /\ Ranking \in Seq(Dags)
  /\ Nowhere \notin Nodes /\ NoCorpus \notin Artifacts
  /\ \A s \in Sessions :
       /\ s.tests \in [TestItems -> TestTraits]
       /\ s.options.dist \in {"serial", "load", "loadgroup"}
       /\ s.options.sample \in Nat /\ s.options.checks \subseteq Smoke

-----------------------------------------------------------------------------
(* Which checks are collected, and which Dags are serialized *)

\* -m names the catalog, or the positional arguments leave it in.
SmokeInScope == options.enabled /\ (options.markexpr = "smoke" \/ ~options.narrowed)

\* SmokeCollector.collect: what is switched off or not configured yields no item.
CatalogItems ==
  IF SmokeInScope THEN Smoke \cap options.checks ELSE {}

SmokeSerializationNeeded == options.checks \cap {"roundtrip", "schedule", "snapshot"} # {}

CorpusSerializationNeeded ==
  requested \/ ~SmokeInScope \/ SmokeSerializationNeeded

\* Mutant: a dag_corpus consumer gets the sample of the catalog.
SampleSizeAsConfigured == options.sample

EffectiveSampleSize == IF requested THEN 0 ELSE options.sample

SelectedDags ==
  IF ~CorpusSerializationNeeded THEN {}
  ELSE IF EffectiveSampleSize = 0 THEN Dags
  ELSE {Ranking[k] : k \in DOMAIN Ranking \cap 1..EffectiveSampleSize}

\* _validate_smoke_options: snapshots are not regenerated from a sample.
OptionsRefused ==
  options.enabled /\ options.update /\ "snapshot" \in options.checks /\ options.sample > 0

-----------------------------------------------------------------------------
(* Collection *)

Loadgroup == options.dist = "loadgroup"

\* Mutant: -m may drop the anchor.
EligibleUnlessGrouped(i) == session.tests[i].group = Ungrouped

\* _anchor_disqualification; what -k will drop is not predicted.
Eligible(i) == session.tests[i].group = Ungrouped /\ Fate(i) # "mark"

\* _apply_xdist_group
Grouped(joining, name) ==
  [i \in Items |->
     IF i \in joining THEN name
     ELSE IF i \in Smoke THEN Ungrouped ELSE session.tests[i].group]

CatalogAlone(smoke) == Grouped(smoke, "smoke-catalog-fallback")

Consumers(collected, fixture) == {i \in collected : Uses(i, fixture)}
Anchors(collected, fixture) == {i \in Consumers(collected, fixture) : Eligible(i)}

\* All dag_corpus consumers join the catalog; of the dag_bag consumers one does.
GroupItems(collected, smoke) ==
  LET corpusAnchors == Anchors(collected, "dag_corpus")
      bagAnchors == Anchors(collected, "dag_bag")
  IN IF ~Loadgroup THEN Grouped({}, Ungrouped)
     ELSE IF corpusAnchors # {} THEN Grouped(smoke \cup corpusAnchors, "dag-corpus")
     ELSE IF smoke = {} THEN Grouped({}, Ungrouped)
     ELSE IF bagAnchors = {} THEN CatalogAlone(smoke)
     ELSE Grouped(smoke \cup {First(bagAnchors)}, "dag-bag")

NoAnchor(collected, fixture) ==
  Consumers(collected, fixture) # {} /\ Anchors(collected, fixture) = {}

Warns(collected, smoke) ==
  \/ Loadgroup /\ NoAnchor(collected, "dag_corpus")
  \/ /\ Loadgroup /\ smoke # {}
     /\ Anchors(collected, "dag_corpus") = {} /\ NoAnchor(collected, "dag_bag")
  \/ options.dist = "load" /\ smoke # {} /\ Consumers(collected, "dag_bag") # {}

\* mark_dag_corpus_requested: even for consumers -m or -k will drop.
Requests(collected) == Consumers(collected, "dag_corpus") # {}

Collected == {i \in TestItems \cup CatalogItems : Fate(i) # "baseline"}
Kept == {i \in Collected : Fate(i) = "kept"}

\* pytest_collection_modifyitems, then pytest's own -m and -k.
CollectItems ==
  /\ phase = "collect" /\ ~OptionsRefused
  /\ group' = GroupItems(Collected, Collected \cap Smoke)
  /\ requested' = Requests(Collected)
  /\ warned' = Warns(Collected, Collected \cap Smoke)
  /\ items' = Kept
  /\ phase' = "run"
  /\ UNCHANGED <<session, ranOn, bag, corpus, held, reports>>

UsageError ==
  /\ phase = "collect" /\ OptionsRefused
  /\ phase' = "refused"
  /\ UNCHANGED <<session, items, group, requested, warned, ranOn, bag, corpus, held, reports>>

-----------------------------------------------------------------------------
(* The corpus *)

\* A Dag that was not selected has neither a serialized form nor an error.
Outcome(d) ==
  IF d \notin SelectedDags THEN "none"
  ELSE IF "unserializable" \in traits[d] THEN "error" ELSE "encoded"

\* _build_dag_corpus on node n.  A live DagBag of the node is reused, and with it
\* the lookups seen by its parse; otherwise the folder is parsed, fanned out only
\* if the sample is everything, and then with the same outcome.
BuiltCorpus(n) ==
  [reused |-> n \in bag,
   lookups |-> n \notin bag \/ SmokeInScope,
   outcome |-> [d \in Dags |-> Outcome(d)]]

\* get_dag_corpus
CorpusOn(n) == IF corpus = NoCorpus THEN BuiltCorpus(n) ELSE corpus

RequestCorpus(n) ==
  /\ corpus' = CorpusOn(n)
  /\ held' = held \cup {n}

-----------------------------------------------------------------------------
(* The checks: the Dags each one reports *)

With(flaws) == {d \in Dags : flaws \subseteq traits[d]}

\* _serialized_dag_cache
Failed(c) == {d \in SelectedDags : c.outcome[d] = "error"}
Encoded(c) == {d \in SelectedDags : c.outcome[d] = "encoded"}

RoundtripFindings(c) == Failed(c) \cup (Encoded(c) \cap With({"undecodable"}))

\* Failures to serialize are the roundtrip's, unless it is disabled.
ScheduleFindings(c) ==
  LET unencoded == IF "roundtrip" \in options.checks THEN {} ELSE Failed(c)
      unplanned == Encoded(c) \cap (With({"undecodable"}) \cup With({"no next run"}))
  IN With({"scheduled"}) \cap (unencoded \cup unplanned)

SnapshotFindings(c) ==
  Failed(c) \cup IF options.update THEN {} ELSE Encoded(c) \cap With({"drifted"})

\* Lookups in the source, and those the parse ran into where it was watched.
LookupFindings(c) ==
  With({"lookup"}) \cup IF c.lookups THEN With({"hidden lookup"}) ELSE {}

IntegrityFindings == With({"import error"}) \cup With({"slow"})

NamingFlaw == [dag_id |-> {"bad id"}, tags |-> {"untagged"}, owner |-> {"default owner"}]
SourceFlaw == [io |-> {"top-level io"}, varying |-> {"varying argument"}]
LoadFlaw == [catchup |-> {"catchup", "scheduled"}, expand |-> {"uncapped expand"}]
PolicyFlaw == NamingFlaw @@ SourceFlaw @@ LoadFlaw

\* Pools of the configuration are created by the check.
PoolFindings == With({"unknown pool"}) \ With({"configured pool"})

CheckFindings(check, c) ==
  CASE check = "integrity" -> IntegrityFindings
    [] check = "roundtrip" -> RoundtripFindings(c)
    [] check = "schedule" -> ScheduleFindings(c)
    [] check = "snapshot" -> SnapshotFindings(c)
    [] check = "lookups" -> LookupFindings(c)
    [] check = "pools" -> PoolFindings
    [] OTHER -> With(PolicyFlaw[check])

-----------------------------------------------------------------------------
(* Running the items *)

\* The items handed out together with i.
Unit(i) ==
  IF options.dist = "serial" THEN items
  ELSE IF Loadgroup /\ group[i] # Ungrouped THEN {j \in items : group[j] = group[i]}
  ELSE {i}

Before(i) == {j \in items : Position(j) < Position(i)}

Takes(n, i) ==
  /\ phase = "run" /\ ranOn[i] = Nowhere
  /\ \A j \in Unit(i) \cap Before(i) : ranOn[j] = n
  /\ ranOn' = [ranOn EXCEPT ![i] = n]
  /\ UNCHANGED <<session, collection>>

\* A test that consumes dag_bag parses the folder once per node (_cached_dag_bag).
RunWithDagBag(n, i) ==
  /\ Uses(i, "dag_bag")
  /\ Takes(n, i)
  /\ bag' = bag \cup {n}
  /\ UNCHANGED <<corpus, held, reports>>

RunWithDagCorpus(n, i) ==
  /\ Uses(i, "dag_corpus")
  /\ Takes(n, i)
  /\ RequestCorpus(n)
  /\ UNCHANGED <<bag, reports>>

\* _CatalogItem.runtest
RunCheck(n, i) ==
  /\ i \in Smoke
  /\ Takes(n, i)
  /\ RequestCorpus(n)
  /\ reports' = [reports EXCEPT ![i] = CheckFindings(i, corpus')]
  /\ UNCHANGED bag

Run(n, i) == RunWithDagBag(n, i) \/ RunWithDagCorpus(n, i) \/ RunCheck(n, i)

-----------------------------------------------------------------------------
CatalogInit ==
  /\ session \in Sessions
  /\ items = {} /\ phase = "collect"
  /\ group = Grouped({}, Ungrouped)
  /\ requested = FALSE /\ warned = FALSE
  /\ ranOn = [i \in Items |-> Nowhere]
  /\ bag = {} /\ held = {}
  /\ corpus = NoCorpus
  /\ reports = [c \in Smoke |-> {}]

CatalogNext == CollectItems \/ UsageError \/ \E n \in Nodes, i \in items : Run(n, i)

CatalogSpec == CatalogInit /\ [][CatalogNext]_catalogVars

-----------------------------------------------------------------------------
(* Properties *)

CatalogTypeOK ==
  /\ session \in Sessions
  /\ items \subseteq Items
  /\ requested \in BOOLEAN /\ warned \in BOOLEAN
  /\ phase \in {"collect", "refused", "run"}
  /\ ranOn \in [Items -> Nodes \cup {Nowhere}]
  /\ bag \subseteq Nodes /\ held \subseteq Nodes
  /\ reports \in [Smoke -> SUBSET Dags]

Ran(i) == ranOn[i] # Nowhere

\* Under --dist loadgroup one worker at most holds the corpus, unless the user has
\* grouped a dag_corpus consumer by hand (SMOKE_CATALOG_FALLBACK_XDIST_GROUP: "retained
\* by at most one worker instead of one per worker the catalog happens to be scheduled
\* across").
CorpusHeldOnce ==
  Loadgroup /\ (\A i \in items : Uses(i, "dag_corpus") => session.tests[i].group = Ungrouped)
    => Cardinality(held) <= 1

\* The catalog parses the folder although tests of the run parse it too only where a
\* warning told so, a dag_corpus consumer led the catalog elsewhere or -k dropped the
\* anchor (_colocate_smoke_catalog_with_dag_bag, _survives_markexpr).
ExtraParseAnnounced ==
  corpus # NoCorpus /\ ~corpus.reused /\ ~requested
    /\ (\E i \in items : Uses(i, "dag_bag"))
    => \/ warned
       \/ \E i \in TestItems : Uses(i, "dag_bag") /\ Eligible(i) /\ Fate(i) = "keyword"

\* The parse of the folder is shared: nobody parses it again for a corpus another node
\* holds, nor for tests that parsed it already, without a word
\* (_colocate_dag_corpus_consumers, _colocate_smoke_catalog_with_dag_bag).
CorpusShared == CorpusHeldOnce /\ ExtraParseAnnounced

\* Whoever built the corpus: a dag_corpus consumer finds every Dag serialized or with its
\* error, and a check every Dag it selects (_effective_sample_size,
\* SerializedDagEntry.__post_init__).
ConsumersServed ==
  corpus # NoCorpus =>
    \A d \in Dags : corpus.outcome[d] = "none" =>
      /\ d \notin SelectedDags
      /\ \A i \in TestItems : Uses(i, "dag_corpus") => ~Ran(i)

\* When all checks have run, every scheduled Dag of the sample that the scheduler could
\* not schedule has been reported, unless the roundtrip was deselected rather than
\* disabled; and every lookup at import time, whichever parse saw it (_run_schedule_sanity,
\* _cached_dag_bag).
ReportsComplete ==
  (phase = "run" /\ \A i \in items : Ran(i)) =>
    /\ Ran("schedule") /\ (Ran("roundtrip") \/ "roundtrip" \notin options.checks) =>
         \A d \in SelectedDags \cap With({"scheduled"}) :
           traits[d] \cap {"unserializable", "undecodable", "no next run"} # {}
             => \E c \in {"roundtrip", "schedule", "snapshot"} : d \in reports[c]
    /\ Ran("lookups") => With({"lookup"}) \cup With({"hidden lookup"}) \subseteq reports["lookups"]

\* Every consumer finds in the corpus what it needs, whoever built it, and the checks
\* together report every Dag that has one of the flaws they look for (dagcorpus.py,
\* smoke.py).
ChecksServed == CatalogTypeOK /\ ConsumersServed /\ ReportsComplete
=============================================================================
