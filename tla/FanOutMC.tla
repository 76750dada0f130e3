------------------------------ MODULE FanOutMC ------------------------------
(***************************************************************************)
(* What the plugin finds out about a Dag folder: the fanned-out parse      *)
(* (FanOut), the smoke catalog over one shared parse (SmokeCatalog), and   *)
(* the check that reads the source (VersionInflation).  The three share no *)
(* state: a behaviour is one of them.  The catalog and the source stay in  *)
(* an initial state otherwise; the build, of which it is asked that it     *)
(* ends, has ended.                                                        *)
(***************************************************************************)
EXTENDS FanOut, SmokeCatalog, VersionInflation

CONSTANTS f1, f2, f3, f4, t1, t2, d1, d2, n1, n2

VARIABLE part

MCDiscovered == <<f3, f1, f4, f2>>
MCSorted == <<f1, f2, f3, f4>>
MCTests == <<t1, t2>>
MCRanking == <<d1, d2>>

-----------------------------------------------------------------------------
(* Sessions of the catalog *)

\* The catalog as the user asks for it.
Default ==
  [enabled |-> TRUE, narrowed |-> FALSE, markexpr |-> "none", checks |-> {"roundtrip", "schedule"},
   sample |-> 0, update |-> FALSE, dist |-> "serial", fate |-> <<>>]

OptionSets ==
  { Default,
    [Default EXCEPT !.sample = 1],
    [Default EXCEPT !.checks = {"schedule", "lookups"}],
    [Default EXCEPT !.fate = [roundtrip |-> "keyword"]],
    [Default EXCEPT !.fate = [roundtrip |-> "baseline"], !.sample = 1],
    [Default EXCEPT !.checks = {"lookups", "pools"}],
    [Default EXCEPT !.checks = {"integrity", "catchup"}, !.markexpr = "smoke", !.narrowed = TRUE],
    [Default EXCEPT !.checks = {"snapshot", "owner"}, !.update = TRUE, !.sample = 1],
    [Default EXCEPT !.checks = {"snapshot", "io"}, !.update = TRUE],
    [Default EXCEPT !.checks = {"schedule", "expand"}, !.markexpr = "other"],
    [Default EXCEPT !.narrowed = TRUE, !.sample = 1] }

Shapes ==
  { {"scheduled", "unserializable", "lookup", "catchup"},
    {"scheduled", "no next run", "hidden lookup"},
    {"undecodable", "default owner", "drifted", "unknown pool"} }

UserTest ==
  [uses : {"dag_bag", "dag_corpus"}, group : {"ungrouped", "own"}, fate : {"kept", "mark", "keyword"}]

MCSessions ==
  { s \in [options : {[o EXCEPT !.dist = dist] : o \in OptionSets, dist \in {"serial", "load", "loadgroup"}},
           tests : [{t1, t2} -> UserTest],
           traits : {(d1 :> {"scheduled"}) @@ (d2 :> shape) : shape \in Shapes}
                      \cup {(d1 :> shape) @@ (d2 :> {}) : shape \in Shapes}] :
      s.options.markexpr = "none" => \A t \in {t1, t2} : s.tests[t].fate # "mark" }

-----------------------------------------------------------------------------
\* The build of an empty folder, when no shard could be spawned.
BuildOver ==
  /\ content = [f \in Files |-> {}] /\ pc = "done" /\ next = 1 /\ expired = FALSE
  /\ child = [s \in Shards |-> "none"] /\ reaped = {} /\ parsed = EmptyCorpus

MCInit ==
  /\ part \in {"build", "catalog", "source"}
  /\ IF part = "build" THEN Init ELSE BuildOver
  /\ IF part = "catalog" THEN TRUE ELSE session = (CHOOSE s \in Sessions : TRUE)
  /\ CatalogInit /\ SourceInit

MCNext ==
  /\ UNCHANGED part
  /\ \/ part = "build" /\ Next /\ UNCHANGED <<catalogVars, sourceVars>>
     \/ part = "catalog" /\ CatalogNext /\ UNCHANGED <<vars, sourceVars>>
     \/ part = "source" /\ SourceNext /\ UNCHANGED <<vars, catalogVars>>

MCSpec ==
  /\ MCInit /\ [][MCNext]_<<vars, catalogVars, sourceVars, part>>
  /\ WF_vars(part = "build" /\ Build) /\ WF_vars(part = "build" /\ DeadlinePasses)
=============================================================================
