--------------------------- MODULE RootLifecycle ---------------------------
(***************************************************************************)
(* What the owners of isolated run directories below one storage base      *)
(* promise their user: a directory is discarded only if nobody was told    *)
(* that it is kept, it is kept only after somebody was told, and a kept    *)
(* directory is evicted only while Keep others remain.                     *)
(***************************************************************************)
EXTENDS Naturals, FiniteSets

CONSTANTS
  Runs,       \* the runs sharing a storage base, each owning one directory
  Keep        \* airflow_home_retention_count

VARIABLES
  life,       \* each directory: "none", "live", "kept" or "gone"
  told        \* whether the user was told that the directory is kept

lifecycleVars == <<life, told>>

Init ==
  /\ life = [r \in Runs |-> "none"]
  /\ told = [r \in Runs |-> FALSE]

Become(r, from, to) ==
  /\ life[r] = from
  /\ life' = [life EXCEPT ![r] = to]
  /\ UNCHANGED told

Create(r) == Become(r, "none", "live")

Tell(r) ==
  /\ life[r] = "live"
  /\ told' = [told EXCEPT ![r] = TRUE]
  /\ UNCHANGED life

Retain(r) == told[r] /\ Become(r, "live", "kept")

Discard(r) == ~told[r] /\ Become(r, "live", "gone")

Evict(r) ==
  /\ Cardinality({s \in Runs \ {r} : life[s] = "kept"}) >= Keep
  /\ Become(r, "kept", "gone")

Next == \E r \in Runs : Create(r) \/ Tell(r) \/ Retain(r) \/ Discard(r) \/ Evict(r)

Spec == Init /\ [][Next]_lifecycleVars
=============================================================================
