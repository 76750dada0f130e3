------------------------------ MODULE SeedRows ------------------------------
(***************************************************************************)
(* The rows airflow_variables and airflow_connections seed (_compat/seed.py*)
(* and fixtures/seed.py): one table of the metadata database that every    *)
(* xdist worker shares, on SQLite, which gives a new row the id after the  *)
(* highest one present and so hands out the ids of deleted rows again.     *)
(*                                                                         *)
(* Each fixture instance keeps a record of the <id, key> pairs it inserted *)
(* and deletes them at teardown, while others seed and clean up.           *)
(***************************************************************************)
EXTENDS Naturals

CONSTANTS
  Fixtures,        \* the fixture instances, each on some worker
  Keys,            \* natural keys: Variable.key or Connection.conn_id
  Wanted,          \* the keys each fixture's test may seed
  MaxId,           \* bound on the ids, for TLC
  Faulty           \* those in which something may raise between flush and
                   \* commit, and whose tests may delete rows they seeded

ASSUME SeedAssumption ==
  /\ Wanted \in [Fixtures -> SUBSET Keys]
  /\ MaxId \in Nat
  /\ Faulty \subseteq Fixtures

VARIABLES
  pc,         \* where each fixture stands
  batch,      \* the keys of the call in progress
  owned,      \* SeedRecord.variables: the pairs each record holds
  rows,       \* the committed rows; "by" is not a column, it names the seeder
  pending,    \* the rows of the open write transaction
  lock        \* fixtures whose session holds SQLite's write lock

vars == <<pc, batch, owned, rows, pending, lock>>

Ids == 1..MaxId
Pairs == [id : Ids, key : Keys]
Rows == [id : Ids, key : Keys, by : Fixtures]
Pair(r) == [id |-> r.id, key |-> r.key]

Writing == {"flushed", "interrupted", "deleting"}
Open == {"open", "checked", "cleaning"} \cup Writing

TypeOK ==
  /\ pc \in [Fixtures -> Open \cup {"closed", "unclean", "killed"}]
  /\ batch \in [Fixtures -> SUBSET Keys]
  /\ owned \in [Fixtures -> SUBSET Pairs]
  /\ \A f \in Fixtures : \A p, q \in owned[f] : p.id = q.id => p = q
  /\ rows \subseteq Rows
  /\ pending \subseteq Rows
  /\ lock \subseteq Fixtures

Init ==
  /\ pc = [f \in Fixtures |-> "open"]
  /\ batch = [f \in Fixtures |-> {}]
  /\ owned = [f \in Fixtures |-> {}]
  /\ rows = {}
  /\ pending = {}
  /\ lock = {}

Goto(f, from, to) ==
  /\ pc[f] = from
  /\ pc' = [pc EXCEPT ![f] = to]

-----------------------------------------------------------------------------
(* Seeding *)

\* _reject_existing_rows lets a batch through.  A batch that names a present
\* key raises before anything is written, an empty one returns: no step.
CheckExisting(f) ==
  /\ Goto(f, "open", "checked")
  /\ \E names \in SUBSET Wanted[f] \ {{}} :
       /\ \A r \in rows : r.key \notin names
       /\ batch' = [batch EXCEPT ![f] = names]
  /\ UNCHANGED <<owned, rows, pending, lock>>

IsTop(top) ==
  /\ \A r \in rows : r.id <= top
  /\ top = 0 \/ \E r \in rows : r.id = top

\* The row sets SQLite may make of f's batch: one row per key, with ids that
\* follow the highest one present.
NewRows(f) ==
  {new \in SUBSET [id : Ids, key : batch[f], by : {f}] :
     /\ \A key \in batch[f] : \E r \in new : r.key = key
     /\ \A r, s \in new : (r.key = s.key \/ r.id = s.id) => r = s
     /\ \E top, last \in 0..MaxId : IsTop(top) /\ {r.id : r \in new} = (top + 1)..last}

\* owned.update: over the pairs of the same id.
Updated(pairs, new) ==
  {p \in pairs : \A r \in new : p.id # r.id} \cup {Pair(r) : r \in new}

\* flush takes the write lock; the unique keys of the batch are free.
CanFlush(f) ==
  /\ lock = {}
  /\ \A r \in rows : r.key \notin batch[f]

\* Mutant: each call starts the record over.
FlushReplacing(f) ==
  /\ Goto(f, "checked", "flushed")
  /\ CanFlush(f)
  /\ \E new \in NewRows(f) :
       /\ pending' = new
       /\ owned' = [owned EXCEPT ![f] = {Pair(r) : r \in new}]
  /\ lock' = {f}
  /\ UNCHANGED <<batch, rows>>

Flush(f) ==
  /\ Goto(f, "checked", "flushed")
  /\ CanFlush(f)
  /\ \E new \in NewRows(f) :
       /\ pending' = new
       /\ owned' = [owned EXCEPT ![f] = Updated(@, new)]
  /\ lock' = {f}
  /\ UNCHANGED <<batch, rows>>

\* Another fixture committed a key since the check, or holds the lock too long:
\* rollback, SeedPersistenceError.  The test may catch it and seed again.
FlushRaises(f) ==
  /\ Goto(f, "checked", "open")
  /\ batch' = [batch EXCEPT ![f] = {}]
  /\ UNCHANGED <<owned, rows, pending, lock>>

CommitSeed(f) ==
  /\ Goto(f, "flushed", "open")
  /\ batch' = [batch EXCEPT ![f] = {}]
  /\ rows' = rows \cup pending
  /\ pending' = {}
  /\ lock' = {}
  /\ UNCHANGED owned

\* An Exception: rollback and SeedPersistenceError.  "owned" keeps the pairs.
CommitRaises(f) ==
  /\ f \in Faulty
  /\ Goto(f, "flushed", "open")
  /\ batch' = [batch EXCEPT ![f] = {}]
  /\ pending' = {}
  /\ lock' = {}
  /\ UNCHANGED <<owned, rows>>

\* A KeyboardInterrupt or a pytest-timeout failure is no Exception: it passes
\* _persist by and leaves the transaction open until the teardown.
Interrupt(f) ==
  /\ f \in Faulty
  /\ Goto(f, "flushed", "interrupted")
  /\ UNCHANGED <<batch, owned, rows, pending, lock>>

\* The same before owned.update.
InterruptUnrecorded(f) ==
  /\ f \in Faulty
  /\ Goto(f, "checked", "interrupted")
  /\ CanFlush(f)
  /\ pending' \in NewRows(f)
  /\ lock' = {f}
  /\ UNCHANGED <<batch, owned, rows>>

\* Variable.delete in the test's own body, in a transaction of its own.
TestDeletes(f) ==
  /\ f \in Faulty
  /\ pc[f] = "open"
  /\ lock = {}
  /\ \E r \in rows : r.by = f /\ rows' = rows \ {r}
  /\ UNCHANGED <<pc, batch, owned, pending, lock>>

-----------------------------------------------------------------------------
(* Teardown: cleanup_seeds *)

\* What the session still had open is rolled back.
RolledBack(f) ==
  /\ pending' = IF f \in lock THEN {} ELSE pending
  /\ lock' = lock \ {f}

\* _cleanup_seeds of a record that owns nothing returns; the session is closed.
CleanupNothing(f) ==
  /\ pc[f] \in {"open", "interrupted"}
  /\ owned[f] = {}
  /\ pc' = [pc EXCEPT ![f] = "closed"]
  /\ RolledBack(f)
  /\ batch' = [batch EXCEPT ![f] = {}]
  /\ UNCHANGED <<owned, rows>>

StartCleanup(f) ==
  /\ pc[f] \in {"open", "interrupted"}
  /\ owned[f] # {}
  /\ pc' = [pc EXCEPT ![f] = "cleaning"]
  /\ RolledBack(f)
  /\ batch' = [batch EXCEPT ![f] = {}]
  /\ UNCHANGED <<owned, rows>>

\* The DELETE statements take the write lock; what they match stays put until
\* the commit that ends the transaction.
DeleteOwnedRows(f) ==
  /\ Goto(f, "cleaning", "deleting")
  /\ lock = {}
  /\ lock' = {f}
  /\ UNCHANGED <<batch, owned, rows, pending>>

\* Mutant: by primary key alone.
CommitCleanupById(f) ==
  /\ Goto(f, "deleting", "closed")
  /\ rows' = {r \in rows : \A p \in owned[f] : p.id # r.id}
  /\ lock' = {}
  /\ UNCHANGED <<batch, owned, pending>>

\* The rows that match an owned pair are gone; the session is closed.
CommitCleanup(f) ==
  /\ Goto(f, "deleting", "closed")
  /\ rows' = {r \in rows : Pair(r) \notin owned[f]}
  /\ lock' = {}
  /\ UNCHANGED <<batch, owned, pending>>

\* SeedCleanupError, or an interrupt: closing the session rolls back.
CleanupRaises(f) ==
  /\ pc[f] \in {"cleaning", "deleting"}
  /\ pc' = [pc EXCEPT ![f] = "unclean"]
  /\ lock' = lock \ {f}
  /\ UNCHANGED <<batch, owned, rows, pending>>

\* The worker is killed: the database rolls its transaction back.
Kill(f) ==
  /\ pc[f] \in Open
  /\ pc' = [pc EXCEPT ![f] = "killed"]
  /\ RolledBack(f)
  /\ batch' = [batch EXCEPT ![f] = {}]
  /\ UNCHANGED <<owned, rows>>

Next ==
  \E f \in Fixtures :
    \/ CheckExisting(f) \/ Flush(f) \/ FlushRaises(f) \/ CommitSeed(f)
    \/ CommitRaises(f) \/ Interrupt(f) \/ InterruptUnrecorded(f) \/ TestDeletes(f)
    \/ CleanupNothing(f) \/ StartCleanup(f) \/ DeleteOwnedRows(f)
    \/ CommitCleanup(f) \/ CleanupRaises(f) \/ Kill(f)

Spec == Init /\ [][Next]_vars

-----------------------------------------------------------------------------
(* Properties *)

\* A committed row disappears in a step of its own fixture only, never in
\* another's cleanup, although that may hold an id SQLite has reused since
\* (_delete_owned_rows and its pair predicate).
RowsStep ==
  \A r \in rows \ rows' :
    /\ pc[r.by] \in {"open", "deleting"}
    /\ \A f \in Fixtures \ {r.by} : pc'[f] = pc[f]

\* In every step (cleanup_seeds, _persist and the tests themselves).
RowsGoWithTheirSeeder == [][RowsStep]_vars

\* A fixture whose cleanup went through left no row of any of its calls, those
\* before a call that failed and those whose id it recorded twice included
\* (_persist's owned.update, _cleanup_seeds).
NoLeftovers ==
  \A r \in rows : pc[r.by] # "closed"

\* Between two calls every pair a record holds names a row its fixture has
\* committed.
RecordMatches(f) ==
  pc[f] \in {"open", "checked"} =>
    \A p \in owned[f] : [id |-> p.id, key |-> p.key, by |-> f] \in rows

\* The pairing "can never disagree with what was committed" (_persist's
\* docstring).
OwnedMatchesCommitted == \A f \in Fixtures : RecordMatches(f)

\* The record of a fixture with which nothing raises between flush and commit,
\* and whose test deletes nothing, agrees with the table, whatever fixtures with
\* other keys go through (_persist, _cleanup_seeds).
CarefulRecordsMatch == \A f \in Fixtures \ Faulty : RecordMatches(f)

\* A cleanup deletes what its fixture seeded, whoever reuses its ids or keys: the record
\* it goes by is right, and no row goes but with its seeder's own step (_cleanup_seeds).
SeedsAreOwned == [][CarefulRecordsMatch' /\ RowsStep]_vars

\* Tests that share a key raise nothing between flush and commit and delete none
\* of their seeds.
SafeSeeding ==
  \A f, g \in Fixtures : f # g /\ Wanted[f] \cap Wanted[g] # {} => f \notin Faulty

\* One transaction writes at a time, and what it wrote is its holder's.
LockInv ==
  /\ \A f \in Fixtures : f \in lock <=> pc[f] \in Writing
  /\ \A f, g \in lock : f = g
  /\ \A r \in pending : r.by \in lock /\ pc[r.by] \in {"flushed", "interrupted"}

\* The primary key and the unique key of the table hold across a commit.
UniqueInv ==
  \A r, s \in rows \cup pending : (r.id = s.id \/ r.key = s.key) => r = s

\* A live fixture holds the pair of every row it has in the table.
RecordedInv ==
  /\ \A r \in rows : pc[r.by] \in Open => Pair(r) \in owned[r.by]
  /\ \A r \in pending : pc[r.by] = "flushed" => Pair(r) \in owned[r.by]
  /\ \A r \in rows : pc[r.by] # "closed"

\* Everybody keeps to the keys of its test.
WantedInv ==
  /\ \A f \in Fixtures : batch[f] \subseteq Wanted[f]
  /\ \A f \in Fixtures : \A p \in owned[f] : p.key \in Wanted[f]
  /\ \A r \in rows \cup pending : r.key \in Wanted[r.by]

\* An owned pair of a live fixture without faults is its own row.
FaithfulInv ==
  SafeSeeding =>
    \A f \in Fixtures \ Faulty :
      /\ pc[f] # "interrupted"
      /\ pc[f] \in Open => \A p \in owned[f] :
           [id |-> p.id, key |-> p.key, by |-> f] \in rows \cup pending

\* The inductive invariant behind RowsGoWithTheirSeeder and NoLeftovers.
SeedInv == LockInv /\ UniqueInv /\ RecordedInv /\ WantedInv /\ FaithfulInv
=============================================================================
