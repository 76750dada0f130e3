------------------------ MODULE MetadataRows_proofs ------------------------
(***************************************************************************)
(* Proofs about the rows in the metadata database: SeedRows, DagMetadata   *)
(* and DriveDagRun.  What their runs check on small instances holds for    *)
(* every set of workers, fixtures, keys, Dags and graphs, and every bound. *)
(*                                                                         *)
(* SeedRows: SeedInv is the inductive invariant.  The write lock makes an  *)
(* open transaction's rows exclusive to their fixture; the two unique      *)
(* columns then identify a row by its pair, and every live fixture holds   *)
(* the pairs of its rows.                                                  *)
(*                                                                         *)
(* DagMetadata: DagInv is the inductive invariant, one part per worker.  A *)
(* step of a worker keeps its own part, action by action; it leaves the    *)
(* others' alone since workers share neither a Dag nor the lock.           *)
(*                                                                         *)
(* DriveDagRun: DriveInv says where a pass stands, PassInv counts passes   *)
(* against the instances present, ErrorInv says what each error stands for.*)
(***************************************************************************)
EXTENDS SeedRows, DagMetadata, DriveDagRun, FiniteSetTheorems, TLAPS

-----------------------------------------------------------------------------
(* SeedRows *)

USE SeedAssumption

\* The rows of a flushed batch are the fixture's, carry its keys, and share an
\* id neither with each other nor with a committed row (SQLite's next rowid).
LEMMA FreshRows ==
  ASSUME TypeOK, NEW f \in Fixtures, NEW new \in NewRows(f)
  PROVE  /\ new \subseteq Rows
         /\ \A r \in new : r.by = f /\ r.key \in batch[f]
         /\ \A r, s \in new : (r.key = s.key \/ r.id = s.id) => r = s
         /\ \A r \in new : \A s \in rows : r.id # s.id
<1>1. batch[f] \subseteq Keys BY DEF TypeOK
<1>2. new \in SUBSET [id : Ids, key : batch[f], by : {f}] BY DEF NewRows
<1>3. \A r \in new : r.id \in Ids /\ r.key \in batch[f] /\ r.by = f BY <1>2
<1>4. new \subseteq Rows BY <1>1, <1>2 DEF Rows
<1>5. \A r, s \in new : (r.key = s.key \/ r.id = s.id) => r = s BY DEF NewRows
<1>6. PICK top \in 0..MaxId, last \in 0..MaxId :
        IsTop(top) /\ {r.id : r \in new} = (top + 1)..last
  BY DEF NewRows
<1>7. ASSUME NEW r \in new, NEW s \in rows PROVE r.id # s.id
  <2>1. r.id \in (top + 1)..last BY <1>6
  <2>2. r.id \in Nat /\ top + 1 <= r.id BY <2>1
  <2>3. s.id <= top BY <1>6 DEF IsTop
  <2>4. s.id \in Nat BY DEF TypeOK, Rows, Ids
  <2>. QED BY <2>2, <2>3, <2>4
<1>. QED BY <1>3, <1>4, <1>5, <1>7

LEMMA PairsOfRows ==
  ASSUME NEW new \in SUBSET Rows
  PROVE  {Pair(r) : r \in new} \subseteq Pairs
BY DEF Rows, Pairs, Pair

\* owned.update keeps the record a dictionary.
LEMMA UpdateKeepsIds ==
  ASSUME NEW pairs \in SUBSET Pairs, NEW new \in SUBSET Rows,
         \A p, q \in pairs : p.id = q.id => p = q,
         \A r, s \in new : r.id = s.id => r = s
  PROVE  /\ Updated(pairs, new) \subseteq Pairs
         /\ \A p, q \in Updated(pairs, new) : p.id = q.id => p = q
<1>1. Updated(pairs, new) \subseteq Pairs BY PairsOfRows DEF Updated
<1>2. \A r \in new : Pair(r).id = r.id BY DEF Pair
<1>. QED BY <1>1, <1>2 DEF Updated

\* Every variable keeps its type, and a record stays a dictionary
\* (SeedRecord.variables).
THEOREM Typed == Spec => []TypeOK
<1>1. Init => TypeOK BY DEF Init, TypeOK, Open, Writing
<1>2. TypeOK /\ [Next]_vars => TypeOK'
  <2>. SUFFICES ASSUME TypeOK, [Next]_vars PROVE TypeOK' OBVIOUS
  <2>. USE DEF TypeOK, Open, Writing, Goto
  <2>1. ASSUME NEW f \in Fixtures, CheckExisting(f) PROVE TypeOK'
    BY <2>1 DEF CheckExisting
  <2>2. ASSUME NEW f \in Fixtures, Flush(f) PROVE TypeOK'
    <3>1. PICK new \in NewRows(f) :
            pending' = new /\ owned' = [owned EXCEPT ![f] = Updated(@, new)]
      BY <2>2 DEF Flush
    <3>2. new \subseteq Rows /\ \A r, s \in new : r.id = s.id => r = s BY FreshRows
    <3>3. /\ Updated(owned[f], new) \subseteq Pairs
          /\ \A p, q \in Updated(owned[f], new) : p.id = q.id => p = q
      BY <3>2, UpdateKeepsIds
    <3>4. owned' \in [Fixtures -> SUBSET Pairs] BY <3>1, <3>3
    <3>5. \A g \in Fixtures : \A p, q \in owned'[g] : p.id = q.id => p = q
      BY <3>1, <3>3
    <3>6. UNCHANGED <<batch, rows>> /\ pc' = [pc EXCEPT ![f] = "flushed"] /\ lock' = {f}
      BY <2>2 DEF Flush
    <3>. QED BY <3>1, <3>2, <3>4, <3>5, <3>6
  <2>3. ASSUME NEW f \in Fixtures, FlushRaises(f) PROVE TypeOK'
    BY <2>3 DEF FlushRaises
  <2>4. ASSUME NEW f \in Fixtures, CommitSeed(f) PROVE TypeOK'
    BY <2>4 DEF CommitSeed
  <2>5. ASSUME NEW f \in Fixtures, CommitRaises(f) PROVE TypeOK'
    BY <2>5 DEF CommitRaises
  <2>6. ASSUME NEW f \in Fixtures, Interrupt(f) PROVE TypeOK'
    BY <2>6 DEF Interrupt
  <2>7. ASSUME NEW f \in Fixtures, InterruptUnrecorded(f) PROVE TypeOK'
    <3>1. pending' \in NewRows(f) BY <2>7 DEF InterruptUnrecorded
    <3>2. pending' \subseteq Rows BY <3>1, FreshRows
    <3>. QED BY <2>7, <3>2 DEF InterruptUnrecorded
  <2>8. ASSUME NEW f \in Fixtures, TestDeletes(f) PROVE TypeOK'
    BY <2>8 DEF TestDeletes
  <2>9. ASSUME NEW f \in Fixtures, CleanupNothing(f) PROVE TypeOK'
    BY <2>9 DEF CleanupNothing, RolledBack
  <2>10. ASSUME NEW f \in Fixtures, StartCleanup(f) PROVE TypeOK'
    BY <2>10 DEF StartCleanup, RolledBack
  <2>11. ASSUME NEW f \in Fixtures, DeleteOwnedRows(f) PROVE TypeOK'
    BY <2>11 DEF DeleteOwnedRows
  <2>12. ASSUME NEW f \in Fixtures, CommitCleanup(f) PROVE TypeOK'
    BY <2>12 DEF CommitCleanup
  <2>13. ASSUME NEW f \in Fixtures, CleanupRaises(f) PROVE TypeOK'
    BY <2>13 DEF CleanupRaises
  <2>14. ASSUME NEW f \in Fixtures, Kill(f) PROVE TypeOK'
    BY <2>14 DEF Kill, RolledBack
  <2>15. CASE UNCHANGED vars BY <2>15 DEF vars
  <2>. QED BY <2>1, <2>2, <2>3, <2>4, <2>5, <2>6, <2>7, <2>8, <2>9, <2>10, <2>11, <2>12, <2>13, <2>14, <2>15 DEF Next
<1>. QED BY <1>1, <1>2, PTL DEF Spec

\* What each action does to the invariant's parts follows, part by part.

\* No exception, interrupt, kill or cleanup breaks the correspondence between
\* the table, the open transaction and the records.
THEOREM Consistent == Spec => []SeedInv
<1>1. Init => SeedInv
  BY DEF Init, SeedInv, LockInv, UniqueInv, RecordedInv, WantedInv, FaithfulInv,
         Writing, Open
<1>2. TypeOK /\ TypeOK' /\ SeedInv /\ [Next]_vars => SeedInv'
  <2>. SUFFICES ASSUME TypeOK, TypeOK', SeedInv, [Next]_vars PROVE SeedInv' OBVIOUS
  <2>. USE DEF Goto, Open, Writing
  <2>1. ASSUME NEW f \in Fixtures, CheckExisting(f) PROVE SeedInv'
    <3>1. LockInv' BY <2>1 DEF CheckExisting, SeedInv, LockInv, TypeOK, Rows
    <3>2. UniqueInv' BY <2>1 DEF CheckExisting, SeedInv, UniqueInv, TypeOK, Rows
    <3>3. RecordedInv' BY <2>1 DEF CheckExisting, SeedInv, RecordedInv, LockInv, TypeOK, Rows
    <3>4. WantedInv' BY <2>1 DEF CheckExisting, SeedInv, WantedInv, LockInv, TypeOK, Rows
    <3>5. FaithfulInv' BY <2>1 DEF CheckExisting, SeedInv, FaithfulInv, LockInv, TypeOK, Rows
    <3>. QED BY <3>1, <3>2, <3>3, <3>4, <3>5 DEF SeedInv
  <2>2. ASSUME NEW f \in Fixtures, Flush(f) PROVE SeedInv'
    <3>. PICK new \in NewRows(f) :
           pending' = new /\ owned' = [owned EXCEPT ![f] = Updated(@, new)]
      BY <2>2 DEF Flush
    <3>. /\ pc[f] = "checked" /\ pc' = [pc EXCEPT ![f] = "flushed"]
         /\ CanFlush(f) /\ lock' = {f} /\ UNCHANGED <<batch, rows>>
      BY <2>2 DEF Flush
    <3>. /\ new \subseteq Rows /\ \A r \in new : r.by = f /\ r.key \in batch[f]
         /\ \A r, s \in new : (r.key = s.key \/ r.id = s.id) => r = s
         /\ \A r \in new : \A s \in rows : r.id # s.id
      BY FreshRows
    <3>0. pending = {} BY DEF SeedInv, LockInv, CanFlush
    <3>1. LockInv' BY DEF SeedInv, LockInv, TypeOK, CanFlush
    <3>2. UniqueInv' BY DEF SeedInv, UniqueInv, CanFlush
    <3>3. RecordedInv'
      <4>1. \A r \in rows : pc[r.by] \in Open => Pair(r) \in owned[r.by]
        BY DEF SeedInv, RecordedInv
      <4>2. \A r \in rows : Pair(r).id = r.id BY DEF Pair
      <4>3. \A r \in rows : r.by \in Fixtures BY DEF TypeOK, Rows
      <4>4. \A r \in rows : pc'[r.by] \in Open => Pair(r) \in owned'[r.by]
        BY <4>1, <4>2, <4>3 DEF TypeOK, Updated
      <4>5. \A r \in new : Pair(r) \in owned'[r.by] BY DEF TypeOK, Updated
      <4>. QED BY <4>3, <4>4, <4>5 DEF SeedInv, RecordedInv, TypeOK
    <3>4. WantedInv'
      <4>1. \A p \in Updated(owned[f], new) : p.key \in Wanted[f]
        BY DEF SeedInv, WantedInv, Updated, Pair
      <4>2. \A g \in Fixtures : \A p \in owned'[g] : p.key \in Wanted[g]
        BY <4>1 DEF SeedInv, WantedInv, TypeOK
      <4>. QED BY <4>2 DEF SeedInv, WantedInv
    <3>5. FaithfulInv'
      <4>. SUFFICES ASSUME SafeSeeding, NEW g \in Fixtures \ Faulty,
                           pc'[g] \in Open, NEW p \in owned'[g]
                    PROVE  [id |-> p.id, key |-> p.key, by |-> g] \in rows' \cup pending'
        BY DEF SeedInv, FaithfulInv, TypeOK
      <4>1. pc[g] \in Open BY DEF TypeOK
      <4>2. CASE p \in owned[g] BY <3>0, <4>1, <4>2 DEF SeedInv, FaithfulInv
      <4>3. CASE p \notin owned[g]
        <5>1. g = f BY <4>3 DEF TypeOK
        <5>2. PICK r \in new : p = Pair(r) BY <4>3, <5>1 DEF TypeOK, Updated
        <5>3. r = [id |-> r.id, key |-> r.key, by |-> f] BY DEF Rows
        <5>. QED BY <5>1, <5>2, <5>3 DEF Pair
      <4>. QED BY <4>2, <4>3
    <3>. QED BY <3>1, <3>2, <3>3, <3>4, <3>5 DEF SeedInv
  <2>3. ASSUME NEW f \in Fixtures, FlushRaises(f) PROVE SeedInv'
    <3>1. LockInv' BY <2>3 DEF FlushRaises, SeedInv, LockInv, TypeOK, Rows
    <3>2. UniqueInv' BY <2>3 DEF FlushRaises, SeedInv, UniqueInv, TypeOK, Rows
    <3>3. RecordedInv' BY <2>3 DEF FlushRaises, SeedInv, RecordedInv, LockInv, TypeOK, Rows
    <3>4. WantedInv' BY <2>3 DEF FlushRaises, SeedInv, WantedInv, LockInv, TypeOK, Rows
    <3>5. FaithfulInv' BY <2>3 DEF FlushRaises, SeedInv, FaithfulInv, LockInv, TypeOK, Rows
    <3>. QED BY <3>1, <3>2, <3>3, <3>4, <3>5 DEF SeedInv
  <2>4. ASSUME NEW f \in Fixtures, CommitSeed(f) PROVE SeedInv'
    <3>1. LockInv' BY <2>4 DEF CommitSeed, SeedInv, LockInv, TypeOK, Rows
    <3>2. UniqueInv' BY <2>4 DEF CommitSeed, SeedInv, UniqueInv, TypeOK, Rows
    <3>3. RecordedInv' BY <2>4 DEF CommitSeed, SeedInv, RecordedInv, LockInv, TypeOK, Rows
    <3>4. WantedInv' BY <2>4 DEF CommitSeed, SeedInv, WantedInv, LockInv, TypeOK, Rows
    <3>5. FaithfulInv' BY <2>4 DEF CommitSeed, SeedInv, FaithfulInv, LockInv, TypeOK, Rows
    <3>. QED BY <3>1, <3>2, <3>3, <3>4, <3>5 DEF SeedInv
  <2>5. ASSUME NEW f \in Fixtures, CommitRaises(f) PROVE SeedInv'
    <3>1. LockInv' BY <2>5 DEF CommitRaises, SeedInv, LockInv, TypeOK, Rows
    <3>2. UniqueInv' BY <2>5 DEF CommitRaises, SeedInv, UniqueInv, TypeOK, Rows
    <3>3. RecordedInv' BY <2>5 DEF CommitRaises, SeedInv, RecordedInv, LockInv, TypeOK, Rows
    <3>4. WantedInv' BY <2>5 DEF CommitRaises, SeedInv, WantedInv, LockInv, TypeOK, Rows
    <3>5. FaithfulInv' BY <2>5 DEF CommitRaises, SeedInv, FaithfulInv, LockInv, TypeOK, Rows
    <3>. QED BY <3>1, <3>2, <3>3, <3>4, <3>5 DEF SeedInv
  <2>6. ASSUME NEW f \in Fixtures, Interrupt(f) PROVE SeedInv'
    <3>1. LockInv' BY <2>6 DEF Interrupt, SeedInv, LockInv, TypeOK, Rows
    <3>2. UniqueInv' BY <2>6 DEF Interrupt, SeedInv, UniqueInv, TypeOK, Rows
    <3>3. RecordedInv' BY <2>6 DEF Interrupt, SeedInv, RecordedInv, LockInv, TypeOK, Rows
    <3>4. WantedInv' BY <2>6 DEF Interrupt, SeedInv, WantedInv, LockInv, TypeOK, Rows
    <3>5. FaithfulInv' BY <2>6 DEF Interrupt, SeedInv, FaithfulInv, LockInv, TypeOK, Rows
    <3>. QED BY <3>1, <3>2, <3>3, <3>4, <3>5 DEF SeedInv
  <2>7. ASSUME NEW f \in Fixtures, InterruptUnrecorded(f) PROVE SeedInv'
    <3>. /\ pc[f] = "checked" /\ pc' = [pc EXCEPT ![f] = "interrupted"]
         /\ CanFlush(f) /\ lock' = {f} /\ UNCHANGED <<batch, owned, rows>>
         /\ f \in Faulty /\ pending' \in NewRows(f)
      BY <2>7 DEF InterruptUnrecorded
    <3>. /\ pending' \subseteq Rows /\ \A r \in pending' : r.by = f /\ r.key \in batch[f]
         /\ \A r, s \in pending' : (r.key = s.key \/ r.id = s.id) => r = s
         /\ \A r \in pending' : \A s \in rows : r.id # s.id
      BY FreshRows
    <3>1. LockInv' BY DEF SeedInv, LockInv, TypeOK, CanFlush
    <3>2. UniqueInv' BY DEF SeedInv, UniqueInv, CanFlush
    <3>3. RecordedInv' BY DEF SeedInv, RecordedInv, TypeOK, Rows
    <3>4. WantedInv' BY DEF SeedInv, WantedInv
    <3>5. FaithfulInv'
      <4>1. pending = {} BY DEF SeedInv, LockInv, CanFlush
      <4>. QED BY <4>1 DEF SeedInv, FaithfulInv, TypeOK
    <3>. QED BY <3>1, <3>2, <3>3, <3>4, <3>5 DEF SeedInv
  <2>8. ASSUME NEW f \in Fixtures, TestDeletes(f) PROVE SeedInv'
    <3>1. LockInv' BY <2>8 DEF TestDeletes, SeedInv, LockInv, TypeOK, Rows
    <3>2. UniqueInv' BY <2>8 DEF TestDeletes, SeedInv, UniqueInv, TypeOK, Rows
    <3>3. RecordedInv' BY <2>8 DEF TestDeletes, SeedInv, RecordedInv, LockInv, TypeOK, Rows
    <3>4. WantedInv' BY <2>8 DEF TestDeletes, SeedInv, WantedInv, LockInv, TypeOK, Rows
    <3>5. FaithfulInv' BY <2>8 DEF TestDeletes, SeedInv, FaithfulInv, LockInv, TypeOK, Rows
    <3>. QED BY <3>1, <3>2, <3>3, <3>4, <3>5 DEF SeedInv
  <2>9. ASSUME NEW f \in Fixtures, CleanupNothing(f) PROVE SeedInv'
    <3>1. LockInv' BY <2>9 DEF CleanupNothing, RolledBack, SeedInv, LockInv, TypeOK, Rows
    <3>2. UniqueInv' BY <2>9 DEF CleanupNothing, RolledBack, SeedInv, UniqueInv, TypeOK, Rows
    <3>3. RecordedInv' BY <2>9 DEF CleanupNothing, RolledBack, SeedInv, RecordedInv, LockInv, TypeOK, Rows
    <3>4. WantedInv' BY <2>9 DEF CleanupNothing, RolledBack, SeedInv, WantedInv, LockInv, TypeOK, Rows
    <3>5. FaithfulInv' BY <2>9 DEF CleanupNothing, RolledBack, SeedInv, FaithfulInv, LockInv, TypeOK, Rows
    <3>. QED BY <3>1, <3>2, <3>3, <3>4, <3>5 DEF SeedInv
  <2>10. ASSUME NEW f \in Fixtures, StartCleanup(f) PROVE SeedInv'
    <3>1. LockInv' BY <2>10 DEF StartCleanup, RolledBack, SeedInv, LockInv, TypeOK, Rows
    <3>2. UniqueInv' BY <2>10 DEF StartCleanup, RolledBack, SeedInv, UniqueInv, TypeOK, Rows
    <3>3. RecordedInv' BY <2>10 DEF StartCleanup, RolledBack, SeedInv, RecordedInv, LockInv, TypeOK, Rows
    <3>4. WantedInv' BY <2>10 DEF StartCleanup, RolledBack, SeedInv, WantedInv, LockInv, TypeOK, Rows
    <3>5. FaithfulInv' BY <2>10 DEF StartCleanup, RolledBack, SeedInv, FaithfulInv, LockInv, TypeOK, Rows
    <3>. QED BY <3>1, <3>2, <3>3, <3>4, <3>5 DEF SeedInv
  <2>11. ASSUME NEW f \in Fixtures, DeleteOwnedRows(f) PROVE SeedInv'
    <3>1. LockInv' BY <2>11 DEF DeleteOwnedRows, SeedInv, LockInv, TypeOK, Rows
    <3>2. UniqueInv' BY <2>11 DEF DeleteOwnedRows, SeedInv, UniqueInv, TypeOK, Rows
    <3>3. RecordedInv' BY <2>11 DEF DeleteOwnedRows, SeedInv, RecordedInv, LockInv, TypeOK, Rows
    <3>4. WantedInv' BY <2>11 DEF DeleteOwnedRows, SeedInv, WantedInv, LockInv, TypeOK, Rows
    <3>5. FaithfulInv' BY <2>11 DEF DeleteOwnedRows, SeedInv, FaithfulInv, LockInv, TypeOK, Rows
    <3>. QED BY <3>1, <3>2, <3>3, <3>4, <3>5 DEF SeedInv
  <2>12. ASSUME NEW f \in Fixtures, CommitCleanup(f) PROVE SeedInv'
    <3>1. LockInv' BY <2>12 DEF CommitCleanup, SeedInv, LockInv, TypeOK, Rows
    <3>2. UniqueInv' BY <2>12 DEF CommitCleanup, SeedInv, UniqueInv, TypeOK, Rows
    <3>3. RecordedInv' BY <2>12 DEF CommitCleanup, SeedInv, RecordedInv, LockInv, TypeOK, Rows
    <3>4. WantedInv' BY <2>12 DEF CommitCleanup, SeedInv, WantedInv, LockInv, TypeOK, Rows
    <3>5. FaithfulInv'
      <4>. SUFFICES ASSUME SafeSeeding, NEW g \in Fixtures \ Faulty
                    PROVE  /\ pc'[g] # "interrupted"
                           /\ pc'[g] \in Open => \A p \in owned'[g] :
                                [id |-> p.id, key |-> p.key, by |-> g] \in rows' \cup pending'
        BY DEF FaithfulInv
      <4>1. /\ pc[f] = "deleting" /\ pc' = [pc EXCEPT ![f] = "closed"]
            /\ rows' = {r \in rows : Pair(r) \notin owned[f]}
            /\ UNCHANGED <<owned, pending>>
        BY <2>12 DEF CommitCleanup
      <4>2. pc'[g] # "interrupted" BY <4>1 DEF TypeOK, SeedInv, FaithfulInv
      <4>3. ASSUME pc'[g] \in Open, NEW p \in owned'[g]
            PROVE  [id |-> p.id, key |-> p.key, by |-> g] \in rows' \cup pending'
        <5>. DEFINE row == [id |-> p.id, key |-> p.key, by |-> g]
        <5>1. g # f /\ pc[g] \in Open BY <4>1, <4>3 DEF TypeOK
        <5>2. row \in rows \cup pending BY <4>1, <4>3, <5>1 DEF SeedInv, FaithfulInv
        <5>3. Pair(row) \notin owned[f]
          <6>. SUFFICES ASSUME Pair(row) \in owned[f] PROVE FALSE OBVIOUS
          <6>. DEFINE own == [id |-> p.id, key |-> p.key, by |-> f]
          <6>1. p.key \in Wanted[f] \cap Wanted[g]
            BY <4>1, <4>3 DEF SeedInv, WantedInv, Pair
          <6>2. f \notin Faulty BY <5>1, <6>1 DEF SafeSeeding
          <6>3. own \in rows \cup pending BY <4>1, <6>2 DEF SeedInv, FaithfulInv, Pair
          <6>. QED BY <5>1, <5>2, <6>3 DEF SeedInv, UniqueInv
        <5>. QED BY <4>1, <5>2, <5>3
      <4>. QED BY <4>2, <4>3
    <3>. QED BY <3>1, <3>2, <3>3, <3>4, <3>5 DEF SeedInv
  <2>13. ASSUME NEW f \in Fixtures, CleanupRaises(f) PROVE SeedInv'
    <3>1. LockInv' BY <2>13 DEF CleanupRaises, SeedInv, LockInv, TypeOK, Rows
    <3>2. UniqueInv' BY <2>13 DEF CleanupRaises, SeedInv, UniqueInv, TypeOK, Rows
    <3>3. RecordedInv' BY <2>13 DEF CleanupRaises, SeedInv, RecordedInv, LockInv, TypeOK, Rows
    <3>4. WantedInv' BY <2>13 DEF CleanupRaises, SeedInv, WantedInv, LockInv, TypeOK, Rows
    <3>5. FaithfulInv' BY <2>13 DEF CleanupRaises, SeedInv, FaithfulInv, LockInv, TypeOK, Rows
    <3>. QED BY <3>1, <3>2, <3>3, <3>4, <3>5 DEF SeedInv
  <2>14. ASSUME NEW f \in Fixtures, Kill(f) PROVE SeedInv'
    <3>1. LockInv' BY <2>14 DEF Kill, RolledBack, SeedInv, LockInv, TypeOK, Rows
    <3>2. UniqueInv' BY <2>14 DEF Kill, RolledBack, SeedInv, UniqueInv, TypeOK, Rows
    <3>3. RecordedInv' BY <2>14 DEF Kill, RolledBack, SeedInv, RecordedInv, LockInv, TypeOK, Rows
    <3>4. WantedInv' BY <2>14 DEF Kill, RolledBack, SeedInv, WantedInv, LockInv, TypeOK, Rows
    <3>5. FaithfulInv' BY <2>14 DEF Kill, RolledBack, SeedInv, FaithfulInv, LockInv, TypeOK, Rows
    <3>. QED BY <3>1, <3>2, <3>3, <3>4, <3>5 DEF SeedInv
  <2>15. CASE UNCHANGED vars
    BY <2>15 DEF vars, SeedInv, LockInv, UniqueInv, RecordedInv, WantedInv, FaithfulInv
  <2>. QED BY <2>1, <2>2, <2>3, <2>4, <2>5, <2>6, <2>7, <2>8, <2>9, <2>10, <2>11, <2>12, <2>13, <2>14, <2>15 DEF Next
<1>. QED BY <1>1, <1>2, Typed, PTL DEF Spec

\* A cleanup that went through left no row of its fixture (_cleanup_seeds).
THEOREM CleanupLeavesNothing == Spec => []NoLeftovers
<1>1. SeedInv => NoLeftovers BY DEF SeedInv, RecordedInv, NoLeftovers
<1>. QED BY <1>1, Consistent, PTL

\* Where nothing raises between flush and commit and the test deletes no seed of
\* its own, a record agrees with what was committed (_persist).
THEOREM RecordsAgree ==
  ASSUME SafeSeeding
  PROVE  Spec => []CarefulRecordsMatch
<1>1. TypeOK /\ SeedInv => CarefulRecordsMatch
  <2>. SUFFICES ASSUME TypeOK, SeedInv, NEW f \in Fixtures \ Faulty,
                       pc[f] \in {"open", "checked"}, NEW p \in owned[f]
                PROVE  [id |-> p.id, key |-> p.key, by |-> f] \in rows
    BY DEF CarefulRecordsMatch, RecordMatches
  <2>. DEFINE row == [id |-> p.id, key |-> p.key, by |-> f]
  <2>1. row \in rows \cup pending BY DEF SeedInv, FaithfulInv, Open
  <2>2. row.by = f OBVIOUS
  <2>3. row \notin pending BY <2>2 DEF SeedInv, LockInv
  <2>. QED BY <2>1, <2>3
<1>. QED BY <1>1, Typed, Consistent, PTL

\* Nobody's cleanup deletes a row of another fixture, if in tests that share a key
\* nothing raises between flush and commit and no seed is deleted: for every
\* number of fixtures, keys and ids (_delete_owned_rows).
THEOREM SeedsAreKept ==
  ASSUME SafeSeeding
  PROVE  Spec => RowsGoWithTheirSeeder
<1>1. TypeOK /\ SeedInv /\ [Next]_vars => [RowsStep]_vars
  <2>. SUFFICES ASSUME TypeOK, SeedInv, [Next]_vars, NEW r \in rows, r \notin rows'
                PROVE  /\ pc[r.by] \in {"open", "deleting"}
                       /\ \A f \in Fixtures \ {r.by} : pc'[f] = pc[f]
    BY DEF RowsStep
  <2>1. r.by \in Fixtures /\ r \in Rows BY DEF TypeOK, Rows
  <2>2. PICK f \in Fixtures : TestDeletes(f) \/ CommitCleanup(f)
    BY DEF Next, vars, CheckExisting, Flush, FlushRaises, CommitSeed, CommitRaises,
           Interrupt, InterruptUnrecorded, CleanupNothing, StartCleanup,
           DeleteOwnedRows, CleanupRaises, Kill
  <2>3. CASE TestDeletes(f) BY <2>1, <2>3 DEF TestDeletes
  <2>4. CASE CommitCleanup(f)
    <3>1. Pair(r) \in owned[f] /\ pc[f] = "deleting" BY <2>4 DEF CommitCleanup, Goto
    <3>2. r.by = f
      <4>. SUFFICES ASSUME r.by # f PROVE FALSE OBVIOUS
      <4>. DEFINE own == [id |-> r.id, key |-> r.key, by |-> f]
      <4>1. r.key \in Wanted[f] BY <3>1 DEF SeedInv, WantedInv, Pair
      <4>2. r.key \in Wanted[r.by] BY DEF SeedInv, WantedInv
      <4>3. f \notin Faulty BY <2>1, <4>1, <4>2 DEF SafeSeeding
      <4>4. own \in rows \cup pending
        BY <3>1, <4>3 DEF SeedInv, FaithfulInv, Open, Writing, Pair
      <4>5. own = r BY <4>4 DEF SeedInv, UniqueInv
      <4>. QED BY <4>5
    <3>. QED BY <2>4, <3>1, <3>2 DEF CommitCleanup, Goto, TypeOK
  <2>. QED BY <2>2, <2>3, <2>4
<1>. QED BY <1>1, Typed, Consistent, PTL DEF Spec, RowsGoWithTheirSeeder

\* What the run checks of the record and the cleanup, for tests that share keys safely.
THEOREM Owned ==
  ASSUME SafeSeeding
  PROVE  Spec => SeedsAreOwned
BY RecordsAgree, SeedsAreKept, PTL DEF RowsGoWithTheirSeeder, SeedsAreOwned

HIDE SeedAssumption

-----------------------------------------------------------------------------
(* The inductive invariant of DagMetadata *)

DagsIn(s) == {s[i].dag : i \in DOMAIN s}
RecDags(w) == DagsIn(recs[w])

Uncommitted == {"authoring", "read", "written"}
Registering == Uncommitted \cup {"committed", "discarding"}

BundleFits(w, r) ==
  /\ r.dag \in DagsOf[w]
  /\ r.bundle = r.dag \/ (r.bundle = Testing /\ w \in FaultyWorkers /\ ~v2)
  /\ r.session \in Sessions(w)

\* A worker's records, and what it relies on, are of its own Dags.
OwnRecords(w) ==
  /\ at[w] \in Registering => cur[w] \in Records /\ BundleFits(w, cur[w]) /\ cur[w].runs = {}
  /\ \A i \in DOMAIN recs[w] : BundleFits(w, recs[w][i])
  /\ authoring[w] \subseteq RecDags(w)
  /\ \A x \in live[w] : x = SharedBundle \/ x.dag \in RecDags(w)

\* The write lock is held by a session that wrote, or that the test flushed.
OwnLock(w) ==
  /\ at[w] = "written" => writer = w
  /\ staged[w] = "flushed" => writer = w
  /\ writer = w => at[w] = "written" \/ staged[w] = "flushed"
  /\ (at[w] = "written" /\ cur[w].session = "owned") => staged[w] # "flushed"
  /\ staged[w] # "none" => w \in Borrowing
  /\ (at[w] = "read" /\ writer = w) => Fresh(w)
  /\ staged[w] = "lost" => problems[w] # {}

\* A model in the database is one this process persisted, of one of two bundles.
OwnModels(w) ==
  /\ \A d \in DagsOf[w] : db.models[d] # NoModel => d \in persisted[w]
  /\ RecDags(w) \subseteq persisted[w]
  /\ at[w] = "committed" => cur[w].dag \in persisted[w]
  /\ ~xdist => "refused" \notin problems[w]

\* A test without faults meets no row in its way and loses none.
OwnHealth(w) ==
  w \notin FaultyWorkers =>
    /\ problems[w] = {} \/ staged[w] = "lost"
    /\ (at[w] = "read" /\ ~v2) => Fresh(w)
    /\ \A d \in DagsOf[w] :
         /\ db.models[d] \in {NoModel, d}
         /\ db.models[d] # NoModel => d \in RecDags(w) \/ (at[w] = "committed" /\ cur[w].dag = d)
    /\ \A i, j \in DOMAIN recs[w] : recs[w][i].dag = recs[w][j].dag => i = j
    /\ at[w] \in Registering => cur[w].dag \notin RecDags(w)
    /\ \A i \in DOMAIN recs[w] : [dag |-> recs[w][i].dag, bundle |-> recs[w][i].bundle] \in db.versions

\* What the running test relies on is there, and no registration under way, nor
\* its rollback, touches it.
OwnLive(w) ==
  /\ at[w] \in Uncommitted => db.models[cur[w].dag] = NoModel
  /\ at[w] = "committed" =>
       /\ db.models[cur[w].dag] = cur[w].bundle
       /\ [dag |-> cur[w].dag, bundle |-> cur[w].bundle] \in db.versions
  /\ (at[w] \in {"committed", "discarding"} /\ cur[w].dag \in RecDags(w)) =>
       /\ db.models[cur[w].dag] \in {NoModel, cur[w].bundle}
       /\ \A v \in db.versions : v.dag = cur[w].dag => v.bundle = cur[w].bundle
  /\ at[w] # "teardown" => \A d \in RecDags(w) :
       db.models[d] = NoModel => \A v \in db.versions : v.dag # d
  /\ at[w] # "teardown" => \A x \in live[w] : x # SharedBundle =>
       \/ x \in db.runs /\ (v2 \/ db.models[x.dag] # NoModel)
       \/ x \in db.versions /\ db.models[x.dag] # NoModel
  /\ at[w] \in Registering => \A x \in live[w] : (x # SharedBundle /\ x.dag = cur[w].dag) =>
       v2 /\ x \in db.runs

\* The records that answer for committed rows.
Holds(w, r) == (\E i \in DOMAIN recs[w] : recs[w][i] = r) \/ (at[w] = "committed" /\ cur[w] = r)

\* While nothing was reported, every row of a worker's Dags has a record that
\* will delete it.
OwnRows(w) ==
  /\ at[w] = "discarding" => problems[w] # {}
  /\ (at[w] = "written" /\ ~v2 /\ cur[w].bundle \in Dags \ db.shared) => cur[w].created
  /\ v2 => \A d \in DagsOf[w] : d \notin db.shared
  /\ problems[w] = {} => \A d \in DagsOf[w] :
       /\ db.models[d] = d => \E r \in Records : Holds(w, r) /\ r.dag = d /\ r.bundle = d
       /\ \A v \in db.versions : v.dag = d =>
            \E r \in Records : Holds(w, r) /\ r.dag = d /\ r.bundle = v.bundle
       /\ d \in db.shared => \E r \in Records : Holds(w, r) /\ r.bundle = d /\ r.created
       /\ \A x \in db.runs : x.dag = d =>
            \/ v2 /\ x.by = "airflow"
            \/ \E r \in Records : Holds(w, r) /\ r.dag = d /\ (v2 => x.id \in r.runs)

TwoBundles == \A d \in Dags : db.models[d] \in {NoModel, d, Testing}

WorkerInv(w) ==
  OwnRecords(w) /\ OwnLock(w) /\ OwnModels(w) /\ OwnHealth(w) /\ OwnLive(w) /\ OwnRows(w)

DagInv == TwoBundles /\ \A w \in running : WorkerInv(w)

-----------------------------------------------------------------------------
(* What the writes and deletions do to the rows *)

\* What a registration writes.
LEMMA WrittenRows ==
  ASSUME NEW d \in Databases, NEW r \in Records
  PROVE  /\ Written(d, r) \in Databases
         /\ Written(d, r).models = [d.models EXCEPT ![r.dag] = r.bundle]
         /\ Written(d, r).versions = d.versions \cup {[dag |-> r.dag, bundle |-> r.bundle]}
         /\ Written(d, r).runs = d.runs
         /\ Written(d, r).shared = d.shared \cup {SharedRow(r)}
<1>1. /\ Written(d, r).models = [d.models EXCEPT ![r.dag] = r.bundle]
      /\ Written(d, r).versions = d.versions \cup {[dag |-> r.dag, bundle |-> r.bundle]}
      /\ Written(d, r).runs = d.runs
      /\ Written(d, r).shared = d.shared \cup {SharedRow(r)}
  BY DEF Written, Databases
<1>2. SharedRow(r) \in Bundles \cup {CodeRow} BY DEF SharedRow, Records
<1>3. r.dag \in Dags /\ r.bundle \in Bundles BY DEF Records
<1>4. [dag |-> r.dag, bundle |-> r.bundle] \in Registrations BY <1>3 DEF Registrations
<1>5. /\ d.models \in [Dags -> Bundles \cup {NoModel}] /\ d.versions \subseteq Registrations
      /\ d.shared \subseteq Bundles \cup {CodeRow}
  BY DEF Databases
<1>6. Written(d, r).models \in [Dags -> Bundles \cup {NoModel}] BY <1>1, <1>3, <1>5
<1>7. Written(d, r).versions \subseteq Registrations BY <1>1, <1>4, <1>5
<1>8. Written(d, r).shared \subseteq Bundles \cup {CodeRow} BY <1>1, <1>2, <1>5
<1>9. Written(d, r) \in Databases
  <2>. DEFINE m1 == [d.models EXCEPT ![r.dag] = r.bundle]
              v1 == d.versions \cup {[dag |-> r.dag, bundle |-> r.bundle]}
              s1 == d.shared \cup {SharedRow(r)}
  <2>1. Written(d, r) = [d EXCEPT !.models = m1, !.versions = v1, !.shared = s1] BY DEF Written
  <2>2. m1 \in [Dags -> Bundles \cup {NoModel}] /\ v1 \subseteq Registrations
        /\ s1 \subseteq Bundles \cup {CodeRow}
    BY <1>1, <1>6, <1>7, <1>8
  <2>. HIDE DEF m1, v1, s1
  <2>. QED BY <2>1, <2>2 DEF Databases
<1>. QED BY <1>1, <1>9

\* What _purge_dag_metadata leaves.
LEMMA PurgedRows ==
  ASSUME NEW d \in Databases, NEW dag \in Dags
  PROVE  /\ Purged(d, dag) \in Databases
         /\ Purged(d, dag).models = [d.models EXCEPT ![dag] = NoModel]
         /\ Purged(d, dag).versions = {v \in d.versions : v.dag # dag}
         /\ Purged(d, dag).runs = {x \in d.runs : x.dag # dag}
         /\ Purged(d, dag).shared = d.shared
BY DEF Purged, Databases

\* What a cleanup leaves, on both families.
LEMMA RemovedRows ==
  ASSUME NEW d \in Databases, NEW r \in Records
  PROVE  /\ Removed(d, r) \in Databases
         /\ Removed(d, r).models = [d.models EXCEPT ![r.dag] = IF v2 \/ @ = r.bundle THEN NoModel ELSE @]
         /\ Removed(d, r).versions = {v \in d.versions :
              IF v2 THEN v.dag # r.dag ELSE v # [dag |-> r.dag, bundle |-> r.bundle]}
         /\ Removed(d, r).runs = {x \in d.runs : IF v2 THEN ~(x.id \in r.runs /\ x.dag = r.dag) ELSE x.dag # r.dag}
         /\ Removed(d, r).shared =
              IF ~v2 /\ r.created /\ \A dag \in Dags : Removed(d, r).models[dag] # r.bundle
              THEN d.shared \ {r.bundle} ELSE d.shared
<1>1. CASE v2
  <2>1. Removed(d, r) = [d EXCEPT !.runs = DeleteOwned(@, r), !.versions = {v \in @ : v.dag # r.dag},
                                  !.models[r.dag] = NoModel]
    BY <1>1 DEF Removed, Removed2
  <2>2. DeleteOwned(d.runs, r) = {x \in d.runs : ~(x.id \in r.runs /\ x.dag = r.dag)}
    BY DEF DeleteOwned
  <2>. DEFINE runs == DeleteOwned(d.runs, r)
              versions == {v \in d.versions : v.dag # r.dag}
              models == [d.models EXCEPT ![r.dag] = NoModel]
              after == [d EXCEPT !.runs = runs, !.versions = versions, !.models = models]
  <2>3. Removed(d, r) = after
    BY <2>1 DEF Databases
  <2>4. runs \subseteq d.runs /\ versions \subseteq d.versions
    BY <2>2
  <2>5. models \in [Dags -> Bundles \cup {NoModel}]
    BY DEF Databases
  <2>. HIDE DEF runs, versions, models
  <2>6. /\ after \in Databases /\ after.models = models /\ after.versions = versions
        /\ after.runs = runs /\ after.shared = d.shared
    BY <2>4, <2>5 DEF Databases
  <2>. HIDE DEF after
  <2>7. models = [d.models EXCEPT ![r.dag] = IF v2 \/ @ = r.bundle THEN NoModel ELSE @]
    BY <1>1 DEF models
  <2>8. versions = {v \in d.versions :
              IF v2 THEN v.dag # r.dag ELSE v # [dag |-> r.dag, bundle |-> r.bundle]}
    BY <1>1 DEF versions
  <2>9. runs = {x \in d.runs : IF v2 THEN ~(x.id \in r.runs /\ x.dag = r.dag) ELSE x.dag # r.dag}
    BY <1>1, <2>2 DEF runs
  <2>10. Removed(d, r) \in Databases
    BY <2>3, <2>6
  <2>11. Removed(d, r).models = models /\ Removed(d, r).versions = versions
         /\ Removed(d, r).runs = runs /\ Removed(d, r).shared = d.shared
    BY <2>3, <2>6
  <2>. QED BY <1>1, <2>7, <2>8, <2>9, <2>10, <2>11
<1>2. CASE ~v2
  <2>. DEFINE swept == [d EXCEPT !.runs = SweptRuns(@, r),
                         !.versions = @ \ {[dag |-> r.dag, bundle |-> r.bundle]},
                         !.models[r.dag] = IF @ = r.bundle THEN NoModel ELSE @]
  <2>1. /\ swept \in Databases
        /\ swept.models = [d.models EXCEPT ![r.dag] = IF @ = r.bundle THEN NoModel ELSE @]
        /\ swept.versions = d.versions \ {[dag |-> r.dag, bundle |-> r.bundle]}
        /\ swept.runs = {x \in d.runs : x.dag # r.dag}
        /\ swept.shared = d.shared
    BY DEF Databases, SweptRuns
  <2>2. Removed(d, r) = IF r.created /\ \A dag \in Dags : swept.models[dag] # r.bundle
                        THEN [swept EXCEPT !.shared = @ \ {r.bundle}] ELSE swept
    BY <1>2 DEF Removed, Removed3
  <2>. HIDE DEF swept
  <2>3. Removed(d, r).models = swept.models BY <2>1, <2>2 DEF Databases
  <2>4. Removed(d, r).versions = swept.versions /\ Removed(d, r).runs = swept.runs
    BY <2>1, <2>2 DEF Databases
  <2>5. Removed(d, r) \in Databases BY <2>1, <2>2 DEF Databases
  <2>6. Removed(d, r).shared =
              IF r.created /\ \A dag \in Dags : Removed(d, r).models[dag] # r.bundle
              THEN d.shared \ {r.bundle} ELSE d.shared
    BY <2>1, <2>2, <2>3 DEF Databases
  <2>. QED BY <1>2, <2>1, <2>3, <2>4, <2>5, <2>6
<1>. QED BY <1>1, <1>2

\* A list of records, its domain and its last.
LEMMA SequenceFacts ==
  ASSUME NEW s \in Seq(Records)
  PROVE  /\ Len(s) \in Nat /\ DOMAIN s = 1..Len(s)
         /\ \A i \in DOMAIN s : s[i] \in Records
         /\ s # <<>> => Len(s) \in DOMAIN s /\ Len(s) >= 1
OBVIOUS

\* A record appended.
LEMMA AppendFacts ==
  ASSUME NEW s \in Seq(Records), NEW r \in Records
  PROVE  /\ Append(s, r) \in Seq(Records)
         /\ DOMAIN Append(s, r) = 1..(Len(s) + 1)
         /\ \A i \in DOMAIN s : Append(s, r)[i] = s[i]
         /\ Append(s, r)[Len(s) + 1] = r
OBVIOUS

\* The last record popped.
LEMMA PopFacts ==
  ASSUME NEW s \in Seq(Records), s # <<>>
  PROVE  /\ SubSeq(s, 1, Len(s) - 1) \in Seq(Records)
         /\ DOMAIN SubSeq(s, 1, Len(s) - 1) = 1..(Len(s) - 1)
         /\ \A i \in 1..(Len(s) - 1) : SubSeq(s, 1, Len(s) - 1)[i] = s[i]
OBVIOUS

\* The last record changed in place.
LEMMA LastFacts ==
  ASSUME NEW s \in Seq(Records), s # <<>>, NEW r \in Records
  PROVE  /\ [s EXCEPT ![Len(s)] = r] \in Seq(Records)
         /\ DOMAIN [s EXCEPT ![Len(s)] = r] = DOMAIN s
         /\ Len([s EXCEPT ![Len(s)] = r]) = Len(s)
         /\ \A i \in DOMAIN s : [s EXCEPT ![Len(s)] = r][i] = IF i = Len(s) THEN r ELSE s[i]
<1>1. s \in [1..Len(s) -> Records] OBVIOUS
<1>2. [s EXCEPT ![Len(s)] = r] \in [1..Len(s) -> Records] BY <1>1
<1>. QED BY <1>1, <1>2

-----------------------------------------------------------------------------
(* Types *)

\* The record a test works with is the last one.
LastIs(w, new) == recs' = [recs EXCEPT ![w] = [recs[w] EXCEPT ![Len(recs[w])] = new]]

\* The record a test works with is one of its worker's.
LEMMA CurrentRecord ==
  ASSUME DagTypeOK, NEW w \in Workers, recs[w] # <<>>
  PROVE  /\ Current(w) \in Records /\ recs[w] \in Seq(Records)
         /\ Len(recs[w]) \in DOMAIN recs[w] /\ Current(w) = recs[w][Len(recs[w])]
         /\ Current(w).dag \in RecDags(w)
BY SequenceFacts DEF DagTypeOK, Current, RecDags, DagsIn

\* A record that learns of a run is otherwise as it was.
LEMMA RecordWithRun ==
  ASSUME NEW r \in Records, NEW id \in RunIds
  PROVE  /\ [r EXCEPT !.runs = @ \cup {id}] \in Records
         /\ [r EXCEPT !.runs = @ \cup {id}].runs = r.runs \cup {id}
         /\ [r EXCEPT !.runs = @ \cup {id}].dag = r.dag
         /\ [r EXCEPT !.runs = @ \cup {id}].bundle = r.bundle
         /\ [r EXCEPT !.runs = @ \cup {id}].session = r.session
         /\ [r EXCEPT !.runs = @ \cup {id}].created = r.created
BY DEF Records

\* A record that learns it created a bundle is otherwise as it was.
LEMMA RecordCreating ==
  ASSUME NEW r \in Records, NEW b \in BOOLEAN
  PROVE  /\ [r EXCEPT !.created = b] \in Records
         /\ [r EXCEPT !.created = b].runs = r.runs
         /\ [r EXCEPT !.created = b].dag = r.dag
         /\ [r EXCEPT !.created = b].bundle = r.bundle
         /\ [r EXCEPT !.created = b].session = r.session
         /\ [r EXCEPT !.created = b].created = b
BY DEF Records

\* create_dag_run and resync_dag change the last record.
LEMMA CreateRunRecords ==
  ASSUME DagTypeOK, NEW w \in Workers, CreateRun(w)
  PROVE  \E id \in RunIds, x \in Runs :
           /\ x = [id |-> id, dag |-> Current(w).dag, by |-> "fixture"]
           /\ db' = [db EXCEPT !.runs = @ \cup {x}]
           /\ live' = [live EXCEPT ![w] = @ \cup {x}]
           /\ LastIs(w, [Current(w) EXCEPT !.runs = @ \cup {id}])
<1>1. PICK id \in RunIds :
        /\ db' = [db EXCEPT !.runs = @ \cup {[id |-> id, dag |-> Current(w).dag, by |-> "fixture"]}]
        /\ recs' = [recs EXCEPT ![w][Len(recs[w])].runs = @ \cup {id}]
        /\ live' = [live EXCEPT ![w] = @ \cup {[id |-> id, dag |-> Current(w).dag, by |-> "fixture"]}]
  BY DEF CreateRun
<1>2. recs[w] # <<>> BY DEF CreateRun, HasDag
<1>3. Current(w).dag \in Dags BY <1>2, CurrentRecord DEF Records
<1>4. [id |-> id, dag |-> Current(w).dag, by |-> "fixture"] \in Runs BY <1>3 DEF Runs
<1>5. LastIs(w, [Current(w) EXCEPT !.runs = @ \cup {id}]) BY <1>1 DEF LastIs, Current
<1>. QED BY <1>1, <1>4, <1>5

\* resync_dag claims the bundle if it had to create it again.
LEMMA ResyncRecords ==
  ASSUME DagTypeOK, NEW w \in Workers, Resync(w)
  PROVE  \E b \in BOOLEAN :
           /\ b <=> (Current(w).created \/ (~v2 /\ Current(w).bundle \notin db.shared))
           /\ LastIs(w, [Current(w) EXCEPT !.created = b])
<1>1. recs[w] # <<>> BY DEF Resync, HasDag
<1>2. Current(w).created \in BOOLEAN BY <1>1, CurrentRecord DEF Records
<1>. DEFINE b == Current(w).created \/ (~v2 /\ Current(w).bundle \notin db.shared)
<1>3. recs' = [recs EXCEPT ![w][Len(recs[w])].created = b] BY DEF Resync, Current
<1>4. b \in BOOLEAN BY <1>2
<1>. HIDE DEF b
<1>5. LastIs(w, [Current(w) EXCEPT !.created = b]) BY <1>3 DEF LastIs, Current
<1>6. b <=> (Current(w).created \/ (~v2 /\ Current(w).bundle \notin db.shared)) BY DEF b
<1>. QED BY <1>4, <1>5, <1>6

\* What becomes of the lent session and of the lock, typed.
LEMMA SessionTypes ==
  ASSUME DagTypeOK, NEW w \in Workers, NEW session
  PROVE  /\ Committed(w, session) \in {"none", "staged", "flushed", "durable", "lost"}
         /\ Discarded(w, session) \in {"none", "staged", "flushed", "durable", "lost"}
         /\ StagedAfter(w) \in {"none", "staged", "flushed", "durable", "lost"}
         /\ Released(w, session) \in Workers \cup {Nobody}
BY DEF DagTypeOK, Committed, Discarded, StagedAfter, Released

\* The record of a context a test enters is of the worker's own Dags.
LEMMA WantedTypes ==
  ASSUME NEW w \in Workers, NEW r \in WantedRecords(w)
  PROVE  r \in Records /\ r.dag \in DagsOf[w] /\ r.dag \in Dags /\ r.runs = {} /\ r.created = FALSE /\ r.session \in Sessions(w)
<1>1. PICK dag \in DagsOf[w], bundle \in Bundles, session \in Sessions(w) : r = Record(dag, bundle, session)
  BY DEF WantedRecords
<1>2. dag \in Dags BY DagAssumption
<1>3. session \in {"owned", "borrowed"} BY DEF Sessions
<1>. QED BY <1>1, <1>2, <1>3 DEF Record, Records

\* Either the run without xdist, or its workers.
LEMMA RunningWorkers == ASSUME DagTypeOK PROVE running \subseteq Workers
BY DagAssumption DEF DagTypeOK

\* Type correctness.
LEMMA DagTyped == DagTypeOK /\ DagInv /\ [DagNext]_dagVars => DagTypeOK'
<1>. SUFFICES ASSUME DagTypeOK, DagInv, [DagNext]_dagVars PROVE DagTypeOK' OBVIOUS
<1>. USE DEF DagTypeOK
<1>1. CASE UNCHANGED dagVars BY <1>1 DEF dagVars, local
<1>2. ASSUME NEW w \in running, Register(w) \/ Body(w) \/ Teardown(w) PROVE DagTypeOK'
  <2>w. w \in Workers BY RunningWorkers
  <2>c. at[w] \in Registering => cur[w] \in Records BY <2>w DEF DagInv, WorkerInv, OwnRecords
  <2>d. at[w] \in Registering => cur[w].dag \in Dags /\ cur[w].bundle \in Bundles BY <2>c DEF Records
  <2>. USE <2>w
  <2>1. CASE Enter(w)
    <3>1. PICK r \in WantedRecords(w) : cur' = [cur EXCEPT ![w] = r] BY <2>1 DEF Enter
    <3>2. r \in Records BY <3>1, WantedTypes
    <3>. QED BY <2>1, <3>1, <3>2 DEF Enter, Move
  <2>2. CASE EnterRefused(w) BY <2>2 DEF EnterRefused, Report
  <2>3. CASE EnterReplacing(w)
    <3>1. PICK r \in WantedRecords(w) :
            /\ db' = Purged(db, r.dag) /\ cur' = [cur EXCEPT ![w] = r]
            /\ staged' = [staged EXCEPT ![w] = Committed(w, r.session)] /\ writer' = Released(w, r.session)
            /\ Forget(w, r.dag)
      BY <2>3 DEF EnterReplacing
    <3>2. r \in Records /\ r.dag \in Dags BY <3>1, WantedTypes
    <3>3. db' \in Databases BY <3>1, <3>2, PurgedRows
    <3>4. live' \in [Workers -> SUBSET (Registrations \cup {SharedBundle} \cup Runs)] BY <3>1 DEF Forget
    <3>5. staged' \in [Workers -> {"none", "staged", "flushed", "durable", "lost"}] /\ writer' \in Workers \cup {Nobody}
      BY <3>1, SessionTypes
    <3>6. cur' \in [Workers -> Records \cup {NoRecord}] BY <3>1, <3>2
    <3>. QED BY <2>3, <3>3, <3>4, <3>5, <3>6 DEF EnterReplacing, Move
  <2>4. CASE PurgeRaises(w)
    <3>1. staged' \in [Workers -> {"none", "staged", "flushed", "durable", "lost"}] /\ writer' \in Workers \cup {Nobody}
      BY <2>4, SessionTypes DEF PurgeRaises
    <3>. QED BY <2>4, <3>1 DEF PurgeRaises, Report
  <2>5. CASE AuthoringRaises(w) BY <2>5 DEF AuthoringRaises, Move
  <2>6. CASE ReadShared(w) BY <2>6 DEF ReadShared, Move
  <2>7. CASE WriteRows(w)
    <3>1. cur[w] \in Records BY <2>7, <2>c DEF WriteRows, Move, Registering, Uncommitted
    <3>. DEFINE b == ~v2 /\ ~saw[w]
    <3>2. b \in BOOLEAN OBVIOUS
    <3>3. cur' = [cur EXCEPT ![w] = [cur[w] EXCEPT !.created = b]] BY <2>7 DEF WriteRows
    <3>. HIDE DEF b
    <3>4. cur' \in [Workers -> Records \cup {NoRecord}] BY <3>1, <3>2, <3>3, RecordCreating
    <3>. QED BY <2>7, <3>4 DEF WriteRows, Move
  <2>8. CASE RetrySync(w)
    <3>1. staged' \in [Workers -> {"none", "staged", "flushed", "durable", "lost"}] /\ writer' \in Workers \cup {Nobody}
      BY <2>8, SessionTypes DEF RetrySync
    <3>. QED BY <2>8, <3>1 DEF RetrySync, Move
  <2>9. CASE CommitRows(w)
    <3>1. cur[w] \in Records /\ cur[w].dag \in Dags BY <2>9, <2>c, <2>d DEF CommitRows, Move, Registering, Uncommitted
    <3>2. db' \in Databases BY <2>9, <3>1, WrittenRows DEF CommitRows
    <3>3. staged' \in [Workers -> {"none", "staged", "flushed", "durable", "lost"}] BY <2>9, SessionTypes DEF CommitRows
    <3>4. persisted' \in [Workers -> SUBSET Dags] BY <2>9, <3>1 DEF CommitRows
    <3>. QED BY <2>9, <3>2, <3>3, <3>4 DEF CommitRows, Move
  <2>10. CASE LoadSerialized(w)
    <3>1. cur[w] \in Records /\ cur[w].dag \in Dags /\ cur[w].bundle \in Bundles
      BY <2>10, <2>c, <2>d DEF LoadSerialized, Move, Registering, Uncommitted
    <3>2. recs' \in [Workers -> Seq(Records)] BY <2>10, <3>1 DEF LoadSerialized
    <3>3. [dag |-> cur[w].dag, bundle |-> cur[w].bundle] \in Registrations BY <3>1 DEF Registrations
    <3>4. live' \in [Workers -> SUBSET (Registrations \cup {SharedBundle} \cup Runs)] BY <2>10, <3>3 DEF LoadSerialized
    <3>5. authoring' \in [Workers -> SUBSET Dags] BY <2>10, <3>1 DEF LoadSerialized
    <3>. QED BY <2>10, <3>2, <3>4, <3>5 DEF LoadSerialized, Move
  <2>11. CASE PersistRaises(w)
    <3>1. staged' \in [Workers -> {"none", "staged", "flushed", "durable", "lost"}] /\ writer' \in Workers \cup {Nobody}
      BY <2>11, SessionTypes DEF PersistRaises
    <3>. QED BY <2>11, <3>1 DEF PersistRaises, Report
  <2>12. CASE Discard(w)
    <3>1. cur[w] \in Records BY <2>12, <2>c DEF Discard, Move, Registering
    <3>3. db \in Databases OBVIOUS
    <3>4. Removed(db, cur[w]) \in Databases BY <3>1, <3>3, RemovedRows
    <3>2. db' \in Databases BY <2>12, <3>4 DEF Discard
    <3>. QED BY <2>12, <3>2 DEF Discard, Move
  <2>13. CASE Interrupted(w)
    <3>1. writer' \in Workers \cup {Nobody} BY <2>13, SessionTypes DEF Interrupted
    <3>. QED BY <2>13, <3>1 DEF Interrupted, Report
  <2>14. CASE CreateRun(w)
    <3>0. recs[w] # <<>> BY <2>14 DEF CreateRun, HasDag
    <3>1. PICK id \in RunIds, x \in Runs :
           /\ db' = [db EXCEPT !.runs = @ \cup {x}]
           /\ live' = [live EXCEPT ![w] = @ \cup {x}]
           /\ LastIs(w, [Current(w) EXCEPT !.runs = @ \cup {id}])
      BY <2>14, CreateRunRecords
    <3>2. [Current(w) EXCEPT !.runs = @ \cup {id}] \in Records BY <3>0, CurrentRecord, RecordWithRun
    <3>3. recs' \in [Workers -> Seq(Records)] BY <3>0, <3>1, <3>2, LastFacts DEF LastIs
    <3>4. db' \in Databases BY <3>1 DEF Databases
    <3>5. staged' \in [Workers -> {"none", "staged", "flushed", "durable", "lost"}] /\ writer' \in Workers \cup {Nobody}
      BY <2>14, SessionTypes DEF CreateRun
    <3>6. live' \in [Workers -> SUBSET (Registrations \cup {SharedBundle} \cup Runs)] BY <3>1
    <3>. QED BY <2>14, <3>3, <3>4, <3>5, <3>6 DEF CreateRun
  <2>15. CASE CreateRunRaises(w)
    <3>1. staged' \in [Workers -> {"none", "staged", "flushed", "durable", "lost"}] /\ writer' \in Workers \cup {Nobody}
      BY <2>15, SessionTypes DEF CreateRunRaises
    <3>. QED BY <2>15, <3>1 DEF CreateRunRaises, Report
  <2>16. CASE AirflowRun(w)
    <3>0. Current(w).dag \in Dags BY <2>16, CurrentRecord DEF AirflowRun, HasDag, Records
    <3>1. PICK id \in RunIds : LET x == [id |-> id, dag |-> Current(w).dag, by |-> "airflow"] IN
           /\ db' = [db EXCEPT !.runs = @ \cup {x}]
           /\ live' = [live EXCEPT ![w] = @ \cup {x}]
      BY <2>16 DEF AirflowRun
    <3>2. [id |-> id, dag |-> Current(w).dag, by |-> "airflow"] \in Runs BY <3>0 DEF Runs
    <3>3. db' \in Databases BY <3>1, <3>2 DEF Databases
    <3>4. live' \in [Workers -> SUBSET (Registrations \cup {SharedBundle} \cup Runs)] BY <3>1, <3>2
    <3>. QED BY <2>16, <3>3, <3>4 DEF AirflowRun
  <2>17. CASE TestDeletesRun(w)
    <3>0. PICK x : db' = [db EXCEPT !.runs = db.runs \ {x}] BY <2>17 DEF TestDeletesRun
    <3>1. db' \in Databases BY <3>0 DEF Databases
    <3>2. live' \in [Workers -> SUBSET (Registrations \cup {SharedBundle} \cup Runs)] BY <2>17 DEF TestDeletesRun
    <3>. QED BY <2>17, <3>1, <3>2 DEF TestDeletesRun
  <2>18. CASE EnsureTesting(w)
    <3>1. db' \in Databases BY <2>18 DEF EnsureTesting, Databases, Bundles
    <3>2. live' \in [Workers -> SUBSET (Registrations \cup {SharedBundle} \cup Runs)] BY <2>18 DEF EnsureTesting
    <3>. QED BY <2>18, <3>1, <3>2 DEF EnsureTesting
  <2>19. CASE DriftBundle(w)
    <3>1. db' \in Databases BY <2>19 DEF DriftBundle, Databases, Bundles
    <3>. QED BY <2>19, <3>1 DEF DriftBundle, local
  <2>20. CASE Resync(w)
    <3>0. recs[w] # <<>> BY <2>20 DEF Resync, HasDag
    <3>1. PICK b \in BOOLEAN : LastIs(w, [Current(w) EXCEPT !.created = b]) BY <2>20, ResyncRecords
    <3>2. [Current(w) EXCEPT !.created = b] \in Records BY <3>0, CurrentRecord, RecordCreating
    <3>3. recs' \in [Workers -> Seq(Records)] BY <3>0, <3>1, <3>2, LastFacts DEF LastIs
    <3>4. Current(w) \in Records /\ Current(w).dag \in Dags /\ Current(w).bundle \in Bundles
      BY <3>0, CurrentRecord DEF Records
    <3>5. db' \in Databases BY <2>20, <3>4, WrittenRows DEF Resync
    <3>6. [dag |-> Current(w).dag, bundle |-> Current(w).bundle] \in Registrations BY <3>4 DEF Registrations
    <3>7. live' \in [Workers -> SUBSET (Registrations \cup {SharedBundle} \cup Runs)] BY <2>20, <3>6 DEF Resync
    <3>8. authoring' \in [Workers -> SUBSET Dags] BY <2>20, <3>4 DEF Resync
    <3>9. staged' \in [Workers -> {"none", "staged", "flushed", "durable", "lost"}] /\ writer' \in Workers \cup {Nobody}
      BY <2>20, SessionTypes DEF Resync
    <3>. QED BY <2>20, <3>3, <3>5, <3>7, <3>8, <3>9 DEF Resync
  <2>21. CASE ResyncRaises(w)
    <3>1. staged' \in [Workers -> {"none", "staged", "flushed", "durable", "lost"}] /\ writer' \in Workers \cup {Nobody}
      BY <2>21, SessionTypes DEF ResyncRaises
    <3>. QED BY <2>21, <3>1 DEF ResyncRaises, Report
  <2>22. CASE Stage(w) BY <2>22 DEF Stage
  <2>23. CASE FlushStaged(w) BY <2>23 DEF FlushStaged
  <2>24. CASE EndTest(w) BY <2>24 DEF EndTest, local
  <2>25. CASE CleanupDag(w)
    <3>0. recs[w] # <<>> BY <2>25 DEF CleanupDag
    <3>1. recs' \in [Workers -> Seq(Records)] BY <2>25, <3>0, PopFacts DEF CleanupDag, Popped
    <3>2. authoring' \in [Workers -> SUBSET Dags] BY <2>25 DEF CleanupDag, Popped
    <3>3. live' \in [Workers -> SUBSET (Registrations \cup {SharedBundle} \cup Runs)] BY <2>25 DEF CleanupDag, Popped, Forget
    <3>4. staged' \in [Workers -> {"none", "staged", "flushed", "durable", "lost"}] BY <2>25, SessionTypes DEF CleanupDag
    <3>5. db' \in Databases BY <2>25, <3>0, CurrentRecord, RemovedRows DEF CleanupDag
    <3>. QED BY <2>25, <3>1, <3>2, <3>3, <3>4, <3>5 DEF CleanupDag
  <2>26. CASE CleanupDagRaises(w)
    <3>0. recs[w] # <<>> BY <2>26 DEF CleanupDagRaises
    <3>1. recs' \in [Workers -> Seq(Records)] BY <2>26, <3>0, PopFacts DEF CleanupDagRaises, Popped
    <3>2. authoring' \in [Workers -> SUBSET Dags] BY <2>26 DEF CleanupDagRaises, Popped
    <3>3. live' \in [Workers -> SUBSET (Registrations \cup {SharedBundle} \cup Runs)] BY <2>26 DEF CleanupDagRaises, Popped, Forget
    <3>4. staged' \in [Workers -> {"none", "staged", "flushed", "durable", "lost"}] BY <2>26, SessionTypes DEF CleanupDagRaises
    <3>5. writer' \in Workers \cup {Nobody} BY <2>26, SessionTypes DEF CleanupDagRaises
    <3>. QED BY <2>26, <3>1, <3>2, <3>3, <3>4, <3>5 DEF CleanupDagRaises, Report
  <2>27. CASE NextTest(w) BY <2>27 DEF NextTest, Move
  <2>. QED BY <1>2, <2>1, <2>2, <2>3, <2>4, <2>5, <2>6, <2>7, <2>8, <2>9, <2>10, <2>11, <2>12, <2>13, <2>14, <2>15, <2>16, <2>17, <2>18, <2>19, <2>20, <2>21, <2>22, <2>23, <2>24, <2>25, <2>26, <2>27 DEF Register, Body, Teardown
<1>. QED BY <1>1, <1>2 DEF DagNext

-----------------------------------------------------------------------------
(* A step of one worker leaves the others alone *)

\* What a step of another worker may do as far as u is concerned: take or give
\* back the write lock, touch rows of other Dags.
SameAtHome(u) ==
  /\ at'[u] = at[u] /\ cur'[u] = cur[u] /\ saw'[u] = saw[u] /\ recs'[u] = recs[u]
  /\ persisted'[u] = persisted[u] /\ authoring'[u] = authoring[u] /\ staged'[u] = staged[u]
  /\ problems'[u] = problems[u] /\ live'[u] = live[u]

SameRows(u) ==
  /\ \A d \in DagsOf[u] : db'.models[d] = db.models[d] /\ (d \in db'.shared <=> d \in db.shared)
  /\ \A v \in Registrations : v.dag \in DagsOf[u] => (v \in db'.versions <=> v \in db.versions)
  /\ \A x \in Runs : x.dag \in DagsOf[u] => (x \in db'.runs <=> x \in db.runs)
  /\ writer' = u <=> writer = u
  /\ writer = u => db'.shared = db.shared

Untouched(u) == UNCHANGED <<family, running>> /\ SameAtHome(u) /\ SameRows(u)

\* xdist workers share no Dag.
LEMMA Apart ==
  ASSUME DagTypeOK, NEW w \in running, NEW u \in running, u # w
  PROVE  u \in Workers /\ w \in Workers /\ DagsOf[u] \cap DagsOf[w] = {} /\ DagsOf[u] \subseteq Dags
BY DagAssumption DEF DagTypeOK

\* What a worker's first read found, another's step leaves true if the lock or the bundle is its own.
LEMMA FreshKept ==
  ASSUME DagTypeOK, DagTypeOK', NEW u \in running, WorkerInv(u), Untouched(u), at[u] = "read",
         writer = u \/ (u \notin FaultyWorkers /\ ~v2)
  PROVE  Fresh(u)' <=> Fresh(u)
<1>1. v2' <=> v2 BY DEF v2, Untouched
<1>2. cur'[u] = cur[u] /\ saw'[u] = saw[u] BY DEF Untouched, SameAtHome
<1>3. SharedRow(cur[u])' = SharedRow(cur[u]) BY <1>1, <1>2 DEF SharedRow
<1>4. CASE writer = u
  <2>1. db'.shared = db.shared BY <1>4 DEF Untouched, SameRows
  <2>. QED BY <1>2, <1>3, <2>1 DEF Fresh
<1>5. CASE u \notin FaultyWorkers /\ ~v2
  <2>1. SharedRow(cur[u]) \in DagsOf[u]
    BY <1>5 DEF SharedRow, WorkerInv, OwnRecords, BundleFits, Registering, Uncommitted
  <2>. QED BY <1>2, <1>3, <2>1 DEF Fresh, Untouched, SameRows
<1>. QED BY <1>4, <1>5

\* A step that leaves a worker's rows and lock alone keeps its part of the invariant.
LEMMA UntouchedKeeps ==
  ASSUME DagTypeOK, DagTypeOK', NEW u \in running, WorkerInv(u), Untouched(u)
  PROVE  WorkerInv(u)'
<1>1. /\ at'[u] = at[u] /\ cur'[u] = cur[u] /\ saw'[u] = saw[u] /\ recs'[u] = recs[u]
      /\ persisted'[u] = persisted[u] /\ authoring'[u] = authoring[u] /\ staged'[u] = staged[u]
      /\ problems'[u] = problems[u] /\ live'[u] = live[u] /\ running' = running
  BY DEF Untouched, SameAtHome
<1>2. v2' <=> v2 BY DEF v2, Untouched
<1>3. RecDags(u)' = RecDags(u) BY <1>1 DEF RecDags
<1>4. u \in Workers /\ DagsOf[u] \subseteq Dags BY RunningWorkers, DagAssumption
<1>5. /\ \A d \in DagsOf[u] : db'.models[d] = db.models[d] /\ (d \in db'.shared <=> d \in db.shared)
      /\ \A v \in Registrations : v.dag \in DagsOf[u] => (v \in db'.versions <=> v \in db.versions)
      /\ \A x \in Runs : x.dag \in DagsOf[u] => (x \in db'.runs <=> x \in db.runs)
      /\ writer' = u <=> writer = u
  BY DEF Untouched, SameRows
<1>6. /\ db.versions \subseteq Registrations /\ db'.versions \subseteq Registrations
      /\ db.runs \subseteq Runs /\ db'.runs \subseteq Runs
  BY DEF DagTypeOK, Databases
<1>7. \A d \in RecDags(u) : d \in DagsOf[u]
  BY DEF WorkerInv, OwnRecords, BundleFits, RecDags, DagsIn
<1>8. at[u] \in Registering => cur[u].dag \in DagsOf[u] BY DEF WorkerInv, OwnRecords, BundleFits
<1>9. \A r : BundleFits(u, r)' <=> BundleFits(u, r) BY <1>2 DEF BundleFits
<1>10. \A r : Holds(u, r)' <=> Holds(u, r) BY <1>1 DEF Holds
<1>11. OwnRecords(u)' BY <1>1, <1>3, <1>9 DEF WorkerInv, OwnRecords
<1>12. OwnLock(u)' BY <1>1, <1>5, FreshKept DEF WorkerInv, OwnLock
<1>13. OwnModels(u)' BY <1>1, <1>3, <1>5 DEF WorkerInv, OwnModels, xdist
<1>14. OwnHealth(u)'
  <2>1. \A i \in DOMAIN recs[u] :
          [dag |-> recs[u][i].dag, bundle |-> recs[u][i].bundle] \in db.versions
            => [dag |-> recs[u][i].dag, bundle |-> recs[u][i].bundle] \in db'.versions
    <3>. SUFFICES ASSUME NEW i \in DOMAIN recs[u], NEW v, v = [dag |-> recs[u][i].dag, bundle |-> recs[u][i].bundle],
                         v \in db.versions
                  PROVE  v \in db'.versions
      OBVIOUS
    <3>1. v.dag = recs[u][i].dag /\ v.dag \in DagsOf[u] BY DEF WorkerInv, OwnRecords, BundleFits
    <3>. QED BY <3>1, <1>5, <1>6
  <2>2. CASE u \notin FaultyWorkers
    <3>1. problems'[u] = {} \/ staged'[u] = "lost" BY <2>2, <1>1 DEF WorkerInv, OwnHealth
    <3>2. at'[u] = "read" /\ ~v2' => Fresh(u)' BY <2>2, <1>1, <1>2, FreshKept DEF WorkerInv, OwnHealth
    <3>3. \A d \in DagsOf[u] :
            /\ db'.models[d] \in {NoModel, d}
            /\ db'.models[d] # NoModel => d \in RecDags(u)' \/ (at'[u] = "committed" /\ cur'[u].dag = d)
      BY <2>2, <1>1, <1>3, <1>5 DEF WorkerInv, OwnHealth
    <3>4. \A i, j \in DOMAIN recs'[u] : recs'[u][i].dag = recs'[u][j].dag => i = j
      BY <2>2, <1>1 DEF WorkerInv, OwnHealth
    <3>5. at'[u] \in Registering => cur'[u].dag \notin RecDags(u)'
      BY <2>2, <1>1, <1>3 DEF WorkerInv, OwnHealth
    <3>6. \A i \in DOMAIN recs'[u] : [dag |-> recs'[u][i].dag, bundle |-> recs'[u][i].bundle] \in db'.versions
      BY <2>2, <1>1, <2>1 DEF WorkerInv, OwnHealth
    <3>. QED BY <3>1, <3>2, <3>3, <3>4, <3>5, <3>6 DEF OwnHealth
  <2>. QED BY <2>2 DEF OwnHealth
<1>15. OwnLive(u)'
  <2>0. OwnLive(u) BY DEF WorkerInv
  <2>1. at'[u] \in Uncommitted => db'.models[cur'[u].dag] = NoModel
    BY <2>0, <1>1, <1>5, <1>8 DEF OwnLive, Registering
  <2>2. at'[u] = "committed" =>
       /\ db'.models[cur'[u].dag] = cur'[u].bundle
       /\ [dag |-> cur'[u].dag, bundle |-> cur'[u].bundle] \in db'.versions
    <3>. SUFFICES ASSUME at[u] = "committed", NEW v, v = [dag |-> cur[u].dag, bundle |-> cur[u].bundle]
                  PROVE  db'.models[cur[u].dag] = cur[u].bundle /\ v \in db'.versions
      BY <1>1
    <3>1. cur[u].dag \in DagsOf[u] /\ v.dag = cur[u].dag BY <1>8 DEF Registering
    <3>2. v \in db.versions /\ db.models[cur[u].dag] = cur[u].bundle BY <2>0 DEF OwnLive
    <3>. QED BY <3>1, <3>2, <1>5, <1>6
  <2>3. (at'[u] \in {"committed", "discarding"} /\ cur'[u].dag \in RecDags(u)') =>
       /\ db'.models[cur'[u].dag] \in {NoModel, cur'[u].bundle}
       /\ \A v \in db'.versions : v.dag = cur'[u].dag => v.bundle = cur'[u].bundle
    BY <2>0, <1>1, <1>3, <1>5, <1>6, <1>8 DEF OwnLive, Registering
  <2>4. at'[u] # "teardown" => \A d \in RecDags(u)' :
       db'.models[d] = NoModel => \A v \in db'.versions : v.dag # d
    BY <2>0, <1>1, <1>3, <1>5, <1>6, <1>7 DEF OwnLive
  <2>5. \A x \in live[u] : x # SharedBundle => x.dag \in DagsOf[u] BY <1>7 DEF WorkerInv, OwnRecords
  <2>6. at'[u] # "teardown" => \A x \in live'[u] : x # SharedBundle =>
       \/ x \in db'.runs /\ (v2' \/ db'.models[x.dag] # NoModel)
       \/ x \in db'.versions /\ db'.models[x.dag] # NoModel
    BY <2>0, <2>5, <1>1, <1>2, <1>5, <1>6 DEF OwnLive
  <2>7. at'[u] \in Registering => \A x \in live'[u] : (x # SharedBundle /\ x.dag = cur'[u].dag) =>
       v2' /\ x \in db'.runs
    BY <2>0, <2>5, <1>1, <1>2, <1>5, <1>6 DEF OwnLive
  <2>. QED BY <2>1, <2>2, <2>3, <2>4, <2>6, <2>7 DEF OwnLive, SharedBundle
<1>16. OwnRows(u)'
  <2>0. OwnRows(u) BY DEF WorkerInv
  <2>1. at'[u] = "discarding" => problems'[u] # {} BY <2>0, <1>1 DEF OwnRows
  <2>2. (at'[u] = "written" /\ ~v2' /\ cur'[u].bundle \in Dags \ db'.shared) => cur'[u].created
    <3>. SUFFICES ASSUME at[u] = "written", ~v2, cur[u].bundle \in Dags \ db'.shared PROVE cur[u].created
      BY <1>1, <1>2
    <3>1. cur[u].bundle = cur[u].dag
      BY DagAssumption DEF WorkerInv, OwnRecords, BundleFits, Registering, Uncommitted
    <3>2. cur[u].bundle \notin db.shared BY <3>1, <1>5, <1>8 DEF Registering, Uncommitted
    <3>. QED BY <3>2, <2>0 DEF OwnRows
  <2>3. v2' => \A d \in DagsOf[u] : d \notin db'.shared BY <2>0, <1>2, <1>5 DEF OwnRows
  <2>4. ASSUME problems'[u] = {}, NEW d \in DagsOf[u]
        PROVE  /\ db'.models[d] = d => \E r \in Records : Holds(u, r)' /\ r.dag = d /\ r.bundle = d
               /\ \A v \in db'.versions : v.dag = d =>
                    \E r \in Records : Holds(u, r)' /\ r.dag = d /\ r.bundle = v.bundle
               /\ d \in db'.shared => \E r \in Records : Holds(u, r)' /\ r.bundle = d /\ r.created
               /\ \A x \in db'.runs : x.dag = d =>
                    \/ v2' /\ x.by = "airflow"
                    \/ \E r \in Records : Holds(u, r)' /\ r.dag = d /\ (v2' => x.id \in r.runs)
    <3>1. /\ db.models[d] = d => \E r \in Records : Holds(u, r) /\ r.dag = d /\ r.bundle = d
          /\ \A v \in db.versions : v.dag = d =>
               \E r \in Records : Holds(u, r) /\ r.dag = d /\ r.bundle = v.bundle
          /\ d \in db.shared => \E r \in Records : Holds(u, r) /\ r.bundle = d /\ r.created
          /\ \A x \in db.runs : x.dag = d =>
               \/ v2 /\ x.by = "airflow"
               \/ \E r \in Records : Holds(u, r) /\ r.dag = d /\ (v2 => x.id \in r.runs)
      BY <2>0, <2>4, <1>1 DEF OwnRows
    <3>2. db'.models[d] = d => \E r \in Records : Holds(u, r)' /\ r.dag = d /\ r.bundle = d
      BY <3>1, <1>5, <1>10
    <3>3. \A v \in db'.versions : v.dag = d => \E r \in Records : Holds(u, r)' /\ r.dag = d /\ r.bundle = v.bundle
      BY <3>1, <1>5, <1>6, <1>10
    <3>4. d \in db'.shared => \E r \in Records : Holds(u, r)' /\ r.bundle = d /\ r.created
      BY <3>1, <1>5, <1>10
    <3>5. \A x \in db'.runs : x.dag = d =>
               \/ v2' /\ x.by = "airflow"
               \/ \E r \in Records : Holds(u, r)' /\ r.dag = d /\ (v2' => x.id \in r.runs)
      BY <3>1, <1>2, <1>5, <1>6, <1>10
    <3>. QED BY <3>2, <3>3, <3>4, <3>5
  <2>. QED BY <2>1, <2>2, <2>3, <2>4 DEF OwnRows
<1>. QED BY <1>11, <1>12, <1>13, <1>14, <1>15, <1>16 DEF WorkerInv

RowsKept(u, new) ==
  /\ \A d \in DagsOf[u] : new.models[d] = db.models[d] /\ (d \in new.shared <=> d \in db.shared)
  /\ \A v \in Registrations : v.dag \in DagsOf[u] => (v \in new.versions <=> v \in db.versions)
  /\ \A x \in Runs : x.dag \in DagsOf[u] => (x \in new.runs <=> x \in db.runs)

\* Writes and deletions for a worker's Dag touch no row of another's.
LEMMA OthersRowsKept ==
  ASSUME DagTypeOK, NEW w \in running, NEW u \in running, u # w,
         NEW r \in Records, BundleFits(w, r)
  PROVE  RowsKept(u, Written(db, r)) /\ RowsKept(u, Removed(db, r)) /\ RowsKept(u, Purged(db, r.dag))
<1>1. r.dag \in Dags /\ r.dag \in DagsOf[w] /\ \A d \in DagsOf[u] : d # r.dag /\ d \in Dags
  BY Apart DEF BundleFits, Records
<1>2. r.bundle \notin DagsOf[u] /\ SharedRow(r) \notin DagsOf[u]
  BY <1>1, Apart, DagAssumption DEF BundleFits, SharedRow
<1>3. db \in Databases /\ db.models \in [Dags -> Bundles \cup {NoModel}]
      /\ db.versions \subseteq Registrations /\ db.runs \subseteq Runs
  BY DEF DagTypeOK, Databases
<1>4. RowsKept(u, Written(db, r))
  <2>. DEFINE new == Written(db, r)
  <2>1. /\ new.models = [db.models EXCEPT ![r.dag] = r.bundle]
         /\ new.versions = db.versions \cup {[dag |-> r.dag, bundle |-> r.bundle]}
         /\ new.runs = db.runs
         /\ new.shared = db.shared \cup {SharedRow(r)}
    BY <1>3, WrittenRows
  <2>. HIDE DEF new
  <2>2. RowsKept(u, new) BY <1>1, <1>2, <1>3, <2>1 DEF RowsKept
  <2>. QED BY <2>2 DEF new
<1>5. RowsKept(u, Removed(db, r))
  <2>. DEFINE new == Removed(db, r)
  <2>1. /\ new.models = [db.models EXCEPT ![r.dag] = IF v2 \/ @ = r.bundle THEN NoModel ELSE @]
        /\ new.versions = {v \in db.versions :
              IF v2 THEN v.dag # r.dag ELSE v # [dag |-> r.dag, bundle |-> r.bundle]}
        /\ new.runs = {x \in db.runs : IF v2 THEN ~(x.id \in r.runs /\ x.dag = r.dag) ELSE x.dag # r.dag}
        /\ new.shared = db.shared \/ new.shared = db.shared \ {r.bundle}
    BY <1>3, RemovedRows
  <2>. HIDE DEF new
  <2>2. \A v \in Registrations : v.dag \in DagsOf[u] => (v \in new.versions <=> v \in db.versions)
    BY <1>1, <2>1
  <2>3. \A x \in Runs : x.dag \in DagsOf[u] => (x \in new.runs <=> x \in db.runs)
    BY <1>1, <2>1
  <2>4. \A d \in DagsOf[u] : new.models[d] = db.models[d] /\ (d \in new.shared <=> d \in db.shared)
    BY <1>1, <1>2, <1>3, <2>1
  <2>5. RowsKept(u, new) BY <2>2, <2>3, <2>4 DEF RowsKept
  <2>. QED BY <2>5 DEF new
<1>6. RowsKept(u, Purged(db, r.dag))
  <2>. DEFINE new == Purged(db, r.dag)
  <2>1. /\ new.models = [db.models EXCEPT ![r.dag] = NoModel]
         /\ new.versions = {v \in db.versions : v.dag # r.dag}
         /\ new.runs = {x \in db.runs : x.dag # r.dag}
         /\ new.shared = db.shared
    BY <1>1, <1>3, PurgedRows
  <2>. HIDE DEF new
  <2>2. RowsKept(u, new) BY <1>1, <1>3, <2>1 DEF RowsKept
  <2>. QED BY <2>2 DEF new
<1>. QED BY <1>4, <1>5, <1>6

\* Nothing a worker's test does touches a row of another's Dags, takes its lock
\* or changes what it found under that lock.
LEMMA OthersUntouched ==
  ASSUME DagTypeOK, DagInv, NEW w \in running, NEW u \in running, u # w,
         Register(w) \/ Body(w) \/ Teardown(w)
  PROVE  Untouched(u)
<1>w. w \in Workers /\ u \in Workers BY RunningWorkers
<1>i. WorkerInv(w) BY DEF DagInv
<1>n. Nobody # u /\ Nobody # w BY <1>w, DagAssumption
<1>t. /\ at \in [Workers -> {"body", "authoring", "read", "written", "committed", "discarding", "teardown"}]
      /\ cur \in [Workers -> Records \cup {NoRecord}] /\ saw \in [Workers -> BOOLEAN]
      /\ recs \in [Workers -> Seq(Records)]
      /\ persisted \in [Workers -> SUBSET Dags] /\ authoring \in [Workers -> SUBSET Dags]
      /\ staged \in [Workers -> {"none", "staged", "flushed", "durable", "lost"}]
      /\ problems \in [Workers -> SUBSET {"refused", "failed"}]
      /\ live \in [Workers -> SUBSET (Registrations \cup {SharedBundle} \cup Runs)]
  BY DEF DagTypeOK
<1>k. ASSUME UNCHANGED db PROVE RowsKept(u, db') BY <1>k DEF RowsKept
<1>l. ASSUME writer' = writer \/ (writer \in {Nobody, w} /\ writer' \in {Nobody, w}) PROVE writer' = u <=> writer = u
  BY <1>l, <1>n
<1>r. ASSUME NEW session PROVE Released(w, session) = writer \/ (writer = w /\ Released(w, session) = Nobody)
  BY DEF Released
<1>c. at[w] \in Registering => cur[w] \in Records /\ BundleFits(w, cur[w])
  BY <1>i, <1>t, <1>w DEF WorkerInv, OwnRecords
<1>d. recs[w] # <<>> => Current(w) \in Records /\ BundleFits(w, Current(w))
  BY <1>i, <1>w, CurrentRecord DEF WorkerInv, OwnRecords
<1>e. /\ \A d \in DagsOf[u] : d \in Dags /\ d \notin DagsOf[w]
      /\ Testing \notin DagsOf[u]
  BY Apart, DagAssumption
<1>q. ASSUME UNCHANGED <<family, running>>, SameAtHome(u), RowsKept(u, db'),
             writer' = u <=> writer = u, writer = u => db'.shared = db.shared
      PROVE  Untouched(u)
  BY <1>q DEF Untouched, SameRows, RowsKept
<1>1. CASE Enter(w)
  <2>1. SameAtHome(u) /\ UNCHANGED <<family, running>>
    BY <1>1, <1>t, <1>w DEF Enter, Move, Report, Forget, Popped, local, SameAtHome
  <2>2. db' = db BY <1>1 DEF Enter, Move, Report, Forget, Popped, local
  <2>3. writer' = u <=> writer = u BY <1>1, <1>l, <1>r DEF Enter, CanWrite, Move, Report, Forget, Popped, local
  <2>. QED BY <2>1, <2>2, <2>3, <1>k, <1>q
<1>2. CASE EnterRefused(w)
  <2>1. SameAtHome(u) /\ UNCHANGED <<family, running>>
    BY <1>2, <1>t, <1>w DEF EnterRefused, Move, Report, Forget, Popped, local, SameAtHome
  <2>2. db' = db BY <1>2 DEF EnterRefused, Move, Report, Forget, Popped, local
  <2>3. writer' = u <=> writer = u BY <1>2, <1>l, <1>r DEF EnterRefused, CanWrite, Move, Report, Forget, Popped, local
  <2>. QED BY <2>1, <2>2, <2>3, <1>k, <1>q
<1>3. CASE EnterReplacing(w)
  <2>1. SameAtHome(u) /\ UNCHANGED <<family, running>>
    BY <1>3, <1>t, <1>w DEF EnterReplacing, Move, Report, Forget, Popped, local, SameAtHome
  <2>2. PICK r \in WantedRecords(w) :
          Wants(w, r) /\ CanWrite(w, r.session) /\ db' = Purged(db, r.dag) /\ writer' = Released(w, r.session)
    BY <1>3 DEF EnterReplacing
  <2>3. r \in Records /\ BundleFits(w, r) BY <2>2, <1>w, WantedTypes DEF BundleFits, Wants
  <2>4. RowsKept(u, db') BY <2>2, <2>3, OthersRowsKept
  <2>5. writer # u BY <2>2, <1>n DEF CanWrite
  <2>6. writer' # u BY <2>2, <2>5, <1>n, <1>r
  <2>. QED BY <2>1, <2>4, <2>5, <2>6, <1>q
<1>4. CASE PurgeRaises(w)
  <2>1. SameAtHome(u) /\ UNCHANGED <<family, running>>
    BY <1>4, <1>t, <1>w DEF PurgeRaises, Move, Report, Forget, Popped, local, SameAtHome
  <2>2. db' = db BY <1>4 DEF PurgeRaises, Move, Report, Forget, Popped, local
  <2>3. writer' = u <=> writer = u BY <1>4, <1>l, <1>r DEF PurgeRaises, CanWrite, Move, Report, Forget, Popped, local
  <2>. QED BY <2>1, <2>2, <2>3, <1>k, <1>q
<1>5. CASE AuthoringRaises(w)
  <2>1. SameAtHome(u) /\ UNCHANGED <<family, running>>
    BY <1>5, <1>t, <1>w DEF AuthoringRaises, Move, Report, Forget, Popped, local, SameAtHome
  <2>2. db' = db BY <1>5 DEF AuthoringRaises, Move, Report, Forget, Popped, local
  <2>3. writer' = u <=> writer = u BY <1>5, <1>l, <1>r DEF AuthoringRaises, CanWrite, Move, Report, Forget, Popped, local
  <2>. QED BY <2>1, <2>2, <2>3, <1>k, <1>q
<1>6. CASE ReadShared(w)
  <2>1. SameAtHome(u) /\ UNCHANGED <<family, running>>
    BY <1>6, <1>t, <1>w DEF ReadShared, Move, Report, Forget, Popped, local, SameAtHome
  <2>2. db' = db BY <1>6 DEF ReadShared, Move, Report, Forget, Popped, local
  <2>3. writer' = u <=> writer = u BY <1>6, <1>l, <1>r DEF ReadShared, CanWrite, Move, Report, Forget, Popped, local
  <2>. QED BY <2>1, <2>2, <2>3, <1>k, <1>q
<1>7. CASE WriteRows(w)
  <2>1. SameAtHome(u) /\ UNCHANGED <<family, running>>
    BY <1>7, <1>t, <1>w DEF WriteRows, Move, Report, Forget, Popped, local, SameAtHome
  <2>2. db' = db BY <1>7 DEF WriteRows, Move, Report, Forget, Popped, local
  <2>3. writer' = u <=> writer = u BY <1>7, <1>l, <1>r DEF WriteRows, CanWrite, Move, Report, Forget, Popped, local
  <2>. QED BY <2>1, <2>2, <2>3, <1>k, <1>q
<1>8. CASE RetrySync(w)
  <2>1. SameAtHome(u) /\ UNCHANGED <<family, running>>
    BY <1>8, <1>t, <1>w DEF RetrySync, Move, Report, Forget, Popped, local, SameAtHome
  <2>2. db' = db BY <1>8 DEF RetrySync, Move, Report, Forget, Popped, local
  <2>3. writer' = u <=> writer = u BY <1>8, <1>l, <1>r DEF RetrySync, CanWrite, Move, Report, Forget, Popped, local
  <2>. QED BY <2>1, <2>2, <2>3, <1>k, <1>q
<1>9. CASE CommitRows(w)
  <2>1. SameAtHome(u) /\ UNCHANGED <<family, running>>
    BY <1>9, <1>t, <1>w DEF CommitRows, Move, Report, Forget, Popped, local, SameAtHome
  <2>3. cur[w] \in Records /\ BundleFits(w, cur[w]) /\ writer = w
    BY <1>9, <1>c, <1>i DEF CommitRows, Move, Registering, Uncommitted, WorkerInv, OwnLock
  <2>4. RowsKept(u, db') BY <1>9, <2>3, OthersRowsKept DEF CommitRows
  <2>5. writer # u BY <2>3
  <2>6. writer' # u BY <1>9, <1>n DEF CommitRows
  <2>. QED BY <2>1, <2>4, <2>5, <2>6, <1>q
<1>10. CASE LoadSerialized(w)
  <2>1. SameAtHome(u) /\ UNCHANGED <<family, running>>
    BY <1>10, <1>t, <1>w DEF LoadSerialized, Move, Report, Forget, Popped, local, SameAtHome
  <2>2. db' = db BY <1>10 DEF LoadSerialized, Move, Report, Forget, Popped, local
  <2>3. writer' = u <=> writer = u BY <1>10, <1>l, <1>r DEF LoadSerialized, CanWrite, Move, Report, Forget, Popped, local
  <2>. QED BY <2>1, <2>2, <2>3, <1>k, <1>q
<1>11. CASE PersistRaises(w)
  <2>1. SameAtHome(u) /\ UNCHANGED <<family, running>>
    BY <1>11, <1>t, <1>w DEF PersistRaises, Move, Report, Forget, Popped, local, SameAtHome
  <2>2. db' = db BY <1>11 DEF PersistRaises, Move, Report, Forget, Popped, local
  <2>3. writer' = u <=> writer = u BY <1>11, <1>l, <1>r DEF PersistRaises, CanWrite, Move, Report, Forget, Popped, local
  <2>. QED BY <2>1, <2>2, <2>3, <1>k, <1>q
<1>12. CASE Discard(w)
  <2>1. SameAtHome(u) /\ UNCHANGED <<family, running>>
    BY <1>12, <1>t, <1>w DEF Discard, Move, Report, Forget, Popped, local, SameAtHome
  <2>3. cur[w] \in Records /\ BundleFits(w, cur[w])
    BY <1>12, <1>c DEF Discard, Move, Registering
  <2>4. RowsKept(u, db') BY <1>12, <1>k, <2>3, OthersRowsKept DEF Discard
  <2>5. writer = u => db'.shared = db.shared BY <1>12, <1>n DEF Discard
  <2>6. writer' = writer BY <1>12 DEF Discard
  <2>. QED BY <2>1, <2>4, <2>5, <2>6, <1>q
<1>13. CASE Interrupted(w)
  <2>1. SameAtHome(u) /\ UNCHANGED <<family, running>>
    BY <1>13, <1>t, <1>w DEF Interrupted, Move, Report, Forget, Popped, local, SameAtHome
  <2>2. db' = db BY <1>13 DEF Interrupted, Move, Report, Forget, Popped, local
  <2>3. writer' = u <=> writer = u BY <1>13, <1>l, <1>r DEF Interrupted, CanWrite, Move, Report, Forget, Popped, local
  <2>. QED BY <2>1, <2>2, <2>3, <1>k, <1>q
<1>14. CASE CreateRun(w)
  <2>1. SameAtHome(u) /\ UNCHANGED <<family, running>>
    BY <1>14, <1>t, <1>w DEF CreateRun, Move, Report, Forget, Popped, local, SameAtHome
  <2>2. PICK x \in Runs : x.dag = Current(w).dag /\ db' = [db EXCEPT !.runs = @ \cup {x}]
    <3>1. PICK id \in RunIds, x \in Runs :
           /\ x = [id |-> id, dag |-> Current(w).dag, by |-> "fixture"]
           /\ db' = [db EXCEPT !.runs = @ \cup {x}]
      BY <1>14, <1>w, CreateRunRecords
    <3>. QED BY <3>1
  <2>3. x.dag \in DagsOf[w] BY <1>14, <1>d, <2>2 DEF CreateRun, HasDag, BundleFits
  <2>4. RowsKept(u, db') BY <2>2, <2>3, <1>e DEF RowsKept, DagTypeOK, Databases
  <2>5. writer # u BY <1>14, <1>n DEF CreateRun, CanWrite
  <2>6. writer' # u BY <1>14, <2>5, <1>n, <1>r DEF CreateRun
  <2>. QED BY <2>1, <2>4, <2>5, <2>6, <1>q
<1>15. CASE CreateRunRaises(w)
  <2>1. SameAtHome(u) /\ UNCHANGED <<family, running>>
    BY <1>15, <1>t, <1>w DEF CreateRunRaises, Move, Report, Forget, Popped, local, SameAtHome
  <2>2. db' = db BY <1>15 DEF CreateRunRaises, Move, Report, Forget, Popped, local
  <2>3. writer' = u <=> writer = u BY <1>15, <1>l, <1>r DEF CreateRunRaises, CanWrite, Move, Report, Forget, Popped, local
  <2>. QED BY <2>1, <2>2, <2>3, <1>k, <1>q
<1>16. CASE AirflowRun(w)
  <2>1. SameAtHome(u) /\ UNCHANGED <<family, running>>
    BY <1>16, <1>t, <1>w DEF AirflowRun, Move, Report, Forget, Popped, local, SameAtHome
  <2>2. PICK id \in RunIds : db' = [db EXCEPT !.runs = @ \cup {[id |-> id, dag |-> Current(w).dag, by |-> "airflow"]}]
    BY <1>16 DEF AirflowRun
  <2>3. Current(w).dag \in DagsOf[w] BY <1>16, <1>d DEF AirflowRun, HasDag, BundleFits
  <2>4. RowsKept(u, db') BY <2>2, <2>3, <1>e DEF RowsKept, DagTypeOK, Databases
  <2>5. writer # u BY <1>16, <1>n DEF AirflowRun
  <2>6. writer' # u BY <1>16, <2>5 DEF AirflowRun
  <2>. QED BY <2>1, <2>4, <2>5, <2>6, <1>q
<1>17. CASE TestDeletesRun(w)
  <2>1. SameAtHome(u) /\ UNCHANGED <<family, running>>
    BY <1>17, <1>t, <1>w DEF TestDeletesRun, Move, Report, Forget, Popped, local, SameAtHome
  <2>2. PICK x \in live[w] \cap db.runs : db' = [db EXCEPT !.runs = @ \ {x}]
    BY <1>17 DEF TestDeletesRun
  <2>3. x.dag \in DagsOf[w]
    <3>1. x.dag \in Dags BY DEF DagTypeOK, Databases, Runs
    <3>2. x # SharedBundle BY <3>1, DagAssumption DEF SharedBundle
    <3>3. x.dag \in RecDags(w) BY <3>2, <1>i DEF WorkerInv, OwnRecords
    <3>. QED BY <3>3, <1>i DEF WorkerInv, OwnRecords, BundleFits, RecDags, DagsIn
  <2>4. RowsKept(u, db') BY <2>2, <2>3, <1>e DEF RowsKept, DagTypeOK, Databases
  <2>5. writer # u BY <1>17, <1>n DEF TestDeletesRun
  <2>6. writer' # u BY <1>17, <2>5 DEF TestDeletesRun
  <2>. QED BY <2>1, <2>4, <2>5, <2>6, <1>q
<1>18. CASE EnsureTesting(w)
  <2>1. SameAtHome(u) /\ UNCHANGED <<family, running>>
    BY <1>18, <1>t, <1>w DEF EnsureTesting, Move, Report, Forget, Popped, local, SameAtHome
  <2>2. db' = [db EXCEPT !.shared = @ \cup {Testing}] BY <1>18 DEF EnsureTesting
  <2>4. RowsKept(u, db') BY <2>2, <1>e DEF RowsKept, DagTypeOK, Databases
  <2>5. writer = u => db'.shared = db.shared BY <1>18, <2>2, <1>n DEF EnsureTesting, DagTypeOK, Databases
  <2>6. writer' = writer BY <1>18 DEF EnsureTesting
  <2>. QED BY <2>1, <2>4, <2>5, <2>6, <1>q
<1>19. CASE DriftBundle(w)
  <2>1. SameAtHome(u) /\ UNCHANGED <<family, running>>
    BY <1>19, <1>t, <1>w DEF DriftBundle, Move, Report, Forget, Popped, local, SameAtHome
  <2>2. db' = [db EXCEPT !.models[Current(w).dag] = Testing] BY <1>19 DEF DriftBundle
  <2>3. Current(w).dag \in DagsOf[w] BY <1>19, <1>d DEF DriftBundle, HasDag, BundleFits
  <2>4. RowsKept(u, db') BY <2>2, <2>3, <1>e DEF RowsKept, DagTypeOK, Databases
  <2>5. writer # u BY <1>19, <1>n DEF DriftBundle
  <2>6. writer' # u BY <1>19, <2>5 DEF DriftBundle
  <2>. QED BY <2>1, <2>4, <2>5, <2>6, <1>q
<1>20. CASE Resync(w)
  <2>1. SameAtHome(u) /\ UNCHANGED <<family, running>>
    BY <1>20, <1>t, <1>w DEF Resync, Move, Report, Forget, Popped, local, SameAtHome
  <2>3. Current(w) \in Records /\ BundleFits(w, Current(w)) BY <1>20, <1>d DEF Resync, HasDag
  <2>4. RowsKept(u, db') BY <1>20, <2>3, OthersRowsKept DEF Resync
  <2>5. writer # u BY <1>20, <1>n DEF Resync, CanWrite
  <2>6. writer' # u BY <1>20, <2>5, <1>n, <1>r DEF Resync
  <2>. QED BY <2>1, <2>4, <2>5, <2>6, <1>q
<1>21. CASE ResyncRaises(w)
  <2>1. SameAtHome(u) /\ UNCHANGED <<family, running>>
    BY <1>21, <1>t, <1>w DEF ResyncRaises, Move, Report, Forget, Popped, local, SameAtHome
  <2>2. db' = db BY <1>21 DEF ResyncRaises, Move, Report, Forget, Popped, local
  <2>3. writer' = u <=> writer = u BY <1>21, <1>l, <1>r DEF ResyncRaises, CanWrite, Move, Report, Forget, Popped, local
  <2>. QED BY <2>1, <2>2, <2>3, <1>k, <1>q
<1>22. CASE Stage(w)
  <2>1. SameAtHome(u) /\ UNCHANGED <<family, running>>
    BY <1>22, <1>t, <1>w DEF Stage, Move, Report, Forget, Popped, local, SameAtHome
  <2>2. db' = db BY <1>22 DEF Stage, Move, Report, Forget, Popped, local
  <2>3. writer' = u <=> writer = u BY <1>22, <1>l, <1>r DEF Stage, CanWrite, Move, Report, Forget, Popped, local
  <2>. QED BY <2>1, <2>2, <2>3, <1>k, <1>q
<1>23. CASE FlushStaged(w)
  <2>1. SameAtHome(u) /\ UNCHANGED <<family, running>>
    BY <1>23, <1>t, <1>w DEF FlushStaged, Move, Report, Forget, Popped, local, SameAtHome
  <2>2. db' = db BY <1>23 DEF FlushStaged, Move, Report, Forget, Popped, local
  <2>3. writer' = u <=> writer = u BY <1>23, <1>l, <1>r DEF FlushStaged, CanWrite, Move, Report, Forget, Popped, local
  <2>. QED BY <2>1, <2>2, <2>3, <1>k, <1>q
<1>24. CASE EndTest(w)
  <2>1. SameAtHome(u) /\ UNCHANGED <<family, running>>
    BY <1>24, <1>t, <1>w DEF EndTest, Move, Report, Forget, Popped, local, SameAtHome
  <2>2. db' = db BY <1>24 DEF EndTest, Move, Report, Forget, Popped, local
  <2>3. writer' = u <=> writer = u BY <1>24, <1>l, <1>r DEF EndTest, CanWrite, Move, Report, Forget, Popped, local
  <2>. QED BY <2>1, <2>2, <2>3, <1>k, <1>q
<1>25. CASE CleanupDag(w)
  <2>1. SameAtHome(u) /\ UNCHANGED <<family, running>>
    BY <1>25, <1>t, <1>w DEF CleanupDag, Move, Report, Forget, Popped, local, SameAtHome
  <2>3. Current(w) \in Records /\ BundleFits(w, Current(w)) BY <1>25, <1>d DEF CleanupDag
  <2>4. RowsKept(u, db') BY <1>25, <2>3, OthersRowsKept DEF CleanupDag
  <2>5. writer # u BY <1>25, <1>n DEF CleanupDag, CanClean, CanWrite
  <2>6. writer' # u BY <1>25, <1>n DEF CleanupDag
  <2>. QED BY <2>1, <2>4, <2>5, <2>6, <1>q
<1>26. CASE CleanupDagRaises(w)
  <2>1. SameAtHome(u) /\ UNCHANGED <<family, running>>
    BY <1>26, <1>t, <1>w DEF CleanupDagRaises, Move, Report, Forget, Popped, local, SameAtHome
  <2>2. db' = db BY <1>26 DEF CleanupDagRaises, Move, Report, Forget, Popped, local
  <2>3. writer' = u <=> writer = u BY <1>26, <1>l, <1>r DEF CleanupDagRaises, CanWrite, Move, Report, Forget, Popped, local
  <2>. QED BY <2>1, <2>2, <2>3, <1>k, <1>q
<1>27. CASE NextTest(w)
  <2>1. SameAtHome(u) /\ UNCHANGED <<family, running>>
    BY <1>27, <1>t, <1>w DEF NextTest, Move, Report, Forget, Popped, local, SameAtHome
  <2>2. db' = db BY <1>27 DEF NextTest, Move, Report, Forget, Popped, local
  <2>3. writer' = u <=> writer = u BY <1>27, <1>l, <1>r DEF NextTest, CanWrite, Move, Report, Forget, Popped, local
  <2>. QED BY <2>1, <2>2, <2>3, <1>k, <1>q
<1>. QED BY <1>1, <1>2, <1>3, <1>4, <1>5, <1>6, <1>7, <1>8, <1>9, <1>10, <1>11, <1>12, <1>13, <1>14, <1>15, <1>16, <1>17, <1>18, <1>19, <1>20, <1>21, <1>22, <1>23, <1>24, <1>25, <1>26, <1>27 DEF Register, Body, Teardown

-----------------------------------------------------------------------------
(* A step of a worker keeps its own part of the invariant *)

\* The types of one worker.
LEMMA AtHome ==
  ASSUME DagTypeOK, NEW w \in running
  PROVE  /\ w \in Workers /\ DagsOf[w] \subseteq Dags /\ w # Nobody /\ db \in Databases
         /\ at[w] \in {"body", "authoring", "read", "written", "committed", "discarding", "teardown"}
         /\ cur[w] \in Records \cup {NoRecord} /\ saw[w] \in BOOLEAN
         /\ recs[w] \in Seq(Records)
         /\ persisted[w] \subseteq Dags /\ authoring[w] \subseteq Dags
         /\ staged[w] \in {"none", "staged", "flushed", "durable", "lost"}
         /\ problems[w] \subseteq {"refused", "failed"}
         /\ live[w] \subseteq Registrations \cup {SharedBundle} \cup Runs
BY RunningWorkers, DagAssumption DEF DagTypeOK

\* The records, the rows relied on and the rows there are, all of the worker's Dags.
LEMMA OwnDags ==
  ASSUME DagTypeOK, NEW w \in running, WorkerInv(w)
  PROVE  /\ RecDags(w) \subseteq DagsOf[w] /\ RecDags(w) \subseteq Dags
         /\ \A i \in DOMAIN recs[w] : recs[w][i] \in Records /\ recs[w][i].dag \in RecDags(w)
         /\ \A x \in live[w] : x # SharedBundle => x.dag \in RecDags(w)
         /\ \A v \in db.versions : v \in Registrations /\ v.dag \in Dags /\ v.bundle \in Bundles
         /\ \A x \in db.runs : x \in Runs /\ x.dag \in Dags
         /\ \A v, r : v \in Registrations /\ r \in Records /\ v.dag = r.dag /\ v.bundle = r.bundle
                        => v = [dag |-> r.dag, bundle |-> r.bundle]
<1>1. w \in Workers /\ recs[w] \in Seq(Records) /\ DagsOf[w] \subseteq Dags BY AtHome
<1>2. \A i \in DOMAIN recs[w] : recs[w][i] \in Records /\ recs[w][i].dag \in RecDags(w) /\ recs[w][i].dag \in DagsOf[w]
  BY <1>1, SequenceFacts DEF WorkerInv, OwnRecords, BundleFits, RecDags, DagsIn
<1>3. RecDags(w) \subseteq DagsOf[w] BY <1>2 DEF RecDags, DagsIn
<1>4. \A x \in live[w] : x # SharedBundle => x.dag \in RecDags(w) BY DEF WorkerInv, OwnRecords
<1>5. /\ \A v \in db.versions : v \in Registrations /\ v.dag \in Dags /\ v.bundle \in Bundles
      /\ \A x \in db.runs : x \in Runs /\ x.dag \in Dags
  BY DEF DagTypeOK, Databases, Registrations, Runs
<1>6. \A v, r : v \in Registrations /\ r \in Records /\ v.dag = r.dag /\ v.bundle = r.bundle
                        => v = [dag |-> r.dag, bundle |-> r.bundle]
  BY DEF Registrations
<1>. QED BY <1>1, <1>2, <1>3, <1>4, <1>5, <1>6

\* The Dags of a list of records after a push, a pop, and a change of the last.
LEMMA DagsAppended ==
  ASSUME NEW s \in Seq(Records), NEW r \in Records
  PROVE  DagsIn(Append(s, r)) = DagsIn(s) \cup {r.dag}
<1>1. \A x : x \in DagsIn(Append(s, r)) => x \in DagsIn(s) \cup {r.dag} BY SequenceFacts, AppendFacts DEF DagsIn
<1>2. \A x : x \in DagsIn(s) => x \in DagsIn(Append(s, r))
  <2>. SUFFICES ASSUME NEW i \in DOMAIN s PROVE s[i].dag \in DagsIn(Append(s, r)) BY DEF DagsIn
  <2>1. i \in DOMAIN Append(s, r) /\ Append(s, r)[i] = s[i] BY SequenceFacts, AppendFacts
  <2>. QED BY <2>1 DEF DagsIn
<1>3. r.dag \in DagsIn(Append(s, r))
  <2>1. Len(s) + 1 \in DOMAIN Append(s, r) BY SequenceFacts, AppendFacts
  <2>. QED BY <2>1, AppendFacts DEF DagsIn
<1>. QED BY <1>1, <1>2, <1>3

\* ... after a pop, ...
LEMMA DagsPopped ==
  ASSUME NEW s \in Seq(Records), s # <<>>
  PROVE  DagsIn(s) = DagsIn(SubSeq(s, 1, Len(s) - 1)) \cup {s[Len(s)].dag}
<1>. DEFINE p == SubSeq(s, 1, Len(s) - 1)
<1>f. /\ DOMAIN p = 1..(Len(s) - 1) /\ \A i \in DOMAIN p : p[i] = s[i]
      /\ DOMAIN s = 1..Len(s) /\ Len(s) \in Nat /\ Len(s) \in DOMAIN s
  BY PopFacts, SequenceFacts
<1>. HIDE DEF p
<1>1. \A x : x \in DagsIn(p) => x \in DagsIn(s)
  <2>. SUFFICES ASSUME NEW i \in DOMAIN p PROVE p[i].dag \in DagsIn(s) BY DEF DagsIn
  <2>1. i \in DOMAIN s /\ p[i] = s[i] BY <1>f
  <2>. QED BY <2>1 DEF DagsIn
<1>2. s[Len(s)].dag \in DagsIn(s) BY <1>f DEF DagsIn
<1>3. \A x : x \in DagsIn(s) => x \in DagsIn(p) \cup {s[Len(s)].dag}
  <2>. SUFFICES ASSUME NEW i \in DOMAIN s, i # Len(s) PROVE s[i].dag \in DagsIn(p) BY DEF DagsIn
  <2>1. i \in DOMAIN p /\ p[i] = s[i] BY <1>f
  <2>. QED BY <2>1 DEF DagsIn
<1>4. DagsIn(s) = DagsIn(p) \cup {s[Len(s)].dag} BY <1>1, <1>2, <1>3
<1>. QED BY <1>4 DEF p

\* ... and after a change of the last.
LEMMA DagsReplaced ==
  ASSUME NEW s \in Seq(Records), s # <<>>, NEW r \in Records, r.dag = s[Len(s)].dag
  PROVE  DagsIn([s EXCEPT ![Len(s)] = r]) = DagsIn(s)
<1>. DEFINE p == [s EXCEPT ![Len(s)] = r]
<1>f. DOMAIN p = DOMAIN s /\ \A i \in DOMAIN s : p[i].dag = s[i].dag BY LastFacts
<1>. HIDE DEF p
<1>1. DagsIn(p) = DagsIn(s) BY <1>f DEF DagsIn
<1>. QED BY <1>1 DEF p

\* A Dag whose id has no model: no row of it is relied on, by OwnLive.
LEMMA EnterKeeps ==
  ASSUME DagTypeOK, DagTypeOK', DagInv, NEW w \in running, Enter(w)
  PROVE  TwoBundles' /\ WorkerInv(w)'
<1>t. w \in Workers BY RunningWorkers
<1>i. WorkerInv(w) /\ TwoBundles BY DEF DagInv
<1>p. PICK wanted \in WantedRecords(w) : Wants(w, wanted) /\ db.models[wanted.dag] = NoModel /\ cur' = [cur EXCEPT ![w] = wanted]
  BY DEF Enter
<1>s. wanted \in Records /\ wanted.dag \in Dags /\ BundleFits(w, wanted) /\ wanted.runs = {}
  BY <1>p, <1>t, WantedTypes, DagAssumption DEF BundleFits, Wants
<1>g. at[w] = "body"
  BY <1>p DEF Enter, Move, InBody, Wants, CanWrite
<1>e. /\ at'[w] = "authoring"
      /\ cur'[w] = wanted
      /\ (saw'[w] <=> saw[w])
      /\ recs'[w] = recs[w]
      /\ persisted'[w] = persisted[w]
      /\ authoring'[w] = authoring[w]
      /\ staged'[w] = staged[w]
      /\ problems'[w] = problems[w]
      /\ live'[w] = live[w]
      /\ db' = db
      /\ writer' = writer
      /\ running' = running /\ family' = family
  BY <1>p, <1>t, AtHome DEF DagTypeOK, Enter, Move, Report, Forget, local
<1>v. v2' <=> v2 BY <1>e DEF v2
<1>n. w \notin FaultyWorkers => wanted.dag \notin RecDags(w) BY <1>p DEF Wants, RecDags, DagsIn
<1>r. RecDags(w)' = RecDags(w) BY <1>e DEF RecDags
<1>1. TwoBundles' BY <1>g, <1>p, <1>s, <1>e, <1>i, AtHome DEF TwoBundles, Databases, BundleFits, Records
<1>2. OwnRecords(w)'
  BY <1>g, <1>p, <1>s, <1>e, <1>v, <1>i, <1>r, <1>t, AtHome DEF WorkerInv, OwnRecords, BundleFits, Registering, Uncommitted
<1>3. OwnLock(w)'
  BY <1>g, <1>p, <1>s, <1>e, <1>v, <1>i, <1>t, AtHome, DagAssumption DEF WorkerInv, OwnLock, Registering, Uncommitted, Released, Committed, Discarded, StagedAfter, CanWrite, CanClean, Fresh, Retries, SharedRow, HasDag, InBody, Sessions, BundleFits
<1>4. OwnModels(w)'
  BY <1>g, <1>p, <1>s, <1>e, <1>v, <1>i, <1>t, AtHome, DagAssumption DEF WorkerInv, OwnModels, Registering, Uncommitted, RecDags, DagsIn, OwnRecords, BundleFits, Databases, xdist
<1>5. OwnHealth(w)'
  BY <1>g, <1>p, <1>s, <1>e, <1>v, <1>i, <1>t, AtHome, DagAssumption DEF WorkerInv, OwnHealth, Registering, Uncommitted, RecDags, DagsIn, Fresh, SharedRow, OwnRecords, OwnLock, OwnModels, BundleFits, Discarded, Committed, Sessions, Wants, CanWrite, HasDag, InBody, StagedAfter, CanClean
<1>6. OwnLive(w)'
  BY <1>g, <1>p, <1>s, <1>e, <1>v, <1>i, <1>t, AtHome, DagAssumption DEF WorkerInv, OwnLive, Registering, Uncommitted, RecDags, DagsIn, OwnRecords, BundleFits, Databases, Records, SharedBundle
<1>7. OwnRows(w)'
  BY <1>g, <1>p, <1>s, <1>e, <1>v, <1>i, <1>t, AtHome, DagAssumption DEF WorkerInv, OwnRows, Registering, Uncommitted, Holds, OwnRecords, OwnLock, OwnLive, BundleFits, Databases
<1>. QED BY <1>1, <1>2, <1>3, <1>4, <1>5, <1>6, <1>7 DEF WorkerInv

\* A model in the way is of a worker with faults, or of another process's: without xdist
\* every model was persisted here, so nothing is refused.
LEMMA EnterRefusedKeeps ==
  ASSUME DagTypeOK, DagTypeOK', DagInv, NEW w \in running, EnterRefused(w)
  PROVE  TwoBundles' /\ WorkerInv(w)'
<1>t. w \in Workers BY RunningWorkers
<1>i. WorkerInv(w) /\ TwoBundles BY DEF DagInv
<1>p. PICK wanted \in WantedRecords(w) : Wants(w, wanted) /\ db.models[wanted.dag] # NoModel /\ (wanted.dag \notin persisted[w] \/ xdist)
  BY DEF EnterRefused
<1>s. wanted \in Records /\ wanted.dag \in Dags /\ BundleFits(w, wanted) /\ wanted.runs = {}
  BY <1>p, <1>t, WantedTypes, DagAssumption DEF BundleFits, Wants
<1>g. at[w] = "body"
  BY <1>p DEF EnterRefused, Move, InBody, Wants, CanWrite
<1>e. /\ at'[w] = at[w]
      /\ cur'[w] = cur[w]
      /\ (saw'[w] <=> saw[w])
      /\ recs'[w] = recs[w]
      /\ persisted'[w] = persisted[w]
      /\ authoring'[w] = authoring[w]
      /\ staged'[w] = staged[w]
      /\ problems'[w] = problems[w] \cup {"refused"}
      /\ live'[w] = live[w]
      /\ db' = db
      /\ writer' = writer
      /\ running' = running /\ family' = family
  BY <1>p, <1>t, AtHome DEF DagTypeOK, EnterRefused, Move, Report, Forget, local
<1>v. v2' <=> v2 BY <1>e DEF v2
<1>n. w \notin FaultyWorkers => wanted.dag \notin RecDags(w) BY <1>p DEF Wants, RecDags, DagsIn
<1>r. RecDags(w)' = RecDags(w) BY <1>e DEF RecDags
<1>m. w \in FaultyWorkers
  <2>1. wanted.dag \in DagsOf[w] BY <1>s DEF BundleFits
  <2>2. w \notin FaultyWorkers => wanted.dag \in RecDags(w) BY <2>1, <1>g, <1>p, <1>i DEF WorkerInv, OwnHealth
  <2>. QED BY <1>n, <2>2
<1>1. TwoBundles' BY <1>g, <1>p, <1>s, <1>e, <1>i, AtHome DEF TwoBundles, Databases, BundleFits, Records
<1>2. OwnRecords(w)'
  BY <1>g, <1>p, <1>s, <1>e, <1>v, <1>i, <1>t, AtHome, DagAssumption DEF WorkerInv, OwnRecords, Registering, Uncommitted, RecDags, DagsIn, BundleFits
<1>3. OwnLock(w)'
  BY <1>g, <1>p, <1>s, <1>e, <1>v, <1>i, <1>t, AtHome, DagAssumption DEF WorkerInv, OwnLock, Registering, Uncommitted, Released, Committed, Discarded, StagedAfter, CanWrite, CanClean, Fresh, Retries, SharedRow, HasDag, InBody, Sessions, BundleFits
<1>4. OwnModels(w)'
  BY <1>g, <1>p, <1>s, <1>e, <1>i, <1>r, <1>t, AtHome DEF WorkerInv, OwnModels, OwnHealth, BundleFits, Registering, Uncommitted, xdist
<1>5. OwnHealth(w)'
  BY <1>m DEF OwnHealth
<1>6. OwnLive(w)'
  BY <1>g, <1>p, <1>s, <1>e, <1>v, <1>i, <1>t, AtHome, DagAssumption DEF WorkerInv, OwnLive, Registering, Uncommitted, RecDags, DagsIn, OwnRecords, BundleFits, Databases, Records, SharedBundle
<1>7. OwnRows(w)'
  BY <1>g, <1>p, <1>s, <1>e, <1>v, <1>i, <1>t, AtHome, DagAssumption DEF WorkerInv, OwnRows, Registering, Uncommitted, Holds, OwnRecords, OwnLock, OwnLive, BundleFits, Databases
<1>. QED BY <1>1, <1>2, <1>3, <1>4, <1>5, <1>6, <1>7 DEF WorkerInv

\* The purge takes all rows of the Dag, and what the test relied on of it.
LEMMA EnterReplacingKeeps ==
  ASSUME DagTypeOK, DagTypeOK', DagInv, NEW w \in running, EnterReplacing(w)
  PROVE  TwoBundles' /\ WorkerInv(w)'
<1>t. w \in Workers BY RunningWorkers
<1>i. WorkerInv(w) /\ TwoBundles BY DEF DagInv
<1>o. /\ RecDags(w) \subseteq DagsOf[w] /\ RecDags(w) \subseteq Dags
      /\ \A x \in live[w] : x # SharedBundle => x.dag \in RecDags(w)
      /\ \A v \in db.versions : v \in Registrations /\ v.dag \in Dags /\ v.bundle \in Bundles
      /\ \A x \in db.runs : x \in Runs /\ x.dag \in Dags
  BY <1>i, OwnDags
<1>p. PICK wanted \in WantedRecords(w) :
          /\ Wants(w, wanted) /\ db.models[wanted.dag] # NoModel /\ wanted.dag \in persisted[w] /\ ~xdist /\ CanWrite(w, wanted.session)
          /\ db' = Purged(db, wanted.dag) /\ cur' = [cur EXCEPT ![w] = wanted] /\ Forget(w, wanted.dag)
          /\ staged' = [staged EXCEPT ![w] = Committed(w, wanted.session)] /\ writer' = Released(w, wanted.session)
  BY DEF EnterReplacing
<1>s. wanted \in Records /\ wanted.dag \in Dags /\ BundleFits(w, wanted) /\ wanted.runs = {}
  BY <1>p, <1>t, WantedTypes, DagAssumption DEF BundleFits, Wants
<1>g. at[w] = "body"
  BY <1>p DEF EnterReplacing, Move, InBody, Wants, CanWrite
<1>e. /\ at'[w] = "authoring"
      /\ cur'[w] = wanted
      /\ (saw'[w] <=> saw[w])
      /\ recs'[w] = recs[w]
      /\ persisted'[w] = persisted[w]
      /\ authoring'[w] = authoring[w]
      /\ staged'[w] = Committed(w, wanted.session)
      /\ problems'[w] = problems[w]
      /\ live'[w] = {x \in live[w] : x.dag # wanted.dag}
      /\ writer' = Released(w, wanted.session)
      /\ running' = running /\ family' = family
  BY <1>p, <1>t, AtHome DEF DagTypeOK, EnterReplacing, Move, Report, Forget, local
<1>d. /\ \A d \in Dags : db'.models[d] = IF d = wanted.dag THEN NoModel ELSE db.models[d]
      /\ db'.versions = {v \in db.versions : v.dag # wanted.dag}
      /\ db'.runs = {x \in db.runs : x.dag # wanted.dag} /\ db'.shared = db.shared
  <2>1. db' = Purged(db, wanted.dag) /\ db \in Databases BY <1>p, AtHome
  <2>2. db'.models = [db.models EXCEPT ![wanted.dag] = NoModel] BY <2>1, <1>s, PurgedRows
  <2>3. db.models \in [Dags -> Bundles \cup {NoModel}] BY <2>1 DEF Databases
  <2>4. \A d \in Dags : db'.models[d] = IF d = wanted.dag THEN NoModel ELSE db.models[d] BY <2>2, <2>3
  <2>. QED BY <2>1, <2>4, <1>s, PurgedRows
<1>v. v2' <=> v2 BY <1>e DEF v2
<1>n. w \notin FaultyWorkers => wanted.dag \notin RecDags(w) BY <1>p DEF Wants, RecDags, DagsIn
<1>r. RecDags(w)' = RecDags(w) BY <1>e DEF RecDags
<1>m. w \in FaultyWorkers
  <2>1. wanted.dag \in DagsOf[w] BY <1>s DEF BundleFits
  <2>2. w \notin FaultyWorkers => wanted.dag \in RecDags(w) BY <2>1, <1>g, <1>p, <1>i DEF WorkerInv, OwnHealth
  <2>. QED BY <1>n, <2>2
<1>h. \A q : Holds(w, q)' <=> Holds(w, q) BY <1>g, <1>e DEF Holds
<1>1. TwoBundles' BY <1>g, <1>p, <1>s, <1>d, <1>e, <1>i, AtHome DEF TwoBundles, Databases, BundleFits, Records
<1>2. OwnRecords(w)'
  BY <1>g, <1>p, <1>s, <1>e, <1>v, <1>i, <1>r, <1>t, AtHome DEF WorkerInv, OwnRecords, BundleFits, Registering, Uncommitted
<1>3. OwnLock(w)'
  BY <1>g, <1>p, <1>s, <1>d, <1>e, <1>v, <1>i, <1>t, AtHome, DagAssumption DEF WorkerInv, OwnLock, Registering, Uncommitted, Released, Committed, Discarded, StagedAfter, CanWrite, CanClean, Fresh, Retries, SharedRow, HasDag, InBody, Sessions, BundleFits
<1>4. OwnModels(w)'
  BY <1>g, <1>p, <1>s, <1>d, <1>e, <1>v, <1>i, <1>t, AtHome, DagAssumption DEF WorkerInv, OwnModels, Registering, Uncommitted, RecDags, DagsIn, OwnRecords, BundleFits, Databases, xdist
<1>5. OwnHealth(w)'
  BY <1>m DEF OwnHealth
<1>6. OwnLive(w)'
  <2>1. at'[w] \in Uncommitted => db'.models[cur'[w].dag] = NoModel
    BY <1>g, <1>s, <1>e, <1>d, <1>v, <1>i, <1>r, <1>o DEF WorkerInv, OwnLive, Registering, Uncommitted
  <2>2. at'[w] = "committed" =>
       /\ db'.models[cur'[w].dag] = cur'[w].bundle
       /\ [dag |-> cur'[w].dag, bundle |-> cur'[w].bundle] \in db'.versions
    BY <1>g, <1>s, <1>e, <1>d, <1>v, <1>i, <1>r, <1>o DEF WorkerInv, OwnLive, Registering, Uncommitted
  <2>3. (at'[w] \in {"committed", "discarding"} /\ cur'[w].dag \in RecDags(w)') =>
       /\ db'.models[cur'[w].dag] \in {NoModel, cur'[w].bundle}
       /\ \A v \in db'.versions : v.dag = cur'[w].dag => v.bundle = cur'[w].bundle
    BY <1>g, <1>s, <1>e, <1>d, <1>v, <1>i, <1>r, <1>o DEF WorkerInv, OwnLive, Registering, Uncommitted
  <2>4. at'[w] # "teardown" => \A d \in RecDags(w)' :
       db'.models[d] = NoModel => \A v \in db'.versions : v.dag # d
    BY <1>g, <1>s, <1>e, <1>d, <1>v, <1>i, <1>r, <1>o DEF WorkerInv, OwnLive, Registering, Uncommitted
  <2>5. at'[w] # "teardown" => \A x \in live'[w] : x # SharedBundle =>
       \/ x \in db'.runs /\ (v2' \/ db'.models[x.dag] # NoModel)
       \/ x \in db'.versions /\ db'.models[x.dag] # NoModel
    BY <1>g, <1>s, <1>e, <1>d, <1>v, <1>i, <1>r, <1>o DEF WorkerInv, OwnLive
  <2>6. at'[w] \in Registering => \A x \in live'[w] : (x # SharedBundle /\ x.dag = cur'[w].dag) =>
       v2' /\ x \in db'.runs
    BY <1>g, <1>s, <1>e, <1>d, <1>v, <1>i, <1>r, <1>o DEF WorkerInv, OwnLive, Registering, Uncommitted
  <2>. QED BY <2>1, <2>2, <2>3, <2>4, <2>5, <2>6 DEF OwnLive, SharedBundle
<1>7. OwnRows(w)'
  <2>1. at'[w] = "discarding" => problems'[w] # {}
    BY <1>e, <1>d, <1>v, <1>i DEF WorkerInv, OwnRows
  <2>2. (at'[w] = "written" /\ ~v2' /\ cur'[w].bundle \in Dags \ db'.shared) => cur'[w].created
    BY <1>e, <1>d, <1>v, <1>i DEF WorkerInv, OwnRows
  <2>3. v2' => \A d \in DagsOf[w] : d \notin db'.shared
    BY <1>e, <1>d, <1>v, <1>i DEF WorkerInv, OwnRows
  <2>4. ASSUME problems'[w] = {}, NEW d \in DagsOf[w]
        PROVE  /\ db'.models[d] = d => \E r \in Records : Holds(w, r)' /\ r.dag = d /\ r.bundle = d
               /\ \A v \in db'.versions : v.dag = d =>
                    \E r \in Records : Holds(w, r)' /\ r.dag = d /\ r.bundle = v.bundle
               /\ d \in db'.shared => \E r \in Records : Holds(w, r)' /\ r.bundle = d /\ r.created
               /\ \A x \in db'.runs : x.dag = d =>
                    \/ v2' /\ x.by = "airflow"
                    \/ \E r \in Records : Holds(w, r)' /\ r.dag = d /\ (v2' => x.id \in r.runs)
    <3>0. d \in Dags /\ problems[w] = {} BY <2>4, <1>e, AtHome
    <3>1. /\ db.models[d] = d => \E r \in Records : Holds(w, r) /\ r.dag = d /\ r.bundle = d
          /\ \A v \in db.versions : v.dag = d =>
               \E r \in Records : Holds(w, r) /\ r.dag = d /\ r.bundle = v.bundle
          /\ d \in db.shared => \E r \in Records : Holds(w, r) /\ r.bundle = d /\ r.created
          /\ \A x \in db.runs : x.dag = d =>
               \/ v2 /\ x.by = "airflow"
               \/ \E r \in Records : Holds(w, r) /\ r.dag = d /\ (v2 => x.id \in r.runs)
      BY <3>0, <1>i DEF WorkerInv, OwnRows
    <3>2. db'.models[d] = d => \E r \in Records : Holds(w, r)' /\ r.dag = d /\ r.bundle = d
      BY <3>0, <3>1, <1>d, <1>v, <1>h, DagAssumption
    <3>3. \A v \in db'.versions : v.dag = d =>
            \E r \in Records : Holds(w, r)' /\ r.dag = d /\ r.bundle = v.bundle
      BY <3>0, <3>1, <1>d, <1>v, <1>h, DagAssumption
    <3>4. d \in db'.shared => \E r \in Records : Holds(w, r)' /\ r.bundle = d /\ r.created
      BY <3>0, <3>1, <1>d, <1>v, <1>h, DagAssumption
    <3>5. \A x \in db'.runs : x.dag = d =>
            \/ v2' /\ x.by = "airflow"
            \/ \E r \in Records : Holds(w, r)' /\ r.dag = d /\ (v2' => x.id \in r.runs)
      BY <3>0, <3>1, <1>d, <1>v, <1>h, DagAssumption
    <3>. QED BY <3>2, <3>3, <3>4, <3>5
  <2>. QED BY <2>1, <2>2, <2>3, <2>4 DEF OwnRows
<1>. QED BY <1>1, <1>2, <1>3, <1>4, <1>5, <1>6, <1>7 DEF WorkerInv

\* Only a test with faults meets a model in its way.
LEMMA PurgeRaisesKeeps ==
  ASSUME DagTypeOK, DagTypeOK', DagInv, NEW w \in running, PurgeRaises(w)
  PROVE  TwoBundles' /\ WorkerInv(w)'
<1>t. w \in Workers BY RunningWorkers
<1>i. WorkerInv(w) /\ TwoBundles BY DEF DagInv
<1>p. PICK wanted \in WantedRecords(w) :
          /\ Wants(w, wanted) /\ db.models[wanted.dag] # NoModel /\ wanted.dag \in persisted[w] /\ ~xdist
          /\ w \in FaultyWorkers \/ ~CanWrite(w, wanted.session)
          /\ staged' = [staged EXCEPT ![w] = Discarded(w, wanted.session)] /\ writer' = Released(w, wanted.session)
  BY DEF PurgeRaises
<1>s. wanted \in Records /\ wanted.dag \in Dags /\ BundleFits(w, wanted) /\ wanted.runs = {}
  BY <1>p, <1>t, WantedTypes, DagAssumption DEF BundleFits, Wants
<1>g. at[w] = "body"
  BY <1>p DEF PurgeRaises, Move, InBody, Wants, CanWrite
<1>e. /\ at'[w] = at[w]
      /\ cur'[w] = cur[w]
      /\ (saw'[w] <=> saw[w])
      /\ recs'[w] = recs[w]
      /\ persisted'[w] = persisted[w]
      /\ authoring'[w] = authoring[w]
      /\ staged'[w] = Discarded(w, wanted.session)
      /\ problems'[w] = problems[w] \cup {"failed"}
      /\ live'[w] = live[w]
      /\ db' = db
      /\ writer' = Released(w, wanted.session)
      /\ running' = running /\ family' = family
  BY <1>p, <1>t, AtHome DEF DagTypeOK, PurgeRaises, Move, Report, Forget, local
<1>v. v2' <=> v2 BY <1>e DEF v2
<1>n. w \notin FaultyWorkers => wanted.dag \notin RecDags(w) BY <1>p DEF Wants, RecDags, DagsIn
<1>r. RecDags(w)' = RecDags(w) BY <1>e DEF RecDags
<1>m. w \in FaultyWorkers
  <2>1. wanted.dag \in DagsOf[w] BY <1>s DEF BundleFits
  <2>2. w \notin FaultyWorkers => wanted.dag \in RecDags(w) BY <2>1, <1>g, <1>p, <1>i DEF WorkerInv, OwnHealth
  <2>. QED BY <1>n, <2>2
<1>1. TwoBundles' BY <1>g, <1>p, <1>s, <1>e, <1>i, AtHome DEF TwoBundles, Databases, BundleFits, Records
<1>2. OwnRecords(w)'
  BY <1>g, <1>p, <1>s, <1>e, <1>v, <1>i, <1>t, AtHome, DagAssumption DEF WorkerInv, OwnRecords, Registering, Uncommitted, RecDags, DagsIn, BundleFits
<1>3. OwnLock(w)'
  BY <1>g, <1>p, <1>s, <1>e, <1>v, <1>i, <1>t, AtHome, DagAssumption DEF WorkerInv, OwnLock, Registering, Uncommitted, Released, Committed, Discarded, StagedAfter, CanWrite, CanClean, Fresh, Retries, SharedRow, HasDag, InBody, Sessions, BundleFits
<1>4. OwnModels(w)'
  BY <1>g, <1>p, <1>s, <1>e, <1>v, <1>i, <1>t, AtHome, DagAssumption DEF WorkerInv, OwnModels, Registering, Uncommitted, RecDags, DagsIn, OwnRecords, BundleFits, Databases, xdist
<1>5. OwnHealth(w)'
  BY <1>m DEF OwnHealth
<1>6. OwnLive(w)'
  BY <1>g, <1>p, <1>s, <1>e, <1>v, <1>i, <1>t, AtHome, DagAssumption DEF WorkerInv, OwnLive, Registering, Uncommitted, RecDags, DagsIn, OwnRecords, BundleFits, Databases, Records, SharedBundle
<1>7. OwnRows(w)'
  BY <1>g, <1>p, <1>s, <1>e, <1>v, <1>i, <1>t, AtHome, DagAssumption DEF WorkerInv, OwnRows, Registering, Uncommitted, Holds, OwnRecords, OwnLock, OwnLive, BundleFits, Databases
<1>. QED BY <1>1, <1>2, <1>3, <1>4, <1>5, <1>6, <1>7 DEF WorkerInv

\* Nothing was written.
LEMMA AuthoringRaisesKeeps ==
  ASSUME DagTypeOK, DagTypeOK', DagInv, NEW w \in running, AuthoringRaises(w)
  PROVE  TwoBundles' /\ WorkerInv(w)'
<1>t. w \in Workers BY RunningWorkers
<1>i. WorkerInv(w) /\ TwoBundles BY DEF DagInv
<1>g. at[w] = "authoring"
  BY DEF AuthoringRaises, Move, InBody, Wants, CanWrite
<1>e. /\ at'[w] = "body"
      /\ cur'[w] = NoRecord
      /\ (saw'[w] <=> saw[w])
      /\ recs'[w] = recs[w]
      /\ persisted'[w] = persisted[w]
      /\ authoring'[w] = authoring[w]
      /\ staged'[w] = staged[w]
      /\ problems'[w] = problems[w]
      /\ live'[w] = live[w]
      /\ db' = db
      /\ writer' = writer
      /\ running' = running /\ family' = family
  BY <1>t, AtHome DEF DagTypeOK, AuthoringRaises, Move, Report, Forget, local
<1>v. v2' <=> v2 BY <1>e DEF v2
<1>1. TwoBundles' BY <1>g, <1>e, <1>i, AtHome DEF TwoBundles, Databases, BundleFits, Records
<1>2. OwnRecords(w)'
  BY <1>g, <1>e, <1>v, <1>i, <1>t, AtHome, DagAssumption DEF WorkerInv, OwnRecords, Registering, Uncommitted, RecDags, DagsIn, BundleFits
<1>3. OwnLock(w)'
  BY <1>g, <1>e, <1>v, <1>i, <1>t, AtHome, DagAssumption DEF WorkerInv, OwnLock, Registering, Uncommitted, Released, Committed, Discarded, StagedAfter, CanWrite, CanClean, Fresh, Retries, SharedRow, HasDag, InBody, Sessions, BundleFits
<1>4. OwnModels(w)'
  BY <1>g, <1>e, <1>v, <1>i, <1>t, AtHome, DagAssumption DEF WorkerInv, OwnModels, Registering, Uncommitted, RecDags, DagsIn, OwnRecords, BundleFits, Databases, xdist
<1>5. OwnHealth(w)'
  BY <1>g, <1>e, <1>v, <1>i, <1>t, AtHome, DagAssumption DEF WorkerInv, OwnHealth, Registering, Uncommitted, RecDags, DagsIn, Fresh, SharedRow, OwnRecords, OwnLock, OwnModels, BundleFits, Discarded, Committed, Sessions, Wants, CanWrite, HasDag, InBody, StagedAfter, CanClean
<1>6. OwnLive(w)'
  BY <1>g, <1>e, <1>v, <1>i, <1>t, AtHome, DagAssumption DEF WorkerInv, OwnLive, Registering, Uncommitted, RecDags, DagsIn, OwnRecords, BundleFits, Databases, Records, SharedBundle
<1>7. OwnRows(w)'
  BY <1>g, <1>e, <1>v, <1>i, <1>t, AtHome, DagAssumption DEF WorkerInv, OwnRows, Registering, Uncommitted, Holds, OwnRecords, OwnLock, OwnLive, BundleFits, Databases
<1>. QED BY <1>1, <1>2, <1>3, <1>4, <1>5, <1>6, <1>7 DEF WorkerInv

\* The read is fresh when made.
LEMMA ReadSharedKeeps ==
  ASSUME DagTypeOK, DagTypeOK', DagInv, NEW w \in running, ReadShared(w)
  PROVE  TwoBundles' /\ WorkerInv(w)'
<1>t. w \in Workers BY RunningWorkers
<1>i. WorkerInv(w) /\ TwoBundles BY DEF DagInv
<1>g. at[w] = "authoring"
  BY DEF ReadShared, Move, InBody, Wants, CanWrite
<1>e. /\ at'[w] = "read"
      /\ cur'[w] = cur[w]
      /\ (saw'[w] <=> (SharedRow(cur[w]) \in db.shared))
      /\ recs'[w] = recs[w]
      /\ persisted'[w] = persisted[w]
      /\ authoring'[w] = authoring[w]
      /\ staged'[w] = staged[w]
      /\ problems'[w] = problems[w]
      /\ live'[w] = live[w]
      /\ db' = db
      /\ writer' = writer
      /\ running' = running /\ family' = family
  <2>1. saw' = [saw EXCEPT ![w] = SharedRow(cur[w]) \in db.shared]
    BY DEF ReadShared
  <2>2. saw'[w] <=> SharedRow(cur[w]) \in db.shared
    BY <2>1, <1>t DEF DagTypeOK
  <2>3. at'[w] = "read"
    BY <1>t DEF ReadShared, Move, DagTypeOK
  <2>4. UNCHANGED <<family, running, db, writer, cur, recs, persisted, authoring, staged, problems, live>>
    BY DEF ReadShared
  <2>. QED BY <2>2, <2>3, <2>4
<1>v. v2' <=> v2 BY <1>e DEF v2
<1>1. TwoBundles' BY <1>g, <1>e, <1>i, AtHome DEF TwoBundles, Databases, BundleFits, Records
<1>2. OwnRecords(w)'
  BY <1>g, <1>e, <1>v, <1>i, <1>t, AtHome, DagAssumption DEF WorkerInv, OwnRecords, Registering, Uncommitted, RecDags, DagsIn, BundleFits
<1>3. OwnLock(w)'
  BY <1>g, <1>e, <1>v, <1>i, <1>t, AtHome, DagAssumption DEF WorkerInv, OwnLock, Registering, Uncommitted, Released, Committed, Discarded, StagedAfter, CanWrite, CanClean, Fresh, Retries, SharedRow, HasDag, InBody, Sessions, BundleFits
<1>4. OwnModels(w)'
  BY <1>g, <1>e, <1>v, <1>i, <1>t, AtHome, DagAssumption DEF WorkerInv, OwnModels, Registering, Uncommitted, RecDags, DagsIn, OwnRecords, BundleFits, Databases, xdist
<1>5. OwnHealth(w)'
  BY <1>g, <1>e, <1>v, <1>i, <1>t, AtHome, DagAssumption DEF WorkerInv, OwnHealth, Registering, Uncommitted, RecDags, DagsIn, Fresh, SharedRow, OwnRecords, OwnLock, OwnModels, BundleFits, Discarded, Committed, Sessions, Wants, CanWrite, HasDag, InBody, StagedAfter, CanClean
<1>6. OwnLive(w)'
  BY <1>g, <1>e, <1>v, <1>i, <1>t, AtHome, DagAssumption DEF WorkerInv, OwnLive, Registering, Uncommitted, RecDags, DagsIn, OwnRecords, BundleFits, Databases, Records, SharedBundle
<1>7. OwnRows(w)'
  BY <1>g, <1>e, <1>v, <1>i, <1>t, AtHome, DagAssumption DEF WorkerInv, OwnRows, Registering, Uncommitted, Holds, OwnRecords, OwnLock, OwnLive, BundleFits, Databases
<1>. QED BY <1>1, <1>2, <1>3, <1>4, <1>5, <1>6, <1>7 DEF WorkerInv

\* Under the lock what was read still holds: the record that says it created the bundle did.
LEMMA WriteRowsKeeps ==
  ASSUME DagTypeOK, DagTypeOK', DagInv, NEW w \in running, WriteRows(w)
  PROVE  TwoBundles' /\ WorkerInv(w)'
<1>t. w \in Workers BY RunningWorkers
<1>i. WorkerInv(w) /\ TwoBundles BY DEF DagInv
<1>g. at[w] = "read" /\ CanWrite(w, cur[w].session) /\ Fresh(w)
  BY DEF WriteRows, Move, InBody, Wants, CanWrite
<1>e. /\ at'[w] = "written"
      /\ (saw'[w] <=> saw[w])
      /\ recs'[w] = recs[w]
      /\ persisted'[w] = persisted[w]
      /\ authoring'[w] = authoring[w]
      /\ staged'[w] = staged[w]
      /\ problems'[w] = problems[w]
      /\ live'[w] = live[w]
      /\ db' = db
      /\ writer' = w
      /\ running' = running /\ family' = family
  BY <1>t, AtHome DEF DagTypeOK, WriteRows, Move, Report, Forget, local
<1>v. v2' <=> v2 BY <1>e DEF v2
<1>r. RecDags(w)' = RecDags(w) BY <1>e DEF RecDags
<1>c. /\ cur[w] \in Records /\ BundleFits(w, cur[w]) /\ cur[w].runs = {}
      /\ cur'[w] \in Records
      /\ cur'[w].dag = cur[w].dag /\ cur'[w].bundle = cur[w].bundle /\ cur'[w].session = cur[w].session
      /\ cur'[w].runs = cur[w].runs /\ (cur'[w].created <=> ~v2 /\ ~saw[w])
  <2>1. cur[w] \in Records /\ BundleFits(w, cur[w]) /\ cur[w].runs = {}
    BY <1>g, <1>i DEF WorkerInv, OwnRecords, Registering, Uncommitted
  <2>. DEFINE b == ~v2 /\ ~saw[w]
  <2>2. b \in BOOLEAN OBVIOUS
  <2>3. cur' = [cur EXCEPT ![w] = [cur[w] EXCEPT !.created = b]] BY DEF WriteRows
  <2>4. b <=> ~v2 /\ ~saw[w] OBVIOUS
  <2>. HIDE DEF b
  <2>5. cur'[w] = [cur[w] EXCEPT !.created = b] BY <2>3, <1>t DEF DagTypeOK
  <2>. QED BY <2>1, <2>2, <2>4, <2>5, RecordCreating
<1>h. \A q : Holds(w, q)' <=> Holds(w, q) BY <1>g, <1>e DEF Holds
<1>1. TwoBundles' BY <1>g, <1>e, <1>i, AtHome DEF TwoBundles, Databases, BundleFits, Records
<1>2. OwnRecords(w)'
  BY <1>g, <1>e, <1>c, <1>v, <1>i, <1>r, <1>t, AtHome DEF WorkerInv, OwnRecords, BundleFits, Registering, Uncommitted
<1>3. OwnLock(w)'
  BY <1>g, <1>e, <1>c, <1>v, <1>i, <1>r, <1>t, AtHome DEF WorkerInv, OwnLock, CanWrite
<1>4. OwnModels(w)'
  BY <1>g, <1>e, <1>c, <1>v, <1>i, <1>r, <1>t, AtHome DEF WorkerInv, OwnModels, xdist
<1>5. OwnHealth(w)'
  BY <1>g, <1>e, <1>c, <1>v, <1>i, <1>r, <1>t, AtHome DEF WorkerInv, OwnHealth, Registering, Uncommitted
<1>6. OwnLive(w)'
  <2>1. at'[w] \in Uncommitted => db'.models[cur'[w].dag] = NoModel
    BY <1>g, <1>e, <1>c, <1>v, <1>i, <1>r DEF WorkerInv, OwnLive, Registering, Uncommitted
  <2>2. at'[w] = "committed" =>
       /\ db'.models[cur'[w].dag] = cur'[w].bundle
       /\ [dag |-> cur'[w].dag, bundle |-> cur'[w].bundle] \in db'.versions
    BY <1>g, <1>e, <1>c, <1>v, <1>i, <1>r DEF WorkerInv, OwnLive, Registering, Uncommitted
  <2>3. (at'[w] \in {"committed", "discarding"} /\ cur'[w].dag \in RecDags(w)') =>
       /\ db'.models[cur'[w].dag] \in {NoModel, cur'[w].bundle}
       /\ \A v \in db'.versions : v.dag = cur'[w].dag => v.bundle = cur'[w].bundle
    BY <1>g, <1>e, <1>c, <1>v, <1>i, <1>r DEF WorkerInv, OwnLive, Registering, Uncommitted
  <2>4. at'[w] # "teardown" => \A d \in RecDags(w)' :
       db'.models[d] = NoModel => \A v \in db'.versions : v.dag # d
    BY <1>g, <1>e, <1>c, <1>v, <1>i, <1>r DEF WorkerInv, OwnLive, Registering, Uncommitted
  <2>5. at'[w] # "teardown" => \A x \in live'[w] : x # SharedBundle =>
       \/ x \in db'.runs /\ (v2' \/ db'.models[x.dag] # NoModel)
       \/ x \in db'.versions /\ db'.models[x.dag] # NoModel
    BY <1>g, <1>e, <1>c, <1>v, <1>i, <1>r DEF WorkerInv, OwnLive, Registering, Uncommitted
  <2>6. at'[w] \in Registering => \A x \in live'[w] : (x # SharedBundle /\ x.dag = cur'[w].dag) =>
       v2' /\ x \in db'.runs
    BY <1>g, <1>e, <1>c, <1>v, <1>i, <1>r DEF WorkerInv, OwnLive, Registering, Uncommitted
  <2>. QED BY <2>1, <2>2, <2>3, <2>4, <2>5, <2>6 DEF OwnLive, SharedBundle
<1>7. OwnRows(w)'
  <2>1. at'[w] = "discarding" => problems'[w] # {}
    BY <1>g, <1>e, <1>c, <1>v, <1>i, DagAssumption DEF WorkerInv, OwnRows, Fresh, SharedRow
  <2>2. (at'[w] = "written" /\ ~v2' /\ cur'[w].bundle \in Dags \ db'.shared) => cur'[w].created
    BY <1>g, <1>e, <1>c, <1>v, <1>i, DagAssumption DEF WorkerInv, OwnRows, Fresh, SharedRow
  <2>3. v2' => \A d \in DagsOf[w] : d \notin db'.shared
    BY <1>g, <1>e, <1>c, <1>v, <1>i, DagAssumption DEF WorkerInv, OwnRows, Fresh, SharedRow
  <2>4. ASSUME problems'[w] = {}, NEW d \in DagsOf[w]
        PROVE  /\ db'.models[d] = d => \E r \in Records : Holds(w, r)' /\ r.dag = d /\ r.bundle = d
               /\ \A v \in db'.versions : v.dag = d =>
                    \E r \in Records : Holds(w, r)' /\ r.dag = d /\ r.bundle = v.bundle
               /\ d \in db'.shared => \E r \in Records : Holds(w, r)' /\ r.bundle = d /\ r.created
               /\ \A x \in db'.runs : x.dag = d =>
                    \/ v2' /\ x.by = "airflow"
                    \/ \E r \in Records : Holds(w, r)' /\ r.dag = d /\ (v2' => x.id \in r.runs)
    <3>0. d \in Dags /\ problems[w] = {} BY <2>4, <1>e, AtHome
    <3>1. /\ db.models[d] = d => \E r \in Records : Holds(w, r) /\ r.dag = d /\ r.bundle = d
          /\ \A v \in db.versions : v.dag = d =>
               \E r \in Records : Holds(w, r) /\ r.dag = d /\ r.bundle = v.bundle
          /\ d \in db.shared => \E r \in Records : Holds(w, r) /\ r.bundle = d /\ r.created
          /\ \A x \in db.runs : x.dag = d =>
               \/ v2 /\ x.by = "airflow"
               \/ \E r \in Records : Holds(w, r) /\ r.dag = d /\ (v2 => x.id \in r.runs)
      BY <3>0, <1>i DEF WorkerInv, OwnRows
    <3>2. db'.models[d] = d => \E r \in Records : Holds(w, r)' /\ r.dag = d /\ r.bundle = d
      BY <3>0, <3>1, <1>e, <1>v, <1>h
    <3>3. \A v \in db'.versions : v.dag = d =>
            \E r \in Records : Holds(w, r)' /\ r.dag = d /\ r.bundle = v.bundle
      BY <3>0, <3>1, <1>e, <1>v, <1>h
    <3>4. d \in db'.shared => \E r \in Records : Holds(w, r)' /\ r.bundle = d /\ r.created
      BY <3>0, <3>1, <1>e, <1>v, <1>h
    <3>5. \A x \in db'.runs : x.dag = d =>
            \/ v2' /\ x.by = "airflow"
            \/ \E r \in Records : Holds(w, r)' /\ r.dag = d /\ (v2' => x.id \in r.runs)
      BY <3>0, <3>1, <1>e, <1>v, <1>h
    <3>. QED BY <3>2, <3>3, <3>4, <3>5
  <2>. QED BY <2>1, <2>2, <2>3, <2>4 DEF OwnRows
<1>. QED BY <1>1, <1>2, <1>3, <1>4, <1>5, <1>6, <1>7 DEF WorkerInv

\* 2.x only: what was staged is reported lost, or kept.
LEMMA RetrySyncKeeps ==
  ASSUME DagTypeOK, DagTypeOK', DagInv, NEW w \in running, RetrySync(w)
  PROVE  TwoBundles' /\ WorkerInv(w)'
<1>t. w \in Workers BY RunningWorkers
<1>i. WorkerInv(w) /\ TwoBundles BY DEF DagInv
<1>g. at[w] = "read" /\ ~Fresh(w) /\ Retries(w)
  BY DEF RetrySync, Move, InBody, Wants, CanWrite
<1>e. /\ at'[w] = "authoring"
      /\ cur'[w] = cur[w]
      /\ (saw'[w] <=> saw[w])
      /\ recs'[w] = recs[w]
      /\ persisted'[w] = persisted[w]
      /\ authoring'[w] = authoring[w]
      /\ staged'[w] = Discarded(w, cur[w].session)
      /\ problems'[w] = problems[w]
      /\ live'[w] = live[w]
      /\ db' = db
      /\ writer' = Released(w, cur[w].session)
      /\ running' = running /\ family' = family
  BY <1>t, AtHome DEF DagTypeOK, RetrySync, Move, Report, Forget, local
<1>v. v2' <=> v2 BY <1>e DEF v2
<1>r. RecDags(w)' = RecDags(w) BY <1>e DEF RecDags
<1>1. TwoBundles' BY <1>g, <1>e, <1>i, AtHome DEF TwoBundles, Databases, BundleFits, Records
<1>2. OwnRecords(w)'
  BY <1>g, <1>e, <1>v, <1>i, <1>t, AtHome, DagAssumption DEF WorkerInv, OwnRecords, Registering, Uncommitted, RecDags, DagsIn, BundleFits
<1>3. OwnLock(w)'
  BY <1>g, <1>e, <1>v, <1>i, <1>t, AtHome, DagAssumption DEF WorkerInv, OwnLock, Registering, Uncommitted, Released, Committed, Discarded, StagedAfter, CanWrite, CanClean, Fresh, Retries, SharedRow, HasDag, InBody, Sessions, BundleFits
<1>4. OwnModels(w)'
  BY <1>g, <1>e, <1>v, <1>i, <1>t, AtHome, DagAssumption DEF WorkerInv, OwnModels, Registering, Uncommitted, RecDags, DagsIn, OwnRecords, BundleFits, Databases, xdist
<1>5. OwnHealth(w)'
  BY <1>g, <1>e, <1>v, <1>i, <1>r, <1>t, AtHome DEF WorkerInv, OwnHealth, Retries, Discarded, Registering, Uncommitted
<1>6. OwnLive(w)'
  BY <1>g, <1>e, <1>v, <1>i, <1>t, AtHome, DagAssumption DEF WorkerInv, OwnLive, Registering, Uncommitted, RecDags, DagsIn, OwnRecords, BundleFits, Databases, Records, SharedBundle
<1>7. OwnRows(w)'
  BY <1>g, <1>e, <1>v, <1>i, <1>t, AtHome, DagAssumption DEF WorkerInv, OwnRows, Registering, Uncommitted, Holds, OwnRecords, OwnLock, OwnLive, BundleFits, Databases
<1>. QED BY <1>1, <1>2, <1>3, <1>4, <1>5, <1>6, <1>7 DEF WorkerInv

\* The record answers for the rows from the commit on.
LEMMA CommitRowsKeeps ==
  ASSUME DagTypeOK, DagTypeOK', DagInv, NEW w \in running, CommitRows(w)
  PROVE  TwoBundles' /\ WorkerInv(w)'
<1>t. w \in Workers BY RunningWorkers
<1>i. WorkerInv(w) /\ TwoBundles BY DEF DagInv
<1>o. /\ RecDags(w) \subseteq DagsOf[w] /\ RecDags(w) \subseteq Dags
      /\ \A x \in live[w] : x # SharedBundle => x.dag \in RecDags(w)
      /\ \A v \in db.versions : v \in Registrations /\ v.dag \in Dags /\ v.bundle \in Bundles
      /\ \A x \in db.runs : x \in Runs /\ x.dag \in Dags
  BY <1>i, OwnDags
<1>g. at[w] = "written"
  BY DEF CommitRows, Move, InBody, Wants, CanWrite
<1>s. cur[w] \in Records /\ BundleFits(w, cur[w]) /\ cur[w].runs = {} /\ cur[w].dag \in Dags
  BY <1>g, <1>i, DagAssumption, <1>t DEF WorkerInv, OwnRecords, BundleFits, Registering, Uncommitted
<1>e. /\ at'[w] = "committed"
      /\ cur'[w] = cur[w]
      /\ (saw'[w] <=> saw[w])
      /\ recs'[w] = recs[w]
      /\ persisted'[w] = persisted[w] \cup {cur[w].dag}
      /\ authoring'[w] = authoring[w]
      /\ staged'[w] = Committed(w, cur[w].session)
      /\ problems'[w] = problems[w]
      /\ live'[w] = live[w]
      /\ writer' = Nobody
      /\ running' = running /\ family' = family
  BY <1>t, AtHome DEF DagTypeOK, CommitRows, Move, Report, Forget, local
<1>d. /\ \A d \in Dags : db'.models[d] = IF d = cur[w].dag THEN cur[w].bundle ELSE db.models[d]
      /\ db'.versions = db.versions \cup {[dag |-> cur[w].dag, bundle |-> cur[w].bundle]}
      /\ db'.runs = db.runs /\ db'.shared = db.shared \cup {SharedRow(cur[w])}
  <2>1. db' = Written(db, cur[w]) /\ db \in Databases BY AtHome DEF CommitRows
  <2>2. db'.models = [db.models EXCEPT ![cur[w].dag] = cur[w].bundle] BY <2>1, <1>s, WrittenRows
  <2>3. db.models \in [Dags -> Bundles \cup {NoModel}] BY <2>1 DEF Databases
  <2>4. \A d \in Dags : db'.models[d] = IF d = cur[w].dag THEN cur[w].bundle ELSE db.models[d] BY <2>2, <2>3
  <2>. DEFINE after == Written(db, cur[w])
  <2>6. /\ after.versions = db.versions \cup {[dag |-> cur[w].dag, bundle |-> cur[w].bundle]}
        /\ after.runs = db.runs /\ after.shared = db.shared \cup {SharedRow(cur[w])}
    BY <2>1, <1>s, WrittenRows
  <2>. HIDE DEF after
  <2>5. /\ db'.versions = db.versions \cup {[dag |-> cur[w].dag, bundle |-> cur[w].bundle]}
        /\ db'.runs = db.runs /\ db'.shared = db.shared \cup {SharedRow(cur[w])}
    BY <2>1, <2>6 DEF after
  <2>. QED BY <2>4, <2>5
<1>v. v2' <=> v2 BY <1>e DEF v2
<1>r. RecDags(w)' = RecDags(w) BY <1>e DEF RecDags
<1>n. cur[w].bundle # NoModel /\ (cur[w].bundle = cur[w].dag \/ cur[w].bundle = Testing)
  BY <1>s, DagAssumption DEF BundleFits
<1>h. /\ \A q : Holds(w, q) => Holds(w, q)'
      /\ \A q : q = cur[w] => Holds(w, q)'
  BY <1>g, <1>e DEF Holds
<1>1. TwoBundles'
  BY <1>s, <1>d, <1>i, <1>n DEF TwoBundles
<1>2. OwnRecords(w)'
  BY <1>g, <1>d, <1>e, <1>v, <1>i, <1>t, AtHome, DagAssumption DEF WorkerInv, OwnRecords, Registering, Uncommitted, RecDags, DagsIn, BundleFits
<1>3. OwnLock(w)'
  BY <1>g, <1>s, <1>e, <1>i, <1>t, AtHome DEF WorkerInv, OwnLock, Committed, BundleFits, Sessions
<1>4. OwnModels(w)'
  BY <1>g, <1>s, <1>e, <1>d, <1>v, <1>i, <1>r, <1>o, <1>t, AtHome DEF WorkerInv, OwnModels, BundleFits, xdist
<1>5. OwnHealth(w)'
  <2>. SUFFICES ASSUME w \notin FaultyWorkers PROVE OwnHealth(w)' BY DEF OwnHealth
  <2>1. cur[w].bundle = cur[w].dag BY <1>s DEF BundleFits
  <2>. QED BY <1>g, <1>s, <1>e, <1>d, <1>v, <1>i, <1>r, <1>o, <2>1, <1>t, AtHome
       DEF WorkerInv, OwnHealth, Committed, Registering, Uncommitted
<1>6. OwnLive(w)'
  <2>1. at'[w] \in Uncommitted => db'.models[cur'[w].dag] = NoModel
    BY <1>g, <1>s, <1>e, <1>d, <1>v, <1>i, <1>r, <1>o, <1>n DEF WorkerInv, OwnLive, Registering, Uncommitted
  <2>2. at'[w] = "committed" =>
       /\ db'.models[cur'[w].dag] = cur'[w].bundle
       /\ [dag |-> cur'[w].dag, bundle |-> cur'[w].bundle] \in db'.versions
    BY <1>g, <1>s, <1>e, <1>d, <1>v, <1>i, <1>r, <1>o, <1>n DEF WorkerInv, OwnLive, Registering, Uncommitted
  <2>3. (at'[w] \in {"committed", "discarding"} /\ cur'[w].dag \in RecDags(w)') =>
       /\ db'.models[cur'[w].dag] \in {NoModel, cur'[w].bundle}
       /\ \A v \in db'.versions : v.dag = cur'[w].dag => v.bundle = cur'[w].bundle
    BY <1>g, <1>s, <1>e, <1>d, <1>v, <1>i, <1>r, <1>o, <1>n DEF WorkerInv, OwnLive, Registering, Uncommitted
  <2>4. at'[w] # "teardown" => \A d \in RecDags(w)' :
       db'.models[d] = NoModel => \A v \in db'.versions : v.dag # d
    BY <1>g, <1>s, <1>e, <1>d, <1>v, <1>i, <1>r, <1>o, <1>n DEF WorkerInv, OwnLive, Registering, Uncommitted
  <2>5. at'[w] # "teardown" => \A x \in live'[w] : x # SharedBundle =>
       \/ x \in db'.runs /\ (v2' \/ db'.models[x.dag] # NoModel)
       \/ x \in db'.versions /\ db'.models[x.dag] # NoModel
    BY <1>g, <1>s, <1>e, <1>d, <1>v, <1>i, <1>r, <1>o, <1>n DEF WorkerInv, OwnLive, Registering, Uncommitted
  <2>6. at'[w] \in Registering => \A x \in live'[w] : (x # SharedBundle /\ x.dag = cur'[w].dag) =>
       v2' /\ x \in db'.runs
    BY <1>g, <1>s, <1>e, <1>d, <1>v, <1>i, <1>r, <1>o, <1>n DEF WorkerInv, OwnLive, Registering, Uncommitted
  <2>. QED BY <2>1, <2>2, <2>3, <2>4, <2>5, <2>6 DEF OwnLive, SharedBundle
<1>7. OwnRows(w)'
  <2>1. at'[w] = "discarding" => problems'[w] # {}
    BY <1>g, <1>s, <1>e, <1>d, <1>v, <1>i, <1>r, <1>o, DagAssumption DEF WorkerInv, OwnRows, SharedRow, BundleFits
  <2>2. (at'[w] = "written" /\ ~v2' /\ cur'[w].bundle \in Dags \ db'.shared) => cur'[w].created
    BY <1>g, <1>s, <1>e, <1>d, <1>v, <1>i, <1>r, <1>o, DagAssumption DEF WorkerInv, OwnRows, SharedRow, BundleFits
  <2>3. v2' => \A d \in DagsOf[w] : d \notin db'.shared
    BY <1>g, <1>s, <1>e, <1>d, <1>v, <1>i, <1>r, <1>o, <1>t, AtHome, DagAssumption DEF WorkerInv, OwnRows, SharedRow
  <2>4. ASSUME problems'[w] = {}, NEW d \in DagsOf[w]
        PROVE  /\ db'.models[d] = d => \E r \in Records : Holds(w, r)' /\ r.dag = d /\ r.bundle = d
               /\ \A v \in db'.versions : v.dag = d =>
                    \E r \in Records : Holds(w, r)' /\ r.dag = d /\ r.bundle = v.bundle
               /\ d \in db'.shared => \E r \in Records : Holds(w, r)' /\ r.bundle = d /\ r.created
               /\ \A x \in db'.runs : x.dag = d =>
                    \/ v2' /\ x.by = "airflow"
                    \/ \E r \in Records : Holds(w, r)' /\ r.dag = d /\ (v2' => x.id \in r.runs)
    <3>0. d \in Dags /\ problems[w] = {} BY <2>4, <1>e, AtHome
    <3>1. /\ db.models[d] = d => \E r \in Records : Holds(w, r) /\ r.dag = d /\ r.bundle = d
          /\ \A v \in db.versions : v.dag = d =>
               \E r \in Records : Holds(w, r) /\ r.dag = d /\ r.bundle = v.bundle
          /\ d \in db.shared => \E r \in Records : Holds(w, r) /\ r.bundle = d /\ r.created
          /\ \A x \in db.runs : x.dag = d =>
               \/ v2 /\ x.by = "airflow"
               \/ \E r \in Records : Holds(w, r) /\ r.dag = d /\ (v2 => x.id \in r.runs)
      BY <3>0, <1>i DEF WorkerInv, OwnRows
    <3>2. db'.models[d] = d => \E r \in Records : Holds(w, r)' /\ r.dag = d /\ r.bundle = d
      <4>1. CASE d = cur[w].dag BY <4>1, <3>0, <1>s, <1>d, <1>h
      <4>2. CASE d # cur[w].dag BY <4>2, <3>0, <3>1, <1>d, <1>h
      <4>. QED BY <4>1, <4>2
    <3>3. \A v \in db'.versions : v.dag = d =>
            \E r \in Records : Holds(w, r)' /\ r.dag = d /\ r.bundle = v.bundle
      <4>1. SUFFICES ASSUME NEW v \in db'.versions, v.dag = d
                     PROVE  \E r \in Records : Holds(w, r)' /\ r.dag = d /\ r.bundle = v.bundle
        OBVIOUS
      <4>2. CASE v \in db.versions BY <4>1, <4>2, <3>1, <1>h
      <4>3. CASE v = [dag |-> cur[w].dag, bundle |-> cur[w].bundle] BY <4>1, <4>3, <1>s, <1>h
      <4>. QED BY <4>1, <4>2, <4>3, <1>d
    <3>4. d \in db'.shared => \E r \in Records : Holds(w, r)' /\ r.bundle = d /\ r.created
      <4>1. CASE d \in db.shared BY <4>1, <3>1, <1>h
      <4>2. CASE d \notin db.shared /\ d \in db'.shared
        <5>1. d = SharedRow(cur[w]) BY <4>2, <1>d
        <5>2. ~v2 /\ d = cur[w].bundle BY <5>1, <3>0, DagAssumption DEF SharedRow
        <5>3. cur[w].created BY <4>2, <5>2, <3>0, <1>g, <1>i DEF WorkerInv, OwnRows
        <5>. QED BY <5>2, <5>3, <1>s, <1>h
      <4>. QED BY <4>1, <4>2
    <3>5. \A x \in db'.runs : x.dag = d =>
            \/ v2' /\ x.by = "airflow"
            \/ \E r \in Records : Holds(w, r)' /\ r.dag = d /\ (v2' => x.id \in r.runs)
      BY <3>0, <3>1, <1>d, <1>v, <1>h
    <3>. QED BY <3>2, <3>3, <3>4, <3>5
  <2>. QED BY <2>1, <2>2, <2>3, <2>4 DEF OwnRows
<1>. QED BY <1>1, <1>2, <1>3, <1>4, <1>5, <1>6, <1>7 DEF WorkerInv

\* The record that answers for the rows moves to the list of the teardown.
LEMMA LoadSerializedKeeps ==
  ASSUME DagTypeOK, DagTypeOK', DagInv, NEW w \in running, LoadSerialized(w)
  PROVE  TwoBundles' /\ WorkerInv(w)'
<1>t. w \in Workers BY RunningWorkers
<1>i. WorkerInv(w) /\ TwoBundles BY DEF DagInv
<1>o. /\ RecDags(w) \subseteq DagsOf[w] /\ RecDags(w) \subseteq Dags
      /\ \A x \in live[w] : x # SharedBundle => x.dag \in RecDags(w)
      /\ \A v \in db.versions : v \in Registrations /\ v.dag \in Dags /\ v.bundle \in Bundles
      /\ \A x \in db.runs : x \in Runs /\ x.dag \in Dags
  BY <1>i, OwnDags
<1>g. at[w] = "committed"
  BY DEF LoadSerialized, Move, InBody, Wants, CanWrite
<1>s. cur[w].bundle \in Bundles /\ cur[w] \in Records /\ BundleFits(w, cur[w]) /\ cur[w].runs = {} /\ cur[w].dag \in Dags
  BY <1>g, <1>i, DagAssumption, <1>t DEF Records, WorkerInv, OwnRecords, BundleFits, Registering, Uncommitted
<1>e. /\ at'[w] = "body"
      /\ cur'[w] = NoRecord
      /\ (saw'[w] <=> saw[w])
      /\ recs'[w] = Append(recs[w], cur[w])
      /\ persisted'[w] = persisted[w]
      /\ authoring'[w] = authoring[w] \cup {cur[w].dag}
      /\ staged'[w] = staged[w]
      /\ problems'[w] = problems[w]
      /\ live'[w] = live[w] \cup {[dag |-> cur[w].dag, bundle |-> cur[w].bundle]}
      /\ db' = db
      /\ writer' = writer
      /\ running' = running /\ family' = family
  BY <1>t, AtHome DEF DagTypeOK, LoadSerialized, Move, Report, Forget, local
<1>v. v2' <=> v2 BY <1>e DEF v2
<1>r. RecDags(w)' = RecDags(w) \cup {cur[w].dag} BY <1>e, <1>s, AtHome, DagsAppended DEF RecDags
<1>x. /\ recs'[w] = Append(recs[w], cur[w]) /\ Len(recs[w]) \in Nat
      /\ DOMAIN recs[w] = 1..Len(recs[w]) /\ DOMAIN recs'[w] = 1..(Len(recs[w]) + 1)
      /\ \A i \in DOMAIN recs[w] : recs'[w][i] = recs[w][i]
      /\ recs'[w][Len(recs[w]) + 1] = cur[w]
  BY <1>e, <1>s, AtHome, AppendFacts, SequenceFacts
<1>y. /\ \A i \in DOMAIN recs'[w] : i = Len(recs[w]) + 1 \/ i \in DOMAIN recs[w]
      /\ \A i \in DOMAIN recs[w] : i \in DOMAIN recs'[w]
      /\ Len(recs[w]) + 1 \in DOMAIN recs'[w]
  BY <1>x
<1>h. \A q : Holds(w, q)' <=> Holds(w, q) BY <1>g, <1>e, <1>x, <1>y DEF Holds
<1>z. [dag |-> cur[w].dag, bundle |-> cur[w].bundle] \in db.versions /\ db.models[cur[w].dag] # NoModel
  BY <1>g, <1>s, <1>i, DagAssumption DEF WorkerInv, OwnLive, BundleFits
<1>w. [dag |-> cur[w].dag, bundle |-> cur[w].bundle] # SharedBundle
  BY <1>s, DagAssumption DEF SharedBundle
<1>1. TwoBundles' BY <1>g, <1>e, <1>i, AtHome DEF TwoBundles, Databases, BundleFits, Records
<1>2. OwnRecords(w)'
  <2>1. \A i \in DOMAIN recs'[w] : BundleFits(w, recs[w][i])'
    BY <1>x, <1>y, <1>s, <1>v, <1>i DEF WorkerInv, OwnRecords, BundleFits
  <2>2. authoring'[w] \subseteq RecDags(w)' BY <1>e, <1>r, <1>i DEF WorkerInv, OwnRecords
  <2>3. \A x \in live'[w] : x = SharedBundle \/ x.dag \in RecDags(w)' BY <1>e, <1>r, <1>i DEF WorkerInv, OwnRecords
  <2>. QED BY <1>e, <2>1, <2>2, <2>3 DEF OwnRecords, SharedBundle, Registering, Uncommitted
<1>3. OwnLock(w)'
  BY <1>g, <1>e, <1>i, <1>t, AtHome DEF WorkerInv, OwnLock
<1>4. OwnModels(w)'
  BY <1>g, <1>s, <1>e, <1>v, <1>i, <1>r, <1>o, <1>t, AtHome DEF WorkerInv, OwnModels, xdist
<1>5. OwnHealth(w)'
  <2>. SUFFICES ASSUME w \notin FaultyWorkers PROVE OwnHealth(w)' BY DEF OwnHealth
  <2>1. \A i, j \in DOMAIN recs'[w] : recs'[w][i].dag = recs'[w][j].dag => i = j
    <3>1. cur[w].dag \notin RecDags(w) BY <1>g, <1>i DEF WorkerInv, OwnHealth, Registering
    <3>2. \A i \in DOMAIN recs[w] : recs[w][i].dag # cur[w].dag BY <3>1 DEF RecDags, DagsIn
    <3>. QED BY <1>x, <1>y, <3>2, <1>i DEF WorkerInv, OwnHealth
  <2>2. \A i \in DOMAIN recs'[w] : [dag |-> recs'[w][i].dag, bundle |-> recs'[w][i].bundle] \in db'.versions
    BY <1>x, <1>y, <1>z, <1>e, <1>i DEF WorkerInv, OwnHealth
  <2>. QED BY <1>g, <1>s, <1>e, <1>i, <1>r, <2>1, <2>2 DEF WorkerInv, OwnHealth, Registering, Uncommitted
<1>6. OwnLive(w)'
  <2>1. at'[w] \in Uncommitted => db'.models[cur'[w].dag] = NoModel
    BY <1>g, <1>s, <1>e, <1>v, <1>i, <1>r, <1>o, <1>z, <1>w DEF WorkerInv, OwnLive, Registering, Uncommitted
  <2>2. at'[w] = "committed" =>
       /\ db'.models[cur'[w].dag] = cur'[w].bundle
       /\ [dag |-> cur'[w].dag, bundle |-> cur'[w].bundle] \in db'.versions
    BY <1>g, <1>s, <1>e, <1>v, <1>i, <1>r, <1>o, <1>z, <1>w DEF WorkerInv, OwnLive, Registering, Uncommitted
  <2>3. (at'[w] \in {"committed", "discarding"} /\ cur'[w].dag \in RecDags(w)') =>
       /\ db'.models[cur'[w].dag] \in {NoModel, cur'[w].bundle}
       /\ \A v \in db'.versions : v.dag = cur'[w].dag => v.bundle = cur'[w].bundle
    BY <1>g, <1>s, <1>e, <1>v, <1>i, <1>r, <1>o, <1>z, <1>w DEF WorkerInv, OwnLive, Registering, Uncommitted
  <2>4. at'[w] # "teardown" => \A d \in RecDags(w)' :
       db'.models[d] = NoModel => \A v \in db'.versions : v.dag # d
    BY <1>g, <1>s, <1>e, <1>v, <1>i, <1>r, <1>o, <1>z, <1>w DEF WorkerInv, OwnLive, Registering, Uncommitted
  <2>5. at'[w] # "teardown" => \A x \in live'[w] : x # SharedBundle =>
       \/ x \in db'.runs /\ (v2' \/ db'.models[x.dag] # NoModel)
       \/ x \in db'.versions /\ db'.models[x.dag] # NoModel
    BY <1>g, <1>s, <1>e, <1>v, <1>i, <1>r, <1>o, <1>z, <1>w DEF WorkerInv, OwnLive, Registering, Uncommitted
  <2>6. at'[w] \in Registering => \A x \in live'[w] : (x # SharedBundle /\ x.dag = cur'[w].dag) =>
       v2' /\ x \in db'.runs
    BY <1>g, <1>s, <1>e, <1>v, <1>i, <1>r, <1>o, <1>z, <1>w DEF WorkerInv, OwnLive, Registering, Uncommitted
  <2>. QED BY <2>1, <2>2, <2>3, <2>4, <2>5, <2>6 DEF OwnLive, SharedBundle
<1>7. OwnRows(w)'
  <2>1. at'[w] = "discarding" => problems'[w] # {}
    BY <1>g, <1>e, <1>v, <1>i DEF WorkerInv, OwnRows
  <2>2. (at'[w] = "written" /\ ~v2' /\ cur'[w].bundle \in Dags \ db'.shared) => cur'[w].created
    BY <1>g, <1>e, <1>v, <1>i DEF WorkerInv, OwnRows
  <2>3. v2' => \A d \in DagsOf[w] : d \notin db'.shared
    BY <1>g, <1>e, <1>v, <1>i DEF WorkerInv, OwnRows
  <2>4. ASSUME problems'[w] = {}, NEW d \in DagsOf[w]
        PROVE  /\ db'.models[d] = d => \E r \in Records : Holds(w, r)' /\ r.dag = d /\ r.bundle = d
               /\ \A v \in db'.versions : v.dag = d =>
                    \E r \in Records : Holds(w, r)' /\ r.dag = d /\ r.bundle = v.bundle
               /\ d \in db'.shared => \E r \in Records : Holds(w, r)' /\ r.bundle = d /\ r.created
               /\ \A x \in db'.runs : x.dag = d =>
                    \/ v2' /\ x.by = "airflow"
                    \/ \E r \in Records : Holds(w, r)' /\ r.dag = d /\ (v2' => x.id \in r.runs)
    <3>0. d \in Dags /\ problems[w] = {} BY <2>4, <1>e, AtHome
    <3>1. /\ db.models[d] = d => \E r \in Records : Holds(w, r) /\ r.dag = d /\ r.bundle = d
          /\ \A v \in db.versions : v.dag = d =>
               \E r \in Records : Holds(w, r) /\ r.dag = d /\ r.bundle = v.bundle
          /\ d \in db.shared => \E r \in Records : Holds(w, r) /\ r.bundle = d /\ r.created
          /\ \A x \in db.runs : x.dag = d =>
               \/ v2 /\ x.by = "airflow"
               \/ \E r \in Records : Holds(w, r) /\ r.dag = d /\ (v2 => x.id \in r.runs)
      BY <3>0, <1>i DEF WorkerInv, OwnRows
    <3>2. db'.models[d] = d => \E r \in Records : Holds(w, r)' /\ r.dag = d /\ r.bundle = d
      BY <3>0, <3>1, <1>e, <1>v, <1>h
    <3>3. \A v \in db'.versions : v.dag = d =>
            \E r \in Records : Holds(w, r)' /\ r.dag = d /\ r.bundle = v.bundle
      BY <3>0, <3>1, <1>e, <1>v, <1>h
    <3>4. d \in db'.shared => \E r \in Records : Holds(w, r)' /\ r.bundle = d /\ r.created
      BY <3>0, <3>1, <1>e, <1>v, <1>h
    <3>5. \A x \in db'.runs : x.dag = d =>
            \/ v2' /\ x.by = "airflow"
            \/ \E r \in Records : Holds(w, r)' /\ r.dag = d /\ (v2' => x.id \in r.runs)
      BY <3>0, <3>1, <1>e, <1>v, <1>h
    <3>. QED BY <3>2, <3>3, <3>4, <3>5
  <2>. QED BY <2>1, <2>2, <2>3, <2>4 DEF OwnRows
<1>. QED BY <1>1, <1>2, <1>3, <1>4, <1>5, <1>6, <1>7 DEF WorkerInv

\* Of a test without faults only the retry that staged objects forbid fails.
LEMMA PersistRaisesKeeps ==
  ASSUME DagTypeOK, DagTypeOK', DagInv, NEW w \in running, PersistRaises(w)
  PROVE  TwoBundles' /\ WorkerInv(w)'
<1>t. w \in Workers BY RunningWorkers
<1>i. WorkerInv(w) /\ TwoBundles BY DEF DagInv
<1>g. at[w] \in {"read", "written", "committed"}
        /\ \/ w \in FaultyWorkers
           \/ at[w] = "read" /\ writer = w /\ cur[w].session = "owned"
           \/ at[w] = "read" /\ ~Fresh(w) /\ ~Retries(w)
  BY DEF PersistRaises, Move, InBody, Wants, CanWrite
<1>s. cur[w] \in Records /\ BundleFits(w, cur[w]) /\ cur[w].runs = {} /\ cur[w].dag \in Dags
  BY <1>g, <1>i, DagAssumption, <1>t DEF WorkerInv, OwnRecords, BundleFits, Registering, Uncommitted
<1>e. /\ at'[w] = "discarding"
      /\ cur'[w] = cur[w]
      /\ (saw'[w] <=> saw[w])
      /\ recs'[w] = recs[w]
      /\ persisted'[w] = persisted[w]
      /\ authoring'[w] = authoring[w]
      /\ staged'[w] = Discarded(w, cur[w].session)
      /\ problems'[w] = problems[w] \cup {"failed"}
      /\ live'[w] = live[w]
      /\ db' = db
      /\ writer' = Released(w, cur[w].session)
      /\ running' = running /\ family' = family
  BY <1>t, AtHome DEF DagTypeOK, PersistRaises, Move, Report, Forget, local
<1>v. v2' <=> v2 BY <1>e DEF v2
<1>r. RecDags(w)' = RecDags(w) BY <1>e DEF RecDags
<1>1. TwoBundles' BY <1>g, <1>e, <1>i, AtHome DEF TwoBundles, Databases, BundleFits, Records
<1>2. OwnRecords(w)'
  BY <1>g, <1>s, <1>e, <1>v, <1>i, <1>r, <1>t, AtHome DEF WorkerInv, OwnRecords, BundleFits, Registering, Uncommitted
<1>3. OwnLock(w)'
  BY <1>g, <1>s, <1>e, <1>v, <1>i, <1>r, <1>t, AtHome DEF Sessions, WorkerInv, OwnLock, Released, Discarded, BundleFits
<1>4. OwnModels(w)'
  BY <1>g, <1>e, <1>v, <1>i, <1>t, AtHome, DagAssumption DEF WorkerInv, OwnModels, Registering, Uncommitted, RecDags, DagsIn, OwnRecords, BundleFits, Databases, xdist
<1>5. OwnHealth(w)'
  <2>1. ASSUME w \notin FaultyWorkers PROVE staged'[w] = "lost"
    <3>1. at[w] = "read" BY <2>1, <1>g
    <3>2. CASE writer = w /\ cur[w].session = "owned"
      BY <2>1, <3>1, <3>2, <1>s, <1>i DEF WorkerInv, OwnLock, BundleFits, Sessions
    <3>3. CASE ~Fresh(w) /\ ~Retries(w)
      BY <2>1, <3>1, <3>3, <1>e, <1>i DEF WorkerInv, OwnHealth, Retries, Discarded
    <3>. QED BY <2>1, <3>2, <3>3, <1>g
  <2>2. ASSUME w \notin FaultyWorkers
        PROVE  /\ \A d \in DagsOf[w] :
                    /\ db'.models[d] \in {NoModel, d}
                    /\ db'.models[d] # NoModel => d \in RecDags(w)' \/ (at'[w] = "committed" /\ cur'[w].dag = d)
    <3>1. at[w] = "read" BY <2>2, <1>g
    <3>. QED BY <2>2, <3>1, <1>e, <1>i, <1>r DEF WorkerInv, OwnHealth
  <2>. QED BY <2>1, <2>2, <1>g, <1>e, <1>i, <1>r DEF WorkerInv, OwnHealth, Registering, Uncommitted
<1>6. OwnLive(w)'
  <2>1. at'[w] \in Uncommitted => db'.models[cur'[w].dag] = NoModel
    BY <1>g, <1>s, <1>e, <1>v, <1>i, <1>r DEF WorkerInv, OwnLive, Registering, Uncommitted
  <2>2. at'[w] = "committed" =>
       /\ db'.models[cur'[w].dag] = cur'[w].bundle
       /\ [dag |-> cur'[w].dag, bundle |-> cur'[w].bundle] \in db'.versions
    BY <1>g, <1>s, <1>e, <1>v, <1>i, <1>r DEF WorkerInv, OwnLive, Registering, Uncommitted
  <2>3. (at'[w] \in {"committed", "discarding"} /\ cur'[w].dag \in RecDags(w)') =>
       /\ db'.models[cur'[w].dag] \in {NoModel, cur'[w].bundle}
       /\ \A v \in db'.versions : v.dag = cur'[w].dag => v.bundle = cur'[w].bundle
    BY <1>g, <1>s, <1>e, <1>v, <1>i, <1>r DEF WorkerInv, OwnLive, Registering, Uncommitted
  <2>4. at'[w] # "teardown" => \A d \in RecDags(w)' :
       db'.models[d] = NoModel => \A v \in db'.versions : v.dag # d
    BY <1>g, <1>s, <1>e, <1>v, <1>i, <1>r DEF WorkerInv, OwnLive, Registering, Uncommitted
  <2>5. at'[w] # "teardown" => \A x \in live'[w] : x # SharedBundle =>
       \/ x \in db'.runs /\ (v2' \/ db'.models[x.dag] # NoModel)
       \/ x \in db'.versions /\ db'.models[x.dag] # NoModel
    BY <1>g, <1>s, <1>e, <1>v, <1>i, <1>r DEF WorkerInv, OwnLive, Registering, Uncommitted
  <2>6. at'[w] \in Registering => \A x \in live'[w] : (x # SharedBundle /\ x.dag = cur'[w].dag) =>
       v2' /\ x \in db'.runs
    BY <1>g, <1>s, <1>e, <1>v, <1>i, <1>r DEF WorkerInv, OwnLive, Registering, Uncommitted
  <2>. QED BY <2>1, <2>2, <2>3, <2>4, <2>5, <2>6 DEF OwnLive, SharedBundle
<1>7. OwnRows(w)'
  <2>1. at'[w] = "discarding" => problems'[w] # {}
    BY <1>g, <1>e, <1>v, <1>i DEF WorkerInv, OwnRows
  <2>2. (at'[w] = "written" /\ ~v2' /\ cur'[w].bundle \in Dags \ db'.shared) => cur'[w].created
    BY <1>g, <1>e, <1>v, <1>i DEF WorkerInv, OwnRows
  <2>3. v2' => \A d \in DagsOf[w] : d \notin db'.shared
    BY <1>g, <1>e, <1>v, <1>i DEF WorkerInv, OwnRows
  <2>4. ASSUME problems'[w] = {}, NEW d \in DagsOf[w]
        PROVE  /\ db'.models[d] = d => \E r \in Records : Holds(w, r)' /\ r.dag = d /\ r.bundle = d
               /\ \A v \in db'.versions : v.dag = d =>
                    \E r \in Records : Holds(w, r)' /\ r.dag = d /\ r.bundle = v.bundle
               /\ d \in db'.shared => \E r \in Records : Holds(w, r)' /\ r.bundle = d /\ r.created
               /\ \A x \in db'.runs : x.dag = d =>
                    \/ v2' /\ x.by = "airflow"
                    \/ \E r \in Records : Holds(w, r)' /\ r.dag = d /\ (v2' => x.id \in r.runs)
    BY <2>4, <1>e
  <2>. QED BY <2>1, <2>2, <2>3, <2>4 DEF OwnRows
<1>. QED BY <1>1, <1>2, <1>3, <1>4, <1>5, <1>6, <1>7 DEF WorkerInv

\* The rollback deletes rows of this registration alone: what the test relies on of the
\* same Dag, if anything, are runs that no record of the registration names.
LEMMA DiscardKeeps ==
  ASSUME DagTypeOK, DagTypeOK', DagInv, NEW w \in running, Discard(w)
  PROVE  TwoBundles' /\ WorkerInv(w)'
<1>t. w \in Workers BY RunningWorkers
<1>i. WorkerInv(w) /\ TwoBundles BY DEF DagInv
<1>o. /\ RecDags(w) \subseteq DagsOf[w] /\ RecDags(w) \subseteq Dags
      /\ \A x \in live[w] : x # SharedBundle => x.dag \in RecDags(w)
      /\ \A v \in db.versions : v \in Registrations /\ v.dag \in Dags /\ v.bundle \in Bundles
      /\ \A x \in db.runs : x \in Runs /\ x.dag \in Dags
  BY <1>i, OwnDags
<1>g. at[w] = "discarding"
  BY DEF Discard, Move, InBody, Wants, CanWrite
<1>s. cur[w] \in Records /\ BundleFits(w, cur[w]) /\ cur[w].runs = {} /\ cur[w].dag \in Dags
  BY <1>g, <1>i, DagAssumption, <1>t DEF WorkerInv, OwnRecords, BundleFits, Registering, Uncommitted
<1>e. /\ at'[w] = "body"
      /\ cur'[w] = NoRecord
      /\ (saw'[w] <=> saw[w])
      /\ recs'[w] = recs[w]
      /\ persisted'[w] = persisted[w]
      /\ authoring'[w] = authoring[w]
      /\ staged'[w] = staged[w]
      /\ problems'[w] = problems[w]
      /\ live'[w] = live[w]
      /\ writer' = writer
      /\ running' = running /\ family' = family
  BY <1>t, AtHome DEF DagTypeOK, Discard, Move, Report, Forget, local
<1>d. \/ db' = db
      \/ /\ \A d \in Dags : db'.models[d] =
              IF d = cur[w].dag /\ (v2 \/ db.models[d] = cur[w].bundle) THEN NoModel ELSE db.models[d]
         /\ \A v : v \in db'.versions <=> v \in db.versions /\
              (IF v2 THEN v.dag # cur[w].dag ELSE v # [dag |-> cur[w].dag, bundle |-> cur[w].bundle])
         /\ \A x : x \in db'.runs <=> x \in db.runs /\
              (IF v2 THEN ~(x.id \in cur[w].runs /\ x.dag = cur[w].dag) ELSE x.dag # cur[w].dag)
         /\ db'.shared \subseteq db.shared
         /\ (~v2 /\ cur[w].created /\ \A dag \in Dags : db'.models[dag] # cur[w].bundle) => db'.shared = db.shared \ {cur[w].bundle}
  <2>1. CASE db' = db BY <2>1
  <2>2. CASE db' = Removed(db, cur[w])
    <3>0. db \in Databases /\ db.models \in [Dags -> Bundles \cup {NoModel}] BY AtHome DEF Databases
    <3>1. db'.models = [db.models EXCEPT ![cur[w].dag] = IF v2 \/ db.models[cur[w].dag] = cur[w].bundle THEN NoModel ELSE db.models[cur[w].dag]]
      BY <2>2, <3>0, <1>s, RemovedRows
    <3>2. \A d \in Dags : db'.models[d] =
            IF d = cur[w].dag /\ (v2 \/ db.models[d] = cur[w].bundle) THEN NoModel ELSE db.models[d]
      BY <3>0, <3>1
    <3>3. /\ db'.versions = {v \in db.versions :
              IF v2 THEN v.dag # cur[w].dag ELSE v # [dag |-> cur[w].dag, bundle |-> cur[w].bundle]}
          /\ db'.runs = {x \in db.runs : IF v2 THEN ~(x.id \in cur[w].runs /\ x.dag = cur[w].dag) ELSE x.dag # cur[w].dag}
          /\ db'.shared = IF ~v2 /\ cur[w].created /\ \A dag \in Dags : db'.models[dag] # cur[w].bundle
                          THEN db.shared \ {cur[w].bundle} ELSE db.shared
      <4>. DEFINE new == Removed(db, cur[w])
      <4>1. /\ new.versions = {v \in db.versions :
              IF v2 THEN v.dag # cur[w].dag ELSE v # [dag |-> cur[w].dag, bundle |-> cur[w].bundle]}
            /\ new.runs = {x \in db.runs : IF v2 THEN ~(x.id \in cur[w].runs /\ x.dag = cur[w].dag) ELSE x.dag # cur[w].dag}
            /\ new.shared = IF ~v2 /\ cur[w].created /\ \A dag \in Dags : new.models[dag] # cur[w].bundle
                            THEN db.shared \ {cur[w].bundle} ELSE db.shared
        BY <3>0, <1>s, RemovedRows
      <4>2. db' = new BY <2>2
      <4>. HIDE DEF new
      <4>. QED BY <4>1, <4>2
    <3>4. /\ db'.shared \subseteq db.shared
          /\ (~v2 /\ cur[w].created /\ \A dag \in Dags : db'.models[dag] # cur[w].bundle) => db'.shared = db.shared \ {cur[w].bundle}
      BY <3>3
    <3>5. \A v : v \in db'.versions <=> v \in db.versions /\
              (IF v2 THEN v.dag # cur[w].dag ELSE v # [dag |-> cur[w].dag, bundle |-> cur[w].bundle])
      BY <3>3
    <3>6. \A x : x \in db'.runs <=> x \in db.runs /\
              (IF v2 THEN ~(x.id \in cur[w].runs /\ x.dag = cur[w].dag) ELSE x.dag # cur[w].dag)
      BY <3>3
    <3>. QED BY <3>2, <3>4, <3>5, <3>6
  <2>. QED BY <2>1, <2>2 DEF Discard
<1>v. v2' <=> v2 BY <1>e DEF v2
<1>r. RecDags(w)' = RecDags(w) BY <1>e DEF RecDags
<1>1. TwoBundles'
  BY <1>s, <1>d, <1>i DEF TwoBundles
<1>2. OwnRecords(w)'
  BY <1>g, <1>d, <1>e, <1>v, <1>i, <1>t, AtHome, DagAssumption DEF WorkerInv, OwnRecords, Registering, Uncommitted, RecDags, DagsIn, BundleFits
<1>3. OwnLock(w)'
  BY <1>g, <1>d, <1>e, <1>v, <1>i, <1>t, AtHome, DagAssumption DEF WorkerInv, OwnLock, Registering, Uncommitted, Released, Committed, Discarded, StagedAfter, CanWrite, CanClean, Fresh, Retries, SharedRow, HasDag, InBody, Sessions, BundleFits
<1>4. OwnModels(w)'
  BY <1>g, <1>s, <1>e, <1>d, <1>v, <1>i, <1>r, <1>o, <1>t, AtHome DEF WorkerInv, OwnModels, BundleFits, xdist
<1>5. OwnHealth(w)'
  <2>. SUFFICES ASSUME w \notin FaultyWorkers PROVE OwnHealth(w)' BY DEF OwnHealth
  <2>1. \A d \in DagsOf[w] :
          /\ db'.models[d] \in {NoModel, d}
          /\ db'.models[d] # NoModel => d \in RecDags(w)' \/ (at'[w] = "committed" /\ cur'[w].dag = d)
    BY <1>g, <1>s, <1>d, <1>i, <1>r, <1>t, AtHome DEF WorkerInv, OwnHealth
  <2>2. \A i \in DOMAIN recs[w] : [dag |-> recs[w][i].dag, bundle |-> recs[w][i].bundle] \in db'.versions
    <3>1. cur[w].dag \notin RecDags(w) BY <1>g, <1>i DEF WorkerInv, OwnHealth, Registering
    <3>2. \A i \in DOMAIN recs[w] : recs[w][i].dag # cur[w].dag BY <3>1 DEF RecDags, DagsIn
    <3>. QED BY <3>2, <1>d, <1>i DEF WorkerInv, OwnHealth
  <2>. QED BY <1>g, <1>e, <1>i, <1>r, <2>1, <2>2 DEF WorkerInv, OwnHealth, Registering, Uncommitted
<1>6. OwnLive(w)'
  <2>1. at'[w] \in Uncommitted => db'.models[cur'[w].dag] = NoModel
    BY <1>g, <1>e DEF Registering, Uncommitted
  <2>2. at'[w] = "committed" =>
       /\ db'.models[cur'[w].dag] = cur'[w].bundle
       /\ [dag |-> cur'[w].dag, bundle |-> cur'[w].bundle] \in db'.versions
    BY <1>g, <1>e DEF Registering, Uncommitted
  <2>3. (at'[w] \in {"committed", "discarding"} /\ cur'[w].dag \in RecDags(w)') =>
       /\ db'.models[cur'[w].dag] \in {NoModel, cur'[w].bundle}
       /\ \A v \in db'.versions : v.dag = cur'[w].dag => v.bundle = cur'[w].bundle
    BY <1>g, <1>e DEF Registering, Uncommitted
  <2>4. at'[w] # "teardown" => \A d \in RecDags(w)' :
       db'.models[d] = NoModel => \A v \in db'.versions : v.dag # d

    <3>. SUFFICES ASSUME NEW d \in RecDags(w), db'.models[d] = NoModel, NEW v \in db'.versions PROVE v.dag # d
      BY <1>r
    <3>1. d \in Dags /\ v \in db.versions BY <1>o, <1>d
    <3>2. db.models[d] = NoModel => v.dag # d BY <3>1, <1>g, <1>i DEF WorkerInv, OwnLive
    <3>3. CASE d = cur[w].dag /\ v.dag = d
      <4>1. v.bundle = cur[w].bundle BY <3>1, <3>3, <1>g, <1>i DEF WorkerInv, OwnLive
      <4>2. v = [dag |-> cur[w].dag, bundle |-> cur[w].bundle] BY <3>1, <3>3, <4>1, <1>o DEF Registrations
      <4>. QED BY <3>2, <3>3, <4>2, <1>d
    <3>. QED BY <3>1, <3>2, <3>3, <1>d
  <2>5. at'[w] # "teardown" => \A x \in live'[w] : x # SharedBundle =>
       \/ x \in db'.runs /\ (v2' \/ db'.models[x.dag] # NoModel)
       \/ x \in db'.versions /\ db'.models[x.dag] # NoModel

    <3>. SUFFICES ASSUME NEW x \in live[w], x # SharedBundle
                  PROVE  \/ x \in db'.runs /\ (v2 \/ db'.models[x.dag] # NoModel)
                         \/ x \in db'.versions /\ db'.models[x.dag] # NoModel
      BY <1>e, <1>v
    <3>1. x.dag \in Dags BY <1>o
    <3>2. \/ x \in db.runs /\ (v2 \/ db.models[x.dag] # NoModel)
          \/ x \in db.versions /\ db.models[x.dag] # NoModel
      BY <1>g, <1>i DEF WorkerInv, OwnLive
    <3>3. CASE x.dag = cur[w].dag
      <4>1. v2 /\ x \in db.runs BY <3>3, <1>g, <1>i DEF WorkerInv, OwnLive, Registering
      <4>. QED BY <4>1, <1>s, <1>d
    <3>4. CASE x.dag # cur[w].dag BY <3>1, <3>2, <3>4, <1>d
    <3>. QED BY <3>3, <3>4
  <2>6. at'[w] \in Registering => \A x \in live'[w] : (x # SharedBundle /\ x.dag = cur'[w].dag) =>
       v2' /\ x \in db'.runs
    BY <1>g, <1>e DEF Registering, Uncommitted
  <2>. QED BY <2>1, <2>2, <2>3, <2>4, <2>5, <2>6 DEF OwnLive, SharedBundle
<1>7. OwnRows(w)'
  <2>1. at'[w] = "discarding" => problems'[w] # {}
    BY <1>g, <1>e, <1>d, <1>v, <1>i DEF WorkerInv, OwnRows
  <2>2. (at'[w] = "written" /\ ~v2' /\ cur'[w].bundle \in Dags \ db'.shared) => cur'[w].created
    BY <1>g, <1>e, <1>d, <1>v, <1>i DEF WorkerInv, OwnRows
  <2>3. v2' => \A d \in DagsOf[w] : d \notin db'.shared
    BY <1>g, <1>e, <1>d, <1>v, <1>i DEF WorkerInv, OwnRows
  <2>4. ASSUME problems'[w] = {}, NEW d \in DagsOf[w]
        PROVE  /\ db'.models[d] = d => \E r \in Records : Holds(w, r)' /\ r.dag = d /\ r.bundle = d
               /\ \A v \in db'.versions : v.dag = d =>
                    \E r \in Records : Holds(w, r)' /\ r.dag = d /\ r.bundle = v.bundle
               /\ d \in db'.shared => \E r \in Records : Holds(w, r)' /\ r.bundle = d /\ r.created
               /\ \A x \in db'.runs : x.dag = d =>
                    \/ v2' /\ x.by = "airflow"
                    \/ \E r \in Records : Holds(w, r)' /\ r.dag = d /\ (v2' => x.id \in r.runs)
    BY <2>4, <1>g, <1>e, <1>i DEF WorkerInv, OwnRows
  <2>. QED BY <2>1, <2>2, <2>3, <2>4 DEF OwnRows
<1>. QED BY <1>1, <1>2, <1>3, <1>4, <1>5, <1>6, <1>7 DEF WorkerInv

\* Only tests with faults are interrupted; what was committed is reported.
LEMMA InterruptedKeeps ==
  ASSUME DagTypeOK, DagTypeOK', DagInv, NEW w \in running, Interrupted(w)
  PROVE  TwoBundles' /\ WorkerInv(w)'
<1>t. w \in Workers BY RunningWorkers
<1>i. WorkerInv(w) /\ TwoBundles BY DEF DagInv
<1>g. w \in FaultyWorkers /\ at[w] \in {"read", "written", "committed"} /\ cur[w].session = "owned"
  BY DEF Interrupted, Move, InBody, Wants, CanWrite
<1>e. /\ at'[w] = "body"
      /\ cur'[w] = NoRecord
      /\ (saw'[w] <=> saw[w])
      /\ recs'[w] = recs[w]
      /\ persisted'[w] = persisted[w]
      /\ authoring'[w] = authoring[w]
      /\ staged'[w] = staged[w]
      /\ problems'[w] = problems[w] \cup {"failed"}
      /\ live'[w] = live[w]
      /\ db' = db
      /\ writer' = Released(w, "owned")
      /\ running' = running /\ family' = family
  BY <1>t, AtHome DEF DagTypeOK, Interrupted, Move, Report, Forget, local
<1>v. v2' <=> v2 BY <1>e DEF v2
<1>r. RecDags(w)' = RecDags(w) BY <1>e DEF RecDags
<1>1. TwoBundles' BY <1>g, <1>e, <1>i, AtHome DEF TwoBundles, Databases, BundleFits, Records
<1>2. OwnRecords(w)'
  BY <1>g, <1>e, <1>v, <1>i, <1>t, AtHome, DagAssumption DEF WorkerInv, OwnRecords, Registering, Uncommitted, RecDags, DagsIn, BundleFits
<1>3. OwnLock(w)'
  BY <1>g, <1>e, <1>v, <1>i, <1>t, AtHome, DagAssumption DEF WorkerInv, OwnLock, Registering, Uncommitted, Released, Committed, Discarded, StagedAfter, CanWrite, CanClean, Fresh, Retries, SharedRow, HasDag, InBody, Sessions, BundleFits
<1>4. OwnModels(w)'
  BY <1>g, <1>e, <1>v, <1>i, <1>t, AtHome, DagAssumption DEF WorkerInv, OwnModels, Registering, Uncommitted, RecDags, DagsIn, OwnRecords, BundleFits, Databases, xdist
<1>5. OwnHealth(w)'
  BY <1>g, <1>e, <1>v, <1>i, <1>t, AtHome, DagAssumption DEF WorkerInv, OwnHealth, Registering, Uncommitted, RecDags, DagsIn, Fresh, SharedRow, OwnRecords, OwnLock, OwnModels, BundleFits, Discarded, Committed, Sessions, Wants, CanWrite, HasDag, InBody, StagedAfter, CanClean
<1>6. OwnLive(w)'
  <2>1. at'[w] \in Uncommitted => db'.models[cur'[w].dag] = NoModel
    BY <1>g, <1>e, <1>v, <1>i, <1>r DEF WorkerInv, OwnLive, Registering, Uncommitted
  <2>2. at'[w] = "committed" =>
       /\ db'.models[cur'[w].dag] = cur'[w].bundle
       /\ [dag |-> cur'[w].dag, bundle |-> cur'[w].bundle] \in db'.versions
    BY <1>g, <1>e, <1>v, <1>i, <1>r DEF WorkerInv, OwnLive, Registering, Uncommitted
  <2>3. (at'[w] \in {"committed", "discarding"} /\ cur'[w].dag \in RecDags(w)') =>
       /\ db'.models[cur'[w].dag] \in {NoModel, cur'[w].bundle}
       /\ \A v \in db'.versions : v.dag = cur'[w].dag => v.bundle = cur'[w].bundle
    BY <1>g, <1>e, <1>v, <1>i, <1>r DEF WorkerInv, OwnLive, Registering, Uncommitted
  <2>4. at'[w] # "teardown" => \A d \in RecDags(w)' :
       db'.models[d] = NoModel => \A v \in db'.versions : v.dag # d
    BY <1>g, <1>e, <1>v, <1>i, <1>r DEF WorkerInv, OwnLive, Registering, Uncommitted
  <2>5. at'[w] # "teardown" => \A x \in live'[w] : x # SharedBundle =>
       \/ x \in db'.runs /\ (v2' \/ db'.models[x.dag] # NoModel)
       \/ x \in db'.versions /\ db'.models[x.dag] # NoModel
    BY <1>g, <1>e, <1>v, <1>i, <1>r DEF WorkerInv, OwnLive, Registering, Uncommitted
  <2>6. at'[w] \in Registering => \A x \in live'[w] : (x # SharedBundle /\ x.dag = cur'[w].dag) =>
       v2' /\ x \in db'.runs
    BY <1>g, <1>e, <1>v, <1>i, <1>r DEF WorkerInv, OwnLive, Registering, Uncommitted
  <2>. QED BY <2>1, <2>2, <2>3, <2>4, <2>5, <2>6 DEF OwnLive, SharedBundle
<1>7. OwnRows(w)'
  BY <1>g, <1>e, <1>v, <1>i, <1>t, AtHome, DagAssumption DEF WorkerInv, OwnRows, Registering, Uncommitted, Holds, OwnRecords, OwnLock, OwnLive, BundleFits, Databases
<1>. QED BY <1>1, <1>2, <1>3, <1>4, <1>5, <1>6, <1>7 DEF WorkerInv

\* The run is recorded with its Dag.
LEMMA CreateRunKeeps ==
  ASSUME DagTypeOK, DagTypeOK', DagInv, NEW w \in running, CreateRun(w)
  PROVE  TwoBundles' /\ WorkerInv(w)'
<1>t. w \in Workers BY RunningWorkers
<1>i. WorkerInv(w) /\ TwoBundles BY DEF DagInv
<1>o. /\ RecDags(w) \subseteq DagsOf[w] /\ RecDags(w) \subseteq Dags
      /\ \A x \in live[w] : x # SharedBundle => x.dag \in RecDags(w)
      /\ \A v \in db.versions : v \in Registrations /\ v.dag \in Dags /\ v.bundle \in Bundles
      /\ \A x \in db.runs : x \in Runs /\ x.dag \in Dags
  BY <1>i, OwnDags
<1>g. HasDag(w) /\ CanWrite(w, Current(w).session)
  BY DEF CreateRun, Move, InBody, Wants, CanWrite
<1>e. /\ at'[w] = at[w]
      /\ cur'[w] = cur[w]
      /\ (saw'[w] <=> saw[w])
      /\ persisted'[w] = persisted[w]
      /\ authoring'[w] = authoring[w]
      /\ staged'[w] = Committed(w, Current(w).session)
      /\ problems'[w] = problems[w]
      /\ writer' = Released(w, Current(w).session)
      /\ running' = running /\ family' = family
  BY <1>t, AtHome DEF DagTypeOK, CreateRun, Move, Report, Forget, local
<1>c. Current(w) \in Records /\ Current(w).dag \in DagsOf[w] /\ Current(w).dag \in RecDags(w) /\ Current(w).dag \in Dags
  BY <1>g, <1>t, CurrentRecord, <1>o DEF HasDag
<1>s. /\ at[w] = "body" /\ Current(w).session \in Sessions(w) /\ Current(w).session \in {"owned", "borrowed"}
      /\ Len(recs[w]) \in DOMAIN recs[w] /\ Current(w) = recs[w][Len(recs[w])]
  BY <1>g, <1>i, <1>t, CurrentRecord DEF HasDag, InBody, WorkerInv, OwnRecords, BundleFits, Records
<1>d. PICK id \in RunIds, made \in Runs, new \in Records :
        /\ made.dag = Current(w).dag /\ made.id = id
        /\ new.dag = Current(w).dag /\ new.bundle = Current(w).bundle /\ new.session = Current(w).session
        /\ new.created = Current(w).created /\ new.runs = Current(w).runs \cup {id}
        /\ LastIs(w, new)
        /\ db'.models = db.models /\ db'.versions = db.versions /\ db'.shared = db.shared
        /\ db'.runs = db.runs \cup {made}
        /\ live'[w] = live[w] \cup {made}
  <2>1. PICK id \in RunIds, made \in Runs :
           /\ made = [id |-> id, dag |-> Current(w).dag, by |-> "fixture"]
           /\ db' = [db EXCEPT !.runs = @ \cup {made}]
           /\ live' = [live EXCEPT ![w] = @ \cup {made}]
           /\ LastIs(w, [Current(w) EXCEPT !.runs = @ \cup {id}])
    BY <1>t, CreateRunRecords
  <2>2. /\ db'.models = db.models /\ db'.versions = db.versions /\ db'.shared = db.shared
        /\ db'.runs = db.runs \cup {made} /\ live'[w] = live[w] \cup {made}
    BY <2>1, <1>t, AtHome DEF DagTypeOK, Databases
  <2>3. PICK new : new = [Current(w) EXCEPT !.runs = @ \cup {id}] OBVIOUS
  <2>4. /\ new \in Records /\ new.dag = Current(w).dag /\ new.bundle = Current(w).bundle
        /\ new.session = Current(w).session /\ new.created = Current(w).created /\ new.runs = Current(w).runs \cup {id}
    BY <2>3, <1>c, RecordWithRun
  <2>. QED BY <2>1, <2>2, <2>3, <2>4
<1>v. v2' <=> v2 BY <1>e DEF v2
<1>x. /\ DOMAIN recs'[w] = DOMAIN recs[w] /\ Len(recs[w]) \in DOMAIN recs[w]
      /\ \A i \in DOMAIN recs[w] : recs'[w][i] = IF i = Len(recs[w]) THEN new ELSE recs[w][i]
      /\ DagsIn(recs'[w]) = DagsIn(recs[w])
  <2>1. recs[w] # <<>> /\ recs[w] \in Seq(Records) BY <1>g, <1>t, AtHome DEF HasDag
  <2>2. recs'[w] = [recs[w] EXCEPT ![Len(recs[w])] = new] BY <1>d, <1>t DEF LastIs, DagTypeOK
  <2>3. new.dag = recs[w][Len(recs[w])].dag BY <1>d, <1>s
  <2>4. DagsIn(recs'[w]) = DagsIn(recs[w])
    <3>1. DagsIn([recs[w] EXCEPT ![Len(recs[w])] = new]) = DagsIn(recs[w]) BY <2>1, <2>3, DagsReplaced
    <3>. QED BY <3>1, <2>2
  <2>5. /\ DOMAIN recs'[w] = DOMAIN recs[w]
        /\ \A i \in DOMAIN recs[w] : recs'[w][i] = IF i = Len(recs[w]) THEN new ELSE recs[w][i]
    BY <2>1, <2>2, <1>d, LastFacts
  <2>. QED BY <2>4, <2>5, <1>s
<1>r. RecDags(w)' = RecDags(w) BY <1>x DEF RecDags
<1>h. \A q \in Records : Holds(w, q) =>
        \E p \in Records : /\ Holds(w, p)' /\ p.dag = q.dag /\ p.bundle = q.bundle
                           /\ (q.created => p.created) /\ q.runs \subseteq p.runs
  <2>. SUFFICES ASSUME NEW q \in Records, Holds(w, q)
                PROVE  \E p \in Records : /\ Holds(w, p)' /\ p.dag = q.dag /\ p.bundle = q.bundle
                                          /\ (q.created => p.created) /\ q.runs \subseteq p.runs
    OBVIOUS
  <2>1. PICK i \in DOMAIN recs[w] : recs[w][i] = q BY <1>s DEF Holds
  <2>2. CASE i = Len(recs[w])
    <3>1. recs'[w][i] = new /\ q = Current(w) /\ i \in DOMAIN recs'[w] BY <2>1, <2>2, <1>x, <1>s
    <3>2. \A p : p = new => Holds(w, p)' BY <3>1 DEF Holds
    <3>. QED BY <3>1, <3>2, <1>d
  <2>3. CASE i # Len(recs[w])
    <3>1. recs'[w][i] = q /\ i \in DOMAIN recs'[w] BY <2>1, <2>3, <1>x
    <3>2. \A p : p = q => Holds(w, p)' BY <3>1 DEF Holds
    <3>. QED BY <3>2
  <2>. QED BY <2>2, <2>3
<1>y. \A q : Holds(w, q) <=> \E i \in DOMAIN recs[w] : recs[w][i] = q BY <1>s DEF Holds
<1>z. v2 \/ db.models[Current(w).dag] # NoModel
  <2>1. v2 \/ \E v \in db.versions : v.dag = Current(w).dag BY DEF CreateRun
  <2>. QED BY <2>1, <1>s, <1>c, <1>i DEF WorkerInv, OwnLive
<1>1. TwoBundles'
  BY <1>d, <1>i DEF TwoBundles
<1>2. OwnRecords(w)'
  <2>1. \A i \in DOMAIN recs'[w] : BundleFits(w, recs[w][i])'
    BY <1>x, <1>s, <1>d, <1>v, <1>i DEF WorkerInv, OwnRecords, BundleFits
  <2>2. authoring'[w] \subseteq RecDags(w)' BY <1>c, <1>e, <1>r, <1>i DEF WorkerInv, OwnRecords
  <2>3. \A y \in live'[w] : y = SharedBundle \/ y.dag \in RecDags(w)'
    BY <1>c, <1>d, <1>e, <1>r, <1>i DEF WorkerInv, OwnRecords
  <2>. QED BY <1>e, <1>s, <2>1, <2>2, <2>3 DEF OwnRecords, SharedBundle, Registering, Uncommitted
<1>3. OwnLock(w)'
  BY <1>g, <1>s, <1>e, <1>i, <1>t, AtHome DEF WorkerInv, OwnLock, CanWrite, Released, Committed
<1>4. OwnModels(w)'
  BY <1>s, <1>e, <1>d, <1>v, <1>i, <1>r, <1>c DEF WorkerInv, OwnModels, xdist
<1>5. OwnHealth(w)'
  <2>. SUFFICES ASSUME w \notin FaultyWorkers PROVE OwnHealth(w)' BY DEF OwnHealth
  <2>1. \A i, j \in DOMAIN recs'[w] : recs'[w][i].dag = recs'[w][j].dag => i = j
    <3>1. \A i \in DOMAIN recs[w] : recs'[w][i].dag = recs[w][i].dag BY <1>x, <1>s, <1>d
    <3>2. \A i, j \in DOMAIN recs[w] : recs[w][i].dag = recs[w][j].dag => i = j BY <1>i DEF WorkerInv, OwnHealth
    <3>. QED BY <1>x, <3>1, <3>2
  <2>2. \A i \in DOMAIN recs'[w] : [dag |-> recs'[w][i].dag, bundle |-> recs'[w][i].bundle] \in db'.versions
    <3>1. \A i \in DOMAIN recs[w] : recs'[w][i].dag = recs[w][i].dag /\ recs'[w][i].bundle = recs[w][i].bundle
      BY <1>x, <1>s, <1>d
    <3>2. \A i \in DOMAIN recs[w] : [dag |-> recs[w][i].dag, bundle |-> recs[w][i].bundle] \in db.versions
      BY <1>i DEF WorkerInv, OwnHealth
    <3>. QED BY <1>x, <1>d, <3>1, <3>2
  <2>. QED BY <1>g, <1>s, <1>e, <1>d, <1>i, <1>r, <2>1, <2>2, <1>t, AtHome
       DEF WorkerInv, OwnHealth, Committed, Registering, Uncommitted
<1>6. OwnLive(w)'
  <2>1. at'[w] \in Uncommitted => db'.models[cur'[w].dag] = NoModel
    BY <1>s, <1>e, <1>d, <1>v, <1>i, <1>r, <1>c, <1>z DEF WorkerInv, OwnLive, Registering, Uncommitted
  <2>2. at'[w] = "committed" =>
       /\ db'.models[cur'[w].dag] = cur'[w].bundle
       /\ [dag |-> cur'[w].dag, bundle |-> cur'[w].bundle] \in db'.versions
    BY <1>s, <1>e, <1>d, <1>v, <1>i, <1>r, <1>c, <1>z DEF WorkerInv, OwnLive, Registering, Uncommitted
  <2>3. (at'[w] \in {"committed", "discarding"} /\ cur'[w].dag \in RecDags(w)') =>
       /\ db'.models[cur'[w].dag] \in {NoModel, cur'[w].bundle}
       /\ \A v \in db'.versions : v.dag = cur'[w].dag => v.bundle = cur'[w].bundle
    BY <1>s, <1>e, <1>d, <1>v, <1>i, <1>r, <1>c, <1>z DEF WorkerInv, OwnLive, Registering, Uncommitted
  <2>4. at'[w] # "teardown" => \A d \in RecDags(w)' :
       db'.models[d] = NoModel => \A v \in db'.versions : v.dag # d
    BY <1>s, <1>e, <1>d, <1>v, <1>i, <1>r, <1>c, <1>z DEF WorkerInv, OwnLive, Registering, Uncommitted
  <2>5. at'[w] # "teardown" => \A x \in live'[w] : x # SharedBundle =>
       \/ x \in db'.runs /\ (v2' \/ db'.models[x.dag] # NoModel)
       \/ x \in db'.versions /\ db'.models[x.dag] # NoModel
    BY <1>s, <1>e, <1>d, <1>v, <1>i, <1>r, <1>c, <1>z DEF WorkerInv, OwnLive, Registering, Uncommitted
  <2>6. at'[w] \in Registering => \A x \in live'[w] : (x # SharedBundle /\ x.dag = cur'[w].dag) =>
       v2' /\ x \in db'.runs
    BY <1>s, <1>e, <1>d, <1>v, <1>i, <1>r, <1>c, <1>z DEF WorkerInv, OwnLive, Registering, Uncommitted
  <2>. QED BY <2>1, <2>2, <2>3, <2>4, <2>5, <2>6 DEF OwnLive, SharedBundle
<1>7. OwnRows(w)'
  <2>1. at'[w] = "discarding" => problems'[w] # {}
    BY <1>s, <1>e, <1>d, <1>v, <1>i DEF WorkerInv, OwnRows
  <2>2. (at'[w] = "written" /\ ~v2' /\ cur'[w].bundle \in Dags \ db'.shared) => cur'[w].created
    BY <1>s, <1>e, <1>d, <1>v, <1>i DEF WorkerInv, OwnRows
  <2>3. v2' => \A d \in DagsOf[w] : d \notin db'.shared
    BY <1>s, <1>e, <1>d, <1>v, <1>i DEF WorkerInv, OwnRows
  <2>4. ASSUME problems'[w] = {}, NEW d \in DagsOf[w]
        PROVE  /\ db'.models[d] = d => \E r \in Records : Holds(w, r)' /\ r.dag = d /\ r.bundle = d
               /\ \A v \in db'.versions : v.dag = d =>
                    \E r \in Records : Holds(w, r)' /\ r.dag = d /\ r.bundle = v.bundle
               /\ d \in db'.shared => \E r \in Records : Holds(w, r)' /\ r.bundle = d /\ r.created
               /\ \A x \in db'.runs : x.dag = d =>
                    \/ v2' /\ x.by = "airflow"
                    \/ \E r \in Records : Holds(w, r)' /\ r.dag = d /\ (v2' => x.id \in r.runs)
    <3>0. d \in Dags /\ problems[w] = {} BY <2>4, <1>e, AtHome
    <3>1. /\ db.models[d] = d => \E r \in Records : Holds(w, r) /\ r.dag = d /\ r.bundle = d
          /\ \A v \in db.versions : v.dag = d =>
               \E r \in Records : Holds(w, r) /\ r.dag = d /\ r.bundle = v.bundle
          /\ d \in db.shared => \E r \in Records : Holds(w, r) /\ r.bundle = d /\ r.created
          /\ \A x \in db.runs : x.dag = d =>
               \/ v2 /\ x.by = "airflow"
               \/ \E r \in Records : Holds(w, r) /\ r.dag = d /\ (v2 => x.id \in r.runs)
      BY <3>0, <1>i DEF WorkerInv, OwnRows
    <3>2. db'.models[d] = d => \E r \in Records : Holds(w, r)' /\ r.dag = d /\ r.bundle = d
      BY <3>0, <3>1, <1>d, <1>v, <1>h
    <3>3. \A v \in db'.versions : v.dag = d =>
            \E r \in Records : Holds(w, r)' /\ r.dag = d /\ r.bundle = v.bundle
      BY <3>0, <3>1, <1>d, <1>v, <1>h
    <3>4. d \in db'.shared => \E r \in Records : Holds(w, r)' /\ r.bundle = d /\ r.created
      BY <3>0, <3>1, <1>d, <1>v, <1>h
    <3>5. \A x \in db'.runs : x.dag = d =>
            \/ v2' /\ x.by = "airflow"
            \/ \E r \in Records : Holds(w, r)' /\ r.dag = d /\ (v2' => x.id \in r.runs)
      <4>. SUFFICES ASSUME NEW y \in db'.runs, y.dag = d
                    PROVE  \/ v2 /\ y.by = "airflow"
                           \/ \E r \in Records : Holds(w, r)' /\ r.dag = d /\ (v2 => y.id \in r.runs)
        BY <1>v
      <4>1. CASE y \in db.runs BY <4>1, <3>1, <1>h
      <4>2. CASE y = made
        <5>1. \A p : p = new => Holds(w, p)' BY <1>x DEF Holds
        <5>. QED BY <4>2, <5>1, <1>d
      <4>. QED BY <4>1, <4>2, <1>d
    <3>. QED BY <3>2, <3>3, <3>4, <3>5
  <2>. QED BY <2>1, <2>2, <2>3, <2>4 DEF OwnRows
<1>. QED BY <1>1, <1>2, <1>3, <1>4, <1>5, <1>6, <1>7 DEF WorkerInv

\* A test without faults finds its version and shares its session.
LEMMA CreateRunRaisesKeeps ==
  ASSUME DagTypeOK, DagTypeOK', DagInv, NEW w \in running, CreateRunRaises(w)
  PROVE  TwoBundles' /\ WorkerInv(w)'
<1>t. w \in Workers BY RunningWorkers
<1>i. WorkerInv(w) /\ TwoBundles BY DEF DagInv
<1>g. /\ HasDag(w)
        /\ \/ w \in FaultyWorkers
           \/ ~CanWrite(w, Current(w).session) /\ writer = w
           \/ ~v2 /\ \A v \in db.versions : v.dag # Current(w).dag
  BY DEF CreateRunRaises, Move, InBody, Wants, CanWrite
<1>e. /\ at'[w] = at[w]
      /\ cur'[w] = cur[w]
      /\ (saw'[w] <=> saw[w])
      /\ recs'[w] = recs[w]
      /\ persisted'[w] = persisted[w]
      /\ authoring'[w] = authoring[w]
      /\ staged'[w] = Discarded(w, Current(w).session)
      /\ problems'[w] = problems[w] \cup {"failed"}
      /\ live'[w] = live[w]
      /\ db' = db
      /\ writer' = Released(w, Current(w).session)
      /\ running' = running /\ family' = family
  BY <1>t, AtHome DEF DagTypeOK, CreateRunRaises, Move, Report, Forget, local
<1>v. v2' <=> v2 BY <1>e DEF v2
<1>s. /\ at[w] = "body" /\ Current(w).session \in Sessions(w) /\ Current(w).session \in {"owned", "borrowed"}
      /\ Len(recs[w]) \in DOMAIN recs[w] /\ Current(w) = recs[w][Len(recs[w])]
  BY <1>g, <1>i, <1>t, CurrentRecord DEF HasDag, InBody, WorkerInv, OwnRecords, BundleFits, Records
<1>r. RecDags(w)' = RecDags(w) BY <1>e DEF RecDags
<1>m. w \in FaultyWorkers
  <2>. SUFFICES ASSUME w \notin FaultyWorkers PROVE FALSE OBVIOUS
  <2>1. ~(writer = w /\ Current(w).session = "owned") BY <1>s, <1>i DEF WorkerInv, OwnLock, Sessions
  <2>2. [dag |-> Current(w).dag, bundle |-> Current(w).bundle] \in db.versions BY <1>s, <1>i DEF WorkerInv, OwnHealth
  <2>. QED BY <2>1, <2>2, <1>g, <1>s DEF CanWrite
<1>1. TwoBundles' BY <1>g, <1>e, <1>i, AtHome DEF TwoBundles, Databases, BundleFits, Records
<1>2. OwnRecords(w)'
  BY <1>g, <1>e, <1>v, <1>i, <1>t, AtHome, DagAssumption DEF WorkerInv, OwnRecords, Registering, Uncommitted, RecDags, DagsIn, BundleFits
<1>3. OwnLock(w)'
  BY <1>g, <1>e, <1>v, <1>i, <1>t, AtHome, DagAssumption DEF WorkerInv, OwnLock, Registering, Uncommitted, Released, Committed, Discarded, StagedAfter, CanWrite, CanClean, Fresh, Retries, SharedRow, HasDag, InBody, Sessions, BundleFits
<1>4. OwnModels(w)'
  BY <1>g, <1>e, <1>v, <1>i, <1>t, AtHome, DagAssumption DEF WorkerInv, OwnModels, Registering, Uncommitted, RecDags, DagsIn, OwnRecords, BundleFits, Databases, xdist
<1>5. OwnHealth(w)'
  BY <1>m DEF OwnHealth
<1>6. OwnLive(w)'
  BY <1>g, <1>e, <1>v, <1>i, <1>t, AtHome, DagAssumption DEF WorkerInv, OwnLive, Registering, Uncommitted, RecDags, DagsIn, OwnRecords, BundleFits, Databases, Records, SharedBundle
<1>7. OwnRows(w)'
  BY <1>g, <1>e, <1>v, <1>i, <1>t, AtHome, DagAssumption DEF WorkerInv, OwnRows, Registering, Uncommitted, Holds, OwnRecords, OwnLock, OwnLive, BundleFits, Databases
<1>. QED BY <1>1, <1>2, <1>3, <1>4, <1>5, <1>6, <1>7 DEF WorkerInv

\* A run no record knows is still of a recorded Dag, which is what 3.x deletes by.
LEMMA AirflowRunKeeps ==
  ASSUME DagTypeOK, DagTypeOK', DagInv, NEW w \in running, AirflowRun(w)
  PROVE  TwoBundles' /\ WorkerInv(w)'
<1>t. w \in Workers BY RunningWorkers
<1>i. WorkerInv(w) /\ TwoBundles BY DEF DagInv
<1>o. /\ RecDags(w) \subseteq DagsOf[w] /\ RecDags(w) \subseteq Dags
      /\ \A x \in live[w] : x # SharedBundle => x.dag \in RecDags(w)
      /\ \A v \in db.versions : v \in Registrations /\ v.dag \in Dags /\ v.bundle \in Bundles
      /\ \A x \in db.runs : x \in Runs /\ x.dag \in Dags
  BY <1>i, OwnDags
<1>g. HasDag(w) /\ writer = Nobody /\ db.models[Current(w).dag] # NoModel
  BY DEF AirflowRun, Move, InBody, Wants, CanWrite
<1>e. /\ at'[w] = at[w]
      /\ cur'[w] = cur[w]
      /\ (saw'[w] <=> saw[w])
      /\ recs'[w] = recs[w]
      /\ persisted'[w] = persisted[w]
      /\ authoring'[w] = authoring[w]
      /\ staged'[w] = staged[w]
      /\ problems'[w] = problems[w]
      /\ writer' = writer
      /\ running' = running /\ family' = family
  BY <1>t, AtHome DEF DagTypeOK, AirflowRun, Move, Report, Forget, local
<1>c. Current(w) \in Records /\ Current(w).dag \in DagsOf[w] /\ Current(w).dag \in RecDags(w) /\ Current(w).dag \in Dags
  BY <1>g, <1>t, CurrentRecord, <1>o DEF HasDag
<1>d. PICK made \in Runs :
        /\ made.dag = Current(w).dag /\ made.by = "airflow"
        /\ db'.models = db.models /\ db'.versions = db.versions /\ db'.shared = db.shared
        /\ db'.runs = db.runs \cup {made}
        /\ live'[w] = live[w] \cup {made}
  <2>1. PICK id \in RunIds, made \in Runs :
          /\ made = [id |-> id, dag |-> Current(w).dag, by |-> "airflow"]
          /\ db' = [db EXCEPT !.runs = @ \cup {made}] /\ live' = [live EXCEPT ![w] = @ \cup {made}]
    <3>1. PICK id \in RunIds : LET y == [id |-> id, dag |-> Current(w).dag, by |-> "airflow"] IN
            db' = [db EXCEPT !.runs = @ \cup {y}] /\ live' = [live EXCEPT ![w] = @ \cup {y}]
      BY DEF AirflowRun
    <3>2. [id |-> id, dag |-> Current(w).dag, by |-> "airflow"] \in Runs BY <1>c DEF Runs
    <3>. QED BY <3>1, <3>2
  <2>2. /\ db'.models = db.models /\ db'.versions = db.versions /\ db'.shared = db.shared
        /\ db'.runs = db.runs \cup {made}
    BY <2>1, AtHome DEF Databases
  <2>3. live'[w] = live[w] \cup {made} BY <2>1, <1>t DEF DagTypeOK
  <2>4. made.dag = Current(w).dag /\ made.by = "airflow" BY <2>1
  <2>. QED BY <2>2, <2>3, <2>4
<1>v. v2' <=> v2 BY <1>e DEF v2
<1>s. /\ at[w] = "body" /\ Current(w).session \in Sessions(w) /\ Current(w).session \in {"owned", "borrowed"}
      /\ Len(recs[w]) \in DOMAIN recs[w] /\ Current(w) = recs[w][Len(recs[w])]
  BY <1>g, <1>i, <1>t, CurrentRecord DEF HasDag, InBody, WorkerInv, OwnRecords, BundleFits, Records
<1>r. RecDags(w)' = RecDags(w) BY <1>e DEF RecDags
<1>h. \A q : Holds(w, q)' <=> Holds(w, q) BY <1>g, <1>e DEF Holds
<1>1. TwoBundles'
  BY <1>d, <1>i DEF TwoBundles
<1>2. OwnRecords(w)'
  BY <1>s, <1>e, <1>d, <1>g, <1>v, <1>i, <1>r, <1>c DEF WorkerInv, OwnRecords, BundleFits, Registering, Uncommitted, SharedBundle
<1>3. OwnLock(w)'
  BY <1>s, <1>e, <1>d, <1>g, <1>v, <1>i, <1>r, <1>c DEF WorkerInv, OwnLock
<1>4. OwnModels(w)'
  BY <1>s, <1>e, <1>d, <1>g, <1>v, <1>i, <1>r, <1>c DEF WorkerInv, OwnModels, xdist
<1>5. OwnHealth(w)'
  BY <1>s, <1>e, <1>d, <1>g, <1>v, <1>i, <1>r, <1>c DEF WorkerInv, OwnHealth, Registering, Uncommitted
<1>6. OwnLive(w)'
  <2>1. at'[w] \in Uncommitted => db'.models[cur'[w].dag] = NoModel
    BY <1>s, <1>e, <1>d, <1>g, <1>v, <1>i, <1>r, <1>c DEF WorkerInv, OwnLive, Registering, Uncommitted
  <2>2. at'[w] = "committed" =>
       /\ db'.models[cur'[w].dag] = cur'[w].bundle
       /\ [dag |-> cur'[w].dag, bundle |-> cur'[w].bundle] \in db'.versions
    BY <1>s, <1>e, <1>d, <1>g, <1>v, <1>i, <1>r, <1>c DEF WorkerInv, OwnLive, Registering, Uncommitted
  <2>3. (at'[w] \in {"committed", "discarding"} /\ cur'[w].dag \in RecDags(w)') =>
       /\ db'.models[cur'[w].dag] \in {NoModel, cur'[w].bundle}
       /\ \A v \in db'.versions : v.dag = cur'[w].dag => v.bundle = cur'[w].bundle
    BY <1>s, <1>e, <1>d, <1>g, <1>v, <1>i, <1>r, <1>c DEF WorkerInv, OwnLive, Registering, Uncommitted
  <2>4. at'[w] # "teardown" => \A d \in RecDags(w)' :
       db'.models[d] = NoModel => \A v \in db'.versions : v.dag # d
    BY <1>s, <1>e, <1>d, <1>g, <1>v, <1>i, <1>r, <1>c DEF WorkerInv, OwnLive, Registering, Uncommitted
  <2>5. at'[w] # "teardown" => \A x \in live'[w] : x # SharedBundle =>
       \/ x \in db'.runs /\ (v2' \/ db'.models[x.dag] # NoModel)
       \/ x \in db'.versions /\ db'.models[x.dag] # NoModel
    BY <1>s, <1>e, <1>d, <1>g, <1>v, <1>i, <1>r, <1>c DEF WorkerInv, OwnLive, Registering, Uncommitted
  <2>6. at'[w] \in Registering => \A x \in live'[w] : (x # SharedBundle /\ x.dag = cur'[w].dag) =>
       v2' /\ x \in db'.runs
    BY <1>s, <1>e, <1>d, <1>g, <1>v, <1>i, <1>r, <1>c DEF WorkerInv, OwnLive, Registering, Uncommitted
  <2>. QED BY <2>1, <2>2, <2>3, <2>4, <2>5, <2>6 DEF OwnLive, SharedBundle
<1>7. OwnRows(w)'
  <2>1. at'[w] = "discarding" => problems'[w] # {}
    BY <1>s, <1>e, <1>d, <1>v, <1>i DEF WorkerInv, OwnRows
  <2>2. (at'[w] = "written" /\ ~v2' /\ cur'[w].bundle \in Dags \ db'.shared) => cur'[w].created
    BY <1>s, <1>e, <1>d, <1>v, <1>i DEF WorkerInv, OwnRows
  <2>3. v2' => \A d \in DagsOf[w] : d \notin db'.shared
    BY <1>s, <1>e, <1>d, <1>v, <1>i DEF WorkerInv, OwnRows
  <2>4. ASSUME problems'[w] = {}, NEW d \in DagsOf[w]
        PROVE  /\ db'.models[d] = d => \E r \in Records : Holds(w, r)' /\ r.dag = d /\ r.bundle = d
               /\ \A v \in db'.versions : v.dag = d =>
                    \E r \in Records : Holds(w, r)' /\ r.dag = d /\ r.bundle = v.bundle
               /\ d \in db'.shared => \E r \in Records : Holds(w, r)' /\ r.bundle = d /\ r.created
               /\ \A x \in db'.runs : x.dag = d =>
                    \/ v2' /\ x.by = "airflow"
                    \/ \E r \in Records : Holds(w, r)' /\ r.dag = d /\ (v2' => x.id \in r.runs)
    <3>0. d \in Dags /\ problems[w] = {} BY <2>4, <1>e, AtHome
    <3>1. /\ db.models[d] = d => \E r \in Records : Holds(w, r) /\ r.dag = d /\ r.bundle = d
          /\ \A v \in db.versions : v.dag = d =>
               \E r \in Records : Holds(w, r) /\ r.dag = d /\ r.bundle = v.bundle
          /\ d \in db.shared => \E r \in Records : Holds(w, r) /\ r.bundle = d /\ r.created
          /\ \A x \in db.runs : x.dag = d =>
               \/ v2 /\ x.by = "airflow"
               \/ \E r \in Records : Holds(w, r) /\ r.dag = d /\ (v2 => x.id \in r.runs)
      BY <3>0, <1>i DEF WorkerInv, OwnRows
    <3>2. db'.models[d] = d => \E r \in Records : Holds(w, r)' /\ r.dag = d /\ r.bundle = d
      BY <3>0, <3>1, <1>e, <1>d, <1>v, <1>h
    <3>3. \A v \in db'.versions : v.dag = d =>
            \E r \in Records : Holds(w, r)' /\ r.dag = d /\ r.bundle = v.bundle
      BY <3>0, <3>1, <1>e, <1>d, <1>v, <1>h
    <3>4. d \in db'.shared => \E r \in Records : Holds(w, r)' /\ r.bundle = d /\ r.created
      BY <3>0, <3>1, <1>e, <1>d, <1>v, <1>h
    <3>5. \A x \in db'.runs : x.dag = d =>
            \/ v2' /\ x.by = "airflow"
            \/ \E r \in Records : Holds(w, r)' /\ r.dag = d /\ (v2' => x.id \in r.runs)
      <4>1. Holds(w, Current(w)) BY <1>s DEF Holds
      <4>2. \A q : q = Current(w) => Holds(w, q)' BY <4>1, <1>h
      <4>. QED BY <3>0, <3>1, <4>2, <1>c, <1>d, <1>v, <1>h
    <3>. QED BY <3>2, <3>3, <3>4, <3>5
  <2>. QED BY <2>1, <2>2, <2>3, <2>4 DEF OwnRows
<1>. QED BY <1>1, <1>2, <1>3, <1>4, <1>5, <1>6, <1>7 DEF WorkerInv

\* The record keeps the id, which the next run may get.
LEMMA TestDeletesRunKeeps ==
  ASSUME DagTypeOK, DagTypeOK', DagInv, NEW w \in running, TestDeletesRun(w)
  PROVE  TwoBundles' /\ WorkerInv(w)'
<1>t. w \in Workers BY RunningWorkers
<1>i. WorkerInv(w) /\ TwoBundles BY DEF DagInv
<1>o. /\ RecDags(w) \subseteq DagsOf[w] /\ RecDags(w) \subseteq Dags
      /\ \A x \in live[w] : x # SharedBundle => x.dag \in RecDags(w)
      /\ \A v \in db.versions : v \in Registrations /\ v.dag \in Dags /\ v.bundle \in Bundles
      /\ \A x \in db.runs : x \in Runs /\ x.dag \in Dags
  BY <1>i, OwnDags
<1>g. w \in FaultyWorkers /\ HasDag(w) /\ writer = Nobody
  BY DEF TestDeletesRun, Move, InBody, Wants, CanWrite
<1>e. /\ at'[w] = at[w]
      /\ cur'[w] = cur[w]
      /\ (saw'[w] <=> saw[w])
      /\ recs'[w] = recs[w]
      /\ persisted'[w] = persisted[w]
      /\ authoring'[w] = authoring[w]
      /\ staged'[w] = staged[w]
      /\ problems'[w] = problems[w]
      /\ writer' = writer
      /\ running' = running /\ family' = family
  BY <1>t, AtHome DEF DagTypeOK, TestDeletesRun, Move, Report, Forget, local
<1>d. PICK made \in live[w] \cap db.runs :
        /\ db'.models = db.models /\ db'.versions = db.versions /\ db'.shared = db.shared
        /\ db'.runs = db.runs \ {made}
        /\ live'[w] = live[w] \ {made}
  <2>1. PICK made \in live[w] \cap db.runs :
          db' = [db EXCEPT !.runs = @ \ {made}] /\ live' = [live EXCEPT ![w] = @ \ {made}]
    BY DEF TestDeletesRun
  <2>. QED BY <2>1, <1>t, AtHome DEF DagTypeOK, Databases
<1>v. v2' <=> v2 BY <1>e DEF v2
<1>s. /\ at[w] = "body" /\ Current(w).session \in Sessions(w) /\ Current(w).session \in {"owned", "borrowed"}
      /\ Len(recs[w]) \in DOMAIN recs[w] /\ Current(w) = recs[w][Len(recs[w])]
  BY <1>g, <1>i, <1>t, CurrentRecord DEF HasDag, InBody, WorkerInv, OwnRecords, BundleFits, Records
<1>r. RecDags(w)' = RecDags(w) BY <1>e DEF RecDags
<1>h. \A q : Holds(w, q)' <=> Holds(w, q) BY <1>g, <1>e DEF Holds
<1>1. TwoBundles'
  BY <1>d, <1>i DEF TwoBundles
<1>2. OwnRecords(w)'
  BY <1>s, <1>e, <1>d, <1>g, <1>v, <1>i, <1>r DEF WorkerInv, OwnRecords, BundleFits, Registering, Uncommitted, SharedBundle
<1>3. OwnLock(w)'
  BY <1>s, <1>e, <1>d, <1>g, <1>v, <1>i, <1>r DEF WorkerInv, OwnLock
<1>4. OwnModels(w)'
  BY <1>s, <1>e, <1>d, <1>g, <1>v, <1>i, <1>r DEF WorkerInv, OwnModels, xdist
<1>5. OwnHealth(w)'
  BY <1>s, <1>e, <1>d, <1>g, <1>v, <1>i, <1>r DEF WorkerInv, OwnHealth, Registering, Uncommitted
<1>6. OwnLive(w)'
  <2>1. at'[w] \in Uncommitted => db'.models[cur'[w].dag] = NoModel
    BY <1>s, <1>e, <1>d, <1>g, <1>v, <1>i, <1>r DEF WorkerInv, OwnLive, Registering, Uncommitted
  <2>2. at'[w] = "committed" =>
       /\ db'.models[cur'[w].dag] = cur'[w].bundle
       /\ [dag |-> cur'[w].dag, bundle |-> cur'[w].bundle] \in db'.versions
    BY <1>s, <1>e, <1>d, <1>g, <1>v, <1>i, <1>r DEF WorkerInv, OwnLive, Registering, Uncommitted
  <2>3. (at'[w] \in {"committed", "discarding"} /\ cur'[w].dag \in RecDags(w)') =>
       /\ db'.models[cur'[w].dag] \in {NoModel, cur'[w].bundle}
       /\ \A v \in db'.versions : v.dag = cur'[w].dag => v.bundle = cur'[w].bundle
    BY <1>s, <1>e, <1>d, <1>g, <1>v, <1>i, <1>r DEF WorkerInv, OwnLive, Registering, Uncommitted
  <2>4. at'[w] # "teardown" => \A d \in RecDags(w)' :
       db'.models[d] = NoModel => \A v \in db'.versions : v.dag # d
    BY <1>s, <1>e, <1>d, <1>g, <1>v, <1>i, <1>r DEF WorkerInv, OwnLive, Registering, Uncommitted
  <2>5. at'[w] # "teardown" => \A x \in live'[w] : x # SharedBundle =>
       \/ x \in db'.runs /\ (v2' \/ db'.models[x.dag] # NoModel)
       \/ x \in db'.versions /\ db'.models[x.dag] # NoModel
    BY <1>s, <1>e, <1>d, <1>g, <1>v, <1>i, <1>r DEF WorkerInv, OwnLive, Registering, Uncommitted
  <2>6. at'[w] \in Registering => \A x \in live'[w] : (x # SharedBundle /\ x.dag = cur'[w].dag) =>
       v2' /\ x \in db'.runs
    BY <1>s, <1>e, <1>d, <1>g, <1>v, <1>i, <1>r DEF WorkerInv, OwnLive, Registering, Uncommitted
  <2>. QED BY <2>1, <2>2, <2>3, <2>4, <2>5, <2>6 DEF OwnLive, SharedBundle
<1>7. OwnRows(w)'
  <2>1. at'[w] = "discarding" => problems'[w] # {}
    BY <1>s, <1>e, <1>d, <1>v, <1>i DEF WorkerInv, OwnRows
  <2>2. (at'[w] = "written" /\ ~v2' /\ cur'[w].bundle \in Dags \ db'.shared) => cur'[w].created
    BY <1>s, <1>e, <1>d, <1>v, <1>i DEF WorkerInv, OwnRows
  <2>3. v2' => \A d \in DagsOf[w] : d \notin db'.shared
    BY <1>s, <1>e, <1>d, <1>v, <1>i DEF WorkerInv, OwnRows
  <2>4. ASSUME problems'[w] = {}, NEW d \in DagsOf[w]
        PROVE  /\ db'.models[d] = d => \E r \in Records : Holds(w, r)' /\ r.dag = d /\ r.bundle = d
               /\ \A v \in db'.versions : v.dag = d =>
                    \E r \in Records : Holds(w, r)' /\ r.dag = d /\ r.bundle = v.bundle
               /\ d \in db'.shared => \E r \in Records : Holds(w, r)' /\ r.bundle = d /\ r.created
               /\ \A x \in db'.runs : x.dag = d =>
                    \/ v2' /\ x.by = "airflow"
                    \/ \E r \in Records : Holds(w, r)' /\ r.dag = d /\ (v2' => x.id \in r.runs)
    <3>0. d \in Dags /\ problems[w] = {} BY <2>4, <1>e, AtHome
    <3>1. /\ db.models[d] = d => \E r \in Records : Holds(w, r) /\ r.dag = d /\ r.bundle = d
          /\ \A v \in db.versions : v.dag = d =>
               \E r \in Records : Holds(w, r) /\ r.dag = d /\ r.bundle = v.bundle
          /\ d \in db.shared => \E r \in Records : Holds(w, r) /\ r.bundle = d /\ r.created
          /\ \A x \in db.runs : x.dag = d =>
               \/ v2 /\ x.by = "airflow"
               \/ \E r \in Records : Holds(w, r) /\ r.dag = d /\ (v2 => x.id \in r.runs)
      BY <3>0, <1>i DEF WorkerInv, OwnRows
    <3>2. db'.models[d] = d => \E r \in Records : Holds(w, r)' /\ r.dag = d /\ r.bundle = d
      BY <3>0, <3>1, <1>e, <1>d, <1>v, <1>h
    <3>3. \A v \in db'.versions : v.dag = d =>
            \E r \in Records : Holds(w, r)' /\ r.dag = d /\ r.bundle = v.bundle
      BY <3>0, <3>1, <1>e, <1>d, <1>v, <1>h
    <3>4. d \in db'.shared => \E r \in Records : Holds(w, r)' /\ r.bundle = d /\ r.created
      BY <3>0, <3>1, <1>e, <1>d, <1>v, <1>h
    <3>5. \A x \in db'.runs : x.dag = d =>
            \/ v2' /\ x.by = "airflow"
            \/ \E r \in Records : Holds(w, r)' /\ r.dag = d /\ (v2' => x.id \in r.runs)
      BY <3>0, <3>1, <1>e, <1>d, <1>v, <1>h
    <3>. QED BY <3>2, <3>3, <3>4, <3>5
  <2>. QED BY <2>1, <2>2, <2>3, <2>4 DEF OwnRows
<1>. QED BY <1>1, <1>2, <1>3, <1>4, <1>5, <1>6, <1>7 DEF WorkerInv

\* The shared bundle is of no Dag.
LEMMA EnsureTestingKeeps ==
  ASSUME DagTypeOK, DagTypeOK', DagInv, NEW w \in running, EnsureTesting(w)
  PROVE  TwoBundles' /\ WorkerInv(w)'
<1>t. w \in Workers BY RunningWorkers
<1>i. WorkerInv(w) /\ TwoBundles BY DEF DagInv
<1>g. InBody(w) /\ ~v2
  BY DEF EnsureTesting, Move, InBody, Wants, CanWrite
<1>e. /\ at'[w] = at[w]
      /\ cur'[w] = cur[w]
      /\ (saw'[w] <=> saw[w])
      /\ recs'[w] = recs[w]
      /\ persisted'[w] = persisted[w]
      /\ authoring'[w] = authoring[w]
      /\ staged'[w] = staged[w]
      /\ problems'[w] = problems[w]
      /\ live'[w] = live[w] \cup {SharedBundle}
      /\ writer' = writer
      /\ running' = running /\ family' = family
  BY <1>t, AtHome DEF DagTypeOK, EnsureTesting, Move, Report, Forget, local
<1>d. db' = [db EXCEPT !.shared = @ \cup {Testing}]
  BY DEF EnsureTesting
<1>v. v2' <=> v2 BY <1>e DEF v2
<1>1. TwoBundles' BY <1>g, <1>d, <1>e, <1>i, AtHome DEF TwoBundles, Databases, BundleFits, Records
<1>2. OwnRecords(w)'
  BY <1>g, <1>d, <1>e, <1>v, <1>i, <1>t, AtHome, DagAssumption DEF WorkerInv, OwnRecords, Registering, Uncommitted, RecDags, DagsIn, BundleFits
<1>3. OwnLock(w)'
  BY <1>g, <1>d, <1>e, <1>v, <1>i, <1>t, AtHome, DagAssumption DEF WorkerInv, OwnLock, Registering, Uncommitted, Released, Committed, Discarded, StagedAfter, CanWrite, CanClean, Fresh, Retries, SharedRow, HasDag, InBody, Sessions, BundleFits
<1>4. OwnModels(w)'
  BY <1>g, <1>d, <1>e, <1>v, <1>i, <1>t, AtHome, DagAssumption DEF WorkerInv, OwnModels, Registering, Uncommitted, RecDags, DagsIn, OwnRecords, BundleFits, Databases, xdist
<1>5. OwnHealth(w)'
  BY <1>g, <1>d, <1>e, <1>v, <1>i, <1>t, AtHome, DagAssumption DEF WorkerInv, OwnHealth, Registering, Uncommitted, RecDags, DagsIn, Fresh, SharedRow, OwnRecords, OwnLock, OwnModels, BundleFits, Discarded, Committed, Sessions, Wants, CanWrite, HasDag, InBody, StagedAfter, CanClean
<1>6. OwnLive(w)'
  BY <1>g, <1>d, <1>e, <1>v, <1>i, <1>t, AtHome, DagAssumption DEF WorkerInv, OwnLive, Registering, Uncommitted, RecDags, DagsIn, OwnRecords, BundleFits, Databases, Records, SharedBundle
<1>7. OwnRows(w)'
  BY <1>g, <1>d, <1>e, <1>v, <1>i, <1>t, AtHome, DagAssumption DEF WorkerInv, OwnRows, Registering, Uncommitted, Holds, OwnRecords, OwnLock, OwnLive, BundleFits, Databases
<1>. QED BY <1>1, <1>2, <1>3, <1>4, <1>5, <1>6, <1>7 DEF WorkerInv

\* A drifted model stays, of the testing bundle.
LEMMA DriftBundleKeeps ==
  ASSUME DagTypeOK, DagTypeOK', DagInv, NEW w \in running, DriftBundle(w)
  PROVE  TwoBundles' /\ WorkerInv(w)'
<1>t. w \in Workers BY RunningWorkers
<1>i. WorkerInv(w) /\ TwoBundles BY DEF DagInv
<1>o. /\ RecDags(w) \subseteq DagsOf[w] /\ RecDags(w) \subseteq Dags
      /\ \A x \in live[w] : x # SharedBundle => x.dag \in RecDags(w)
      /\ \A v \in db.versions : v \in Registrations /\ v.dag \in Dags /\ v.bundle \in Bundles
      /\ \A x \in db.runs : x \in Runs /\ x.dag \in Dags
  BY <1>i, OwnDags
<1>g. w \in FaultyWorkers /\ HasDag(w) /\ writer = Nobody /\ Testing \in db.shared /\ db.models[Current(w).dag] # NoModel
  BY DEF DriftBundle, Move, InBody, Wants, CanWrite
<1>e. /\ at'[w] = at[w]
      /\ cur'[w] = cur[w]
      /\ (saw'[w] <=> saw[w])
      /\ recs'[w] = recs[w]
      /\ persisted'[w] = persisted[w]
      /\ authoring'[w] = authoring[w]
      /\ staged'[w] = staged[w]
      /\ problems'[w] = problems[w]
      /\ live'[w] = live[w]
      /\ writer' = writer
      /\ running' = running /\ family' = family
  BY <1>t, AtHome DEF DagTypeOK, DriftBundle, Move, Report, Forget, local
<1>d. db' = [db EXCEPT !.models[Current(w).dag] = Testing]
  BY DEF DriftBundle
<1>v. v2' <=> v2 BY <1>e DEF v2
<1>s. /\ at[w] = "body" /\ Current(w).session \in Sessions(w) /\ Current(w).session \in {"owned", "borrowed"}
      /\ Len(recs[w]) \in DOMAIN recs[w] /\ Current(w) = recs[w][Len(recs[w])]
  BY <1>g, <1>i, <1>t, CurrentRecord DEF HasDag, InBody, WorkerInv, OwnRecords, BundleFits, Records
<1>r. RecDags(w)' = RecDags(w) BY <1>e DEF RecDags
<1>c. Current(w).dag \in DagsOf[w] /\ Current(w).dag \in RecDags(w) /\ Current(w).dag \in Dags
  BY <1>g, <1>t, CurrentRecord, <1>o DEF HasDag
<1>b. /\ \A d \in Dags : db'.models[d] = IF d = Current(w).dag THEN Testing ELSE db.models[d]
      /\ db'.versions = db.versions /\ db'.runs = db.runs /\ db'.shared = db.shared
      /\ Testing # NoModel
  BY <1>d, <1>c, AtHome, DagAssumption DEF Databases
<1>1. TwoBundles' BY <1>g, <1>d, <1>e, <1>i, AtHome DEF TwoBundles, Databases, BundleFits, Records
<1>2. OwnRecords(w)'
  BY <1>g, <1>d, <1>e, <1>v, <1>i, <1>t, AtHome, DagAssumption DEF WorkerInv, OwnRecords, Registering, Uncommitted, RecDags, DagsIn, BundleFits
<1>3. OwnLock(w)'
  BY <1>g, <1>d, <1>e, <1>v, <1>i, <1>t, AtHome, DagAssumption DEF WorkerInv, OwnLock, Registering, Uncommitted, Released, Committed, Discarded, StagedAfter, CanWrite, CanClean, Fresh, Retries, SharedRow, HasDag, InBody, Sessions, BundleFits
<1>4. OwnModels(w)'
  BY <1>g, <1>d, <1>e, <1>v, <1>i, <1>t, AtHome, DagAssumption DEF WorkerInv, OwnModels, Registering, Uncommitted, RecDags, DagsIn, OwnRecords, BundleFits, Databases, xdist
<1>5. OwnHealth(w)'
  BY <1>g, <1>d, <1>e, <1>v, <1>i, <1>t, AtHome, DagAssumption DEF WorkerInv, OwnHealth, Registering, Uncommitted, RecDags, DagsIn, Fresh, SharedRow, OwnRecords, OwnLock, OwnModels, BundleFits, Discarded, Committed, Sessions, Wants, CanWrite, HasDag, InBody, StagedAfter, CanClean
<1>6. OwnLive(w)'
  <2>1. at'[w] \in Uncommitted => db'.models[cur'[w].dag] = NoModel
    BY <1>s, <1>e, <1>b, <1>g, <1>c, <1>v, <1>i, <1>r, <1>o DEF WorkerInv, OwnLive, Registering, Uncommitted
  <2>2. at'[w] = "committed" =>
       /\ db'.models[cur'[w].dag] = cur'[w].bundle
       /\ [dag |-> cur'[w].dag, bundle |-> cur'[w].bundle] \in db'.versions
    BY <1>s, <1>e, <1>b, <1>g, <1>c, <1>v, <1>i, <1>r, <1>o DEF WorkerInv, OwnLive, Registering, Uncommitted
  <2>3. (at'[w] \in {"committed", "discarding"} /\ cur'[w].dag \in RecDags(w)') =>
       /\ db'.models[cur'[w].dag] \in {NoModel, cur'[w].bundle}
       /\ \A v \in db'.versions : v.dag = cur'[w].dag => v.bundle = cur'[w].bundle
    BY <1>s, <1>e, <1>b, <1>g, <1>c, <1>v, <1>i, <1>r, <1>o DEF WorkerInv, OwnLive, Registering, Uncommitted
  <2>4. at'[w] # "teardown" => \A d \in RecDags(w)' :
       db'.models[d] = NoModel => \A v \in db'.versions : v.dag # d
    BY <1>s, <1>e, <1>b, <1>g, <1>c, <1>v, <1>i, <1>r, <1>o DEF WorkerInv, OwnLive, Registering, Uncommitted
  <2>5. at'[w] # "teardown" => \A x \in live'[w] : x # SharedBundle =>
       \/ x \in db'.runs /\ (v2' \/ db'.models[x.dag] # NoModel)
       \/ x \in db'.versions /\ db'.models[x.dag] # NoModel
    BY <1>s, <1>e, <1>b, <1>g, <1>c, <1>v, <1>i, <1>r, <1>o DEF WorkerInv, OwnLive, Registering, Uncommitted
  <2>6. at'[w] \in Registering => \A x \in live'[w] : (x # SharedBundle /\ x.dag = cur'[w].dag) =>
       v2' /\ x \in db'.runs
    BY <1>s, <1>e, <1>b, <1>g, <1>c, <1>v, <1>i, <1>r, <1>o DEF WorkerInv, OwnLive, Registering, Uncommitted
  <2>. QED BY <2>1, <2>2, <2>3, <2>4, <2>5, <2>6 DEF OwnLive, SharedBundle
<1>7. OwnRows(w)'
  BY <1>g, <1>d, <1>e, <1>v, <1>i, <1>t, AtHome, DagAssumption DEF WorkerInv, OwnRows, Registering, Uncommitted, Holds, OwnRecords, OwnLock, OwnLive, BundleFits, Databases
<1>. QED BY <1>1, <1>2, <1>3, <1>4, <1>5, <1>6, <1>7 DEF WorkerInv

\* The same record answers for the rows written again.
LEMMA ResyncKeeps ==
  ASSUME DagTypeOK, DagTypeOK', DagInv, NEW w \in running, Resync(w)
  PROVE  TwoBundles' /\ WorkerInv(w)'
<1>t. w \in Workers BY RunningWorkers
<1>i. WorkerInv(w) /\ TwoBundles BY DEF DagInv
<1>o. /\ RecDags(w) \subseteq DagsOf[w] /\ RecDags(w) \subseteq Dags
      /\ \A x \in live[w] : x # SharedBundle => x.dag \in RecDags(w)
      /\ \A v \in db.versions : v \in Registrations /\ v.dag \in Dags /\ v.bundle \in Bundles
      /\ \A x \in db.runs : x \in Runs /\ x.dag \in Dags
  BY <1>i, OwnDags
<1>g. HasDag(w) /\ CanWrite(w, Current(w).session)
  BY DEF Resync, Move, InBody, Wants, CanWrite
<1>e. /\ at'[w] = at[w]
      /\ cur'[w] = cur[w]
      /\ (saw'[w] <=> saw[w])
      /\ persisted'[w] = persisted[w]
      /\ authoring'[w] = authoring[w] \cup {Current(w).dag}
      /\ staged'[w] = Committed(w, Current(w).session)
      /\ problems'[w] = problems[w]
      /\ live'[w] = live[w] \cup {[dag |-> Current(w).dag, bundle |-> Current(w).bundle]}
      /\ writer' = Released(w, Current(w).session)
      /\ running' = running /\ family' = family
  BY <1>t, AtHome DEF DagTypeOK, Resync, Move, Report, Forget, local
<1>c. Current(w) \in Records /\ BundleFits(w, Current(w)) /\ Current(w).dag \in DagsOf[w] /\ Current(w).dag \in RecDags(w) /\ Current(w).dag \in Dags
  BY <1>g, <1>t, CurrentRecord, <1>o, <1>i DEF HasDag, WorkerInv, OwnRecords
<1>s. /\ at[w] = "body" /\ Current(w).session \in Sessions(w) /\ Current(w).session \in {"owned", "borrowed"}
      /\ Len(recs[w]) \in DOMAIN recs[w] /\ Current(w) = recs[w][Len(recs[w])]
  BY <1>g, <1>i, <1>t, CurrentRecord DEF HasDag, InBody, WorkerInv, OwnRecords, BundleFits, Records
<1>d. PICK new \in Records :
        /\ new.dag = Current(w).dag /\ new.bundle = Current(w).bundle /\ new.session = Current(w).session
        /\ new.runs = Current(w).runs
        /\ (new.created <=> (Current(w).created \/ (~v2 /\ Current(w).bundle \notin db.shared)))
        /\ LastIs(w, new)
        /\ \A d \in Dags : db'.models[d] = IF d = Current(w).dag THEN Current(w).bundle ELSE db.models[d]
        /\ db'.versions = db.versions \cup {[dag |-> Current(w).dag, bundle |-> Current(w).bundle]}
        /\ db'.runs = db.runs /\ db'.shared = db.shared \cup {SharedRow(Current(w))}
  <2>1. PICK b \in BOOLEAN :
           /\ b <=> (Current(w).created \/ (~v2 /\ Current(w).bundle \notin db.shared))
           /\ LastIs(w, [Current(w) EXCEPT !.created = b])
    BY <1>t, ResyncRecords
  <2>2. PICK new : new = [Current(w) EXCEPT !.created = b] OBVIOUS
  <2>3. /\ new \in Records /\ new.dag = Current(w).dag /\ new.bundle = Current(w).bundle
        /\ new.session = Current(w).session /\ (new.created <=> b) /\ new.runs = Current(w).runs
    BY <2>2, <1>c, RecordCreating
  <2>4. db' = Written(db, Current(w)) /\ db \in Databases BY AtHome DEF Resync
  <2>5. db'.models = [db.models EXCEPT ![Current(w).dag] = Current(w).bundle] BY <2>4, <1>c, WrittenRows
  <2>6. db.models \in [Dags -> Bundles \cup {NoModel}] BY <2>4 DEF Databases
  <2>7. \A d \in Dags : db'.models[d] = IF d = Current(w).dag THEN Current(w).bundle ELSE db.models[d] BY <2>5, <2>6
  <2>8. /\ db'.versions = db.versions \cup {[dag |-> Current(w).dag, bundle |-> Current(w).bundle]}
        /\ db'.runs = db.runs /\ db'.shared = db.shared \cup {SharedRow(Current(w))}
    BY <2>4, <1>c, WrittenRows
  <2>. QED BY <2>1, <2>2, <2>3, <2>7, <2>8
<1>v. v2' <=> v2 BY <1>e DEF v2
<1>x. /\ DOMAIN recs'[w] = DOMAIN recs[w] /\ Len(recs[w]) \in DOMAIN recs[w]
      /\ \A i \in DOMAIN recs[w] : recs'[w][i] = IF i = Len(recs[w]) THEN new ELSE recs[w][i]
      /\ DagsIn(recs'[w]) = DagsIn(recs[w])
  <2>1. recs[w] # <<>> /\ recs[w] \in Seq(Records) BY <1>g, <1>t, AtHome DEF HasDag
  <2>2. recs'[w] = [recs[w] EXCEPT ![Len(recs[w])] = new] BY <1>d, <1>t DEF LastIs, DagTypeOK
  <2>3. new.dag = recs[w][Len(recs[w])].dag BY <1>d, <1>s
  <2>4. DagsIn(recs'[w]) = DagsIn(recs[w])
    <3>1. DagsIn([recs[w] EXCEPT ![Len(recs[w])] = new]) = DagsIn(recs[w]) BY <2>1, <2>3, DagsReplaced
    <3>. QED BY <3>1, <2>2
  <2>5. /\ DOMAIN recs'[w] = DOMAIN recs[w]
        /\ \A i \in DOMAIN recs[w] : recs'[w][i] = IF i = Len(recs[w]) THEN new ELSE recs[w][i]
    BY <2>1, <2>2, <1>d, LastFacts
  <2>. QED BY <2>4, <2>5, <1>s
<1>r. RecDags(w)' = RecDags(w) BY <1>x DEF RecDags
<1>h. \A q \in Records : Holds(w, q) =>
        \E p \in Records : /\ Holds(w, p)' /\ p.dag = q.dag /\ p.bundle = q.bundle
                           /\ (q.created => p.created) /\ q.runs \subseteq p.runs
  <2>. SUFFICES ASSUME NEW q \in Records, Holds(w, q)
                PROVE  \E p \in Records : /\ Holds(w, p)' /\ p.dag = q.dag /\ p.bundle = q.bundle
                                          /\ (q.created => p.created) /\ q.runs \subseteq p.runs
    OBVIOUS
  <2>1. PICK i \in DOMAIN recs[w] : recs[w][i] = q BY <1>s DEF Holds
  <2>2. CASE i = Len(recs[w])
    <3>1. recs'[w][i] = new /\ q = Current(w) /\ i \in DOMAIN recs'[w] BY <2>1, <2>2, <1>x, <1>s
    <3>2. \A p : p = new => Holds(w, p)' BY <3>1 DEF Holds
    <3>. QED BY <3>1, <3>2, <1>d
  <2>3. CASE i # Len(recs[w])
    <3>1. recs'[w][i] = q /\ i \in DOMAIN recs'[w] BY <2>1, <2>3, <1>x
    <3>2. \A p : p = q => Holds(w, p)' BY <3>1 DEF Holds
    <3>. QED BY <3>2
  <2>. QED BY <2>2, <2>3
<1>y. \A q : Holds(w, q) <=> \E i \in DOMAIN recs[w] : recs[w][i] = q BY <1>s DEF Holds
<1>n. /\ Current(w).bundle # NoModel /\ (Current(w).bundle = Current(w).dag \/ Current(w).bundle = Testing)
      /\ [dag |-> Current(w).dag, bundle |-> Current(w).bundle] # SharedBundle
  BY <1>c, DagAssumption DEF BundleFits, SharedBundle
<1>z. \A p : p = new => Holds(w, p)' BY <1>x DEF Holds
<1>1. TwoBundles'
  BY <1>c, <1>d, <1>n, <1>i DEF TwoBundles
<1>2. OwnRecords(w)'
  <2>1. \A i \in DOMAIN recs'[w] : BundleFits(w, recs[w][i])'
    BY <1>x, <1>s, <1>d, <1>v, <1>i DEF WorkerInv, OwnRecords, BundleFits
  <2>2. authoring'[w] \subseteq RecDags(w)' BY <1>c, <1>e, <1>r, <1>i DEF WorkerInv, OwnRecords
  <2>3. \A y \in live'[w] : y = SharedBundle \/ y.dag \in RecDags(w)'
    BY <1>c, <1>d, <1>e, <1>r, <1>i DEF WorkerInv, OwnRecords
  <2>. QED BY <1>e, <1>s, <2>1, <2>2, <2>3 DEF OwnRecords, SharedBundle, Registering, Uncommitted
<1>3. OwnLock(w)'
  BY <1>g, <1>s, <1>e, <1>i, <1>t, AtHome DEF WorkerInv, OwnLock, CanWrite, Released, Committed
<1>4. OwnModels(w)'
  BY <1>s, <1>e, <1>d, <1>v, <1>i, <1>r, <1>c, <1>o, <1>t, AtHome DEF WorkerInv, OwnModels, xdist
<1>5. OwnHealth(w)'
  <2>. SUFFICES ASSUME w \notin FaultyWorkers PROVE OwnHealth(w)' BY DEF OwnHealth
  <2>1. \A i, j \in DOMAIN recs'[w] : recs'[w][i].dag = recs'[w][j].dag => i = j
    <3>1. \A i \in DOMAIN recs[w] : recs'[w][i].dag = recs[w][i].dag BY <1>x, <1>s, <1>d
    <3>2. \A i, j \in DOMAIN recs[w] : recs[w][i].dag = recs[w][j].dag => i = j BY <1>i DEF WorkerInv, OwnHealth
    <3>. QED BY <1>x, <3>1, <3>2
  <2>2. \A i \in DOMAIN recs'[w] : [dag |-> recs'[w][i].dag, bundle |-> recs'[w][i].bundle] \in db'.versions
    <3>1. \A i \in DOMAIN recs[w] : recs'[w][i].dag = recs[w][i].dag /\ recs'[w][i].bundle = recs[w][i].bundle
      BY <1>x, <1>s, <1>d
    <3>2. \A i \in DOMAIN recs[w] : [dag |-> recs[w][i].dag, bundle |-> recs[w][i].bundle] \in db.versions
      BY <1>i DEF WorkerInv, OwnHealth
    <3>. QED BY <1>x, <1>d, <3>1, <3>2
  <2>3. Current(w).bundle = Current(w).dag BY <1>c DEF BundleFits
  <2>4. \A d \in DagsOf[w] :
          /\ db'.models[d] \in {NoModel, d}
          /\ db'.models[d] # NoModel => d \in RecDags(w)' \/ (at'[w] = "committed" /\ cur'[w].dag = d)
    BY <2>3, <1>s, <1>c, <1>d, <1>i, <1>r, <1>t, AtHome DEF WorkerInv, OwnHealth
  <2>. QED BY <1>g, <1>s, <1>e, <1>i, <1>r, <2>1, <2>2, <2>4, <1>t, AtHome
       DEF WorkerInv, OwnHealth, Committed, Registering, Uncommitted
<1>6. OwnLive(w)'
  <2>1. at'[w] \in Uncommitted => db'.models[cur'[w].dag] = NoModel
    BY <1>s, <1>e, <1>d, <1>v, <1>i, <1>r, <1>c, <1>n, <1>o DEF WorkerInv, OwnLive, Registering, Uncommitted
  <2>2. at'[w] = "committed" =>
       /\ db'.models[cur'[w].dag] = cur'[w].bundle
       /\ [dag |-> cur'[w].dag, bundle |-> cur'[w].bundle] \in db'.versions
    BY <1>s, <1>e, <1>d, <1>v, <1>i, <1>r, <1>c, <1>n, <1>o DEF WorkerInv, OwnLive, Registering, Uncommitted
  <2>3. (at'[w] \in {"committed", "discarding"} /\ cur'[w].dag \in RecDags(w)') =>
       /\ db'.models[cur'[w].dag] \in {NoModel, cur'[w].bundle}
       /\ \A v \in db'.versions : v.dag = cur'[w].dag => v.bundle = cur'[w].bundle
    BY <1>s, <1>e, <1>d, <1>v, <1>i, <1>r, <1>c, <1>n, <1>o DEF WorkerInv, OwnLive, Registering, Uncommitted
  <2>4. at'[w] # "teardown" => \A d \in RecDags(w)' :
       db'.models[d] = NoModel => \A v \in db'.versions : v.dag # d
    BY <1>s, <1>e, <1>d, <1>v, <1>i, <1>r, <1>c, <1>n, <1>o DEF WorkerInv, OwnLive, Registering, Uncommitted
  <2>5. at'[w] # "teardown" => \A x \in live'[w] : x # SharedBundle =>
       \/ x \in db'.runs /\ (v2' \/ db'.models[x.dag] # NoModel)
       \/ x \in db'.versions /\ db'.models[x.dag] # NoModel
    BY <1>s, <1>e, <1>d, <1>v, <1>i, <1>r, <1>c, <1>n, <1>o DEF WorkerInv, OwnLive, Registering, Uncommitted
  <2>6. at'[w] \in Registering => \A x \in live'[w] : (x # SharedBundle /\ x.dag = cur'[w].dag) =>
       v2' /\ x \in db'.runs
    BY <1>s, <1>e, <1>d, <1>v, <1>i, <1>r, <1>c, <1>n, <1>o DEF WorkerInv, OwnLive, Registering, Uncommitted
  <2>. QED BY <2>1, <2>2, <2>3, <2>4, <2>5, <2>6 DEF OwnLive, SharedBundle
<1>7. OwnRows(w)'
  <2>1. at'[w] = "discarding" => problems'[w] # {}
    BY <1>s, <1>e, <1>d, <1>v, <1>i, <1>r, <1>c DEF WorkerInv, OwnRows
  <2>2. (at'[w] = "written" /\ ~v2' /\ cur'[w].bundle \in Dags \ db'.shared) => cur'[w].created
    BY <1>s, <1>e, <1>d, <1>v, <1>i, <1>r, <1>c DEF WorkerInv, OwnRows
  <2>3. v2' => \A d \in DagsOf[w] : d \notin db'.shared
    BY <1>s, <1>e, <1>d, <1>v, <1>i, <1>r, <1>c, <1>t, AtHome, DagAssumption DEF WorkerInv, OwnRows, SharedRow
  <2>4. ASSUME problems'[w] = {}, NEW d \in DagsOf[w]
        PROVE  /\ db'.models[d] = d => \E r \in Records : Holds(w, r)' /\ r.dag = d /\ r.bundle = d
               /\ \A v \in db'.versions : v.dag = d =>
                    \E r \in Records : Holds(w, r)' /\ r.dag = d /\ r.bundle = v.bundle
               /\ d \in db'.shared => \E r \in Records : Holds(w, r)' /\ r.bundle = d /\ r.created
               /\ \A x \in db'.runs : x.dag = d =>
                    \/ v2' /\ x.by = "airflow"
                    \/ \E r \in Records : Holds(w, r)' /\ r.dag = d /\ (v2' => x.id \in r.runs)
    <3>0. d \in Dags /\ problems[w] = {} BY <2>4, <1>e, AtHome
    <3>1. /\ db.models[d] = d => \E r \in Records : Holds(w, r) /\ r.dag = d /\ r.bundle = d
          /\ \A v \in db.versions : v.dag = d =>
               \E r \in Records : Holds(w, r) /\ r.dag = d /\ r.bundle = v.bundle
          /\ d \in db.shared => \E r \in Records : Holds(w, r) /\ r.bundle = d /\ r.created
          /\ \A x \in db.runs : x.dag = d =>
               \/ v2 /\ x.by = "airflow"
               \/ \E r \in Records : Holds(w, r) /\ r.dag = d /\ (v2 => x.id \in r.runs)
      BY <3>0, <1>i DEF WorkerInv, OwnRows
    <3>2. db'.models[d] = d => \E r \in Records : Holds(w, r)' /\ r.dag = d /\ r.bundle = d
      <4>1. CASE d = Current(w).dag BY <4>1, <3>0, <1>c, <1>d, <1>z
      <4>2. CASE d # Current(w).dag BY <4>2, <3>0, <3>1, <1>d, <1>h
      <4>. QED BY <4>1, <4>2
    <3>3. \A v \in db'.versions : v.dag = d =>
            \E r \in Records : Holds(w, r)' /\ r.dag = d /\ r.bundle = v.bundle
      <4>1. SUFFICES ASSUME NEW v \in db'.versions, v.dag = d
                     PROVE  \E r \in Records : Holds(w, r)' /\ r.dag = d /\ r.bundle = v.bundle
        OBVIOUS
      <4>2. CASE v \in db.versions BY <4>1, <4>2, <3>1, <1>h
      <4>3. CASE v = [dag |-> Current(w).dag, bundle |-> Current(w).bundle] BY <4>1, <4>3, <1>d, <1>z
      <4>. QED BY <4>1, <4>2, <4>3, <1>d
    <3>4. d \in db'.shared => \E r \in Records : Holds(w, r)' /\ r.bundle = d /\ r.created
      <4>1. CASE d \in db.shared BY <4>1, <3>1, <1>h
      <4>2. CASE d \notin db.shared /\ d \in db'.shared
        <5>1. d = SharedRow(Current(w)) BY <4>2, <1>d
        <5>2. ~v2 /\ d = Current(w).bundle BY <5>1, <3>0, DagAssumption DEF SharedRow
        <5>3. new.created BY <4>2, <5>2, <1>d
        <5>. QED BY <5>2, <5>3, <1>d, <1>z
      <4>. QED BY <4>1, <4>2
    <3>5. \A x \in db'.runs : x.dag = d =>
            \/ v2' /\ x.by = "airflow"
            \/ \E r \in Records : Holds(w, r)' /\ r.dag = d /\ (v2' => x.id \in r.runs)
      BY <3>0, <3>1, <1>d, <1>v, <1>h
    <3>. QED BY <3>2, <3>3, <3>4, <3>5
  <2>. QED BY <2>1, <2>2, <2>3, <2>4 DEF OwnRows
<1>. QED BY <1>1, <1>2, <1>3, <1>4, <1>5, <1>6, <1>7 DEF WorkerInv

\* A test without faults shares its session.
LEMMA ResyncRaisesKeeps ==
  ASSUME DagTypeOK, DagTypeOK', DagInv, NEW w \in running, ResyncRaises(w)
  PROVE  TwoBundles' /\ WorkerInv(w)'
<1>t. w \in Workers BY RunningWorkers
<1>i. WorkerInv(w) /\ TwoBundles BY DEF DagInv
<1>g. HasDag(w) /\ (w \in FaultyWorkers \/ (writer = w /\ Current(w).session = "owned"))
  BY DEF ResyncRaises, Move, InBody, Wants, CanWrite
<1>e. /\ at'[w] = at[w]
      /\ cur'[w] = cur[w]
      /\ (saw'[w] <=> saw[w])
      /\ recs'[w] = recs[w]
      /\ persisted'[w] = persisted[w]
      /\ authoring'[w] = authoring[w]
      /\ staged'[w] = Discarded(w, Current(w).session)
      /\ problems'[w] = problems[w] \cup {"failed"}
      /\ live'[w] = live[w]
      /\ db' = db
      /\ writer' = Released(w, Current(w).session)
      /\ running' = running /\ family' = family
  BY <1>t, AtHome DEF DagTypeOK, ResyncRaises, Move, Report, Forget, local
<1>v. v2' <=> v2 BY <1>e DEF v2
<1>s. /\ at[w] = "body" /\ Current(w).session \in Sessions(w) /\ Current(w).session \in {"owned", "borrowed"}
      /\ Len(recs[w]) \in DOMAIN recs[w] /\ Current(w) = recs[w][Len(recs[w])]
  BY <1>g, <1>i, <1>t, CurrentRecord DEF HasDag, InBody, WorkerInv, OwnRecords, BundleFits, Records
<1>r. RecDags(w)' = RecDags(w) BY <1>e DEF RecDags
<1>m. w \in FaultyWorkers BY <1>g, <1>s, <1>i DEF WorkerInv, OwnLock, Sessions
<1>1. TwoBundles' BY <1>g, <1>e, <1>i, AtHome DEF TwoBundles, Databases, BundleFits, Records
<1>2. OwnRecords(w)'
  BY <1>g, <1>e, <1>v, <1>i, <1>t, AtHome, DagAssumption DEF WorkerInv, OwnRecords, Registering, Uncommitted, RecDags, DagsIn, BundleFits
<1>3. OwnLock(w)'
  BY <1>g, <1>e, <1>v, <1>i, <1>t, AtHome, DagAssumption DEF WorkerInv, OwnLock, Registering, Uncommitted, Released, Committed, Discarded, StagedAfter, CanWrite, CanClean, Fresh, Retries, SharedRow, HasDag, InBody, Sessions, BundleFits
<1>4. OwnModels(w)'
  BY <1>g, <1>e, <1>v, <1>i, <1>t, AtHome, DagAssumption DEF WorkerInv, OwnModels, Registering, Uncommitted, RecDags, DagsIn, OwnRecords, BundleFits, Databases, xdist
<1>5. OwnHealth(w)'
  BY <1>m DEF OwnHealth
<1>6. OwnLive(w)'
  BY <1>g, <1>e, <1>v, <1>i, <1>t, AtHome, DagAssumption DEF WorkerInv, OwnLive, Registering, Uncommitted, RecDags, DagsIn, OwnRecords, BundleFits, Databases, Records, SharedBundle
<1>7. OwnRows(w)'
  BY <1>g, <1>e, <1>v, <1>i, <1>t, AtHome, DagAssumption DEF WorkerInv, OwnRows, Registering, Uncommitted, Holds, OwnRecords, OwnLock, OwnLive, BundleFits, Databases
<1>. QED BY <1>1, <1>2, <1>3, <1>4, <1>5, <1>6, <1>7 DEF WorkerInv

\* Staging takes no lock.
LEMMA StageKeeps ==
  ASSUME DagTypeOK, DagTypeOK', DagInv, NEW w \in running, Stage(w)
  PROVE  TwoBundles' /\ WorkerInv(w)'
<1>t. w \in Workers BY RunningWorkers
<1>i. WorkerInv(w) /\ TwoBundles BY DEF DagInv
<1>g. w \in Borrowing /\ at[w] \in {"body", "authoring"} /\ staged[w] \in {"none", "durable"}
  BY DEF Stage, Move, InBody, Wants, CanWrite
<1>e. /\ at'[w] = at[w]
      /\ cur'[w] = cur[w]
      /\ (saw'[w] <=> saw[w])
      /\ recs'[w] = recs[w]
      /\ persisted'[w] = persisted[w]
      /\ authoring'[w] = authoring[w]
      /\ staged'[w] = "staged"
      /\ problems'[w] = problems[w]
      /\ live'[w] = live[w]
      /\ db' = db
      /\ writer' = writer
      /\ running' = running /\ family' = family
  BY <1>t, AtHome DEF DagTypeOK, Stage, Move, Report, Forget, local
<1>v. v2' <=> v2 BY <1>e DEF v2
<1>r. RecDags(w)' = RecDags(w) BY <1>e DEF RecDags
<1>1. TwoBundles' BY <1>g, <1>e, <1>i, AtHome DEF TwoBundles, Databases, BundleFits, Records
<1>2. OwnRecords(w)'
  BY <1>g, <1>e, <1>v, <1>i, <1>t, AtHome, DagAssumption DEF WorkerInv, OwnRecords, Registering, Uncommitted, RecDags, DagsIn, BundleFits
<1>3. OwnLock(w)'
  BY <1>g, <1>e, <1>v, <1>i, <1>t, AtHome, DagAssumption DEF WorkerInv, OwnLock, Registering, Uncommitted, Released, Committed, Discarded, StagedAfter, CanWrite, CanClean, Fresh, Retries, SharedRow, HasDag, InBody, Sessions, BundleFits
<1>4. OwnModels(w)'
  BY <1>g, <1>e, <1>v, <1>i, <1>t, AtHome, DagAssumption DEF WorkerInv, OwnModels, Registering, Uncommitted, RecDags, DagsIn, OwnRecords, BundleFits, Databases, xdist
<1>5. OwnHealth(w)'
  BY <1>g, <1>e, <1>i, <1>r DEF WorkerInv, OwnHealth, Registering, Uncommitted
<1>6. OwnLive(w)'
  BY <1>g, <1>e, <1>v, <1>i, <1>t, AtHome, DagAssumption DEF WorkerInv, OwnLive, Registering, Uncommitted, RecDags, DagsIn, OwnRecords, BundleFits, Databases, Records, SharedBundle
<1>7. OwnRows(w)'
  BY <1>g, <1>e, <1>v, <1>i, <1>t, AtHome, DagAssumption DEF WorkerInv, OwnRows, Registering, Uncommitted, Holds, OwnRecords, OwnLock, OwnLive, BundleFits, Databases
<1>. QED BY <1>1, <1>2, <1>3, <1>4, <1>5, <1>6, <1>7 DEF WorkerInv

\* A flush takes the lock.
LEMMA FlushStagedKeeps ==
  ASSUME DagTypeOK, DagTypeOK', DagInv, NEW w \in running, FlushStaged(w)
  PROVE  TwoBundles' /\ WorkerInv(w)'
<1>t. w \in Workers BY RunningWorkers
<1>i. WorkerInv(w) /\ TwoBundles BY DEF DagInv
<1>g. at[w] \in {"body", "authoring"} /\ staged[w] = "staged" /\ writer = Nobody
  BY DEF FlushStaged, Move, InBody, Wants, CanWrite
<1>e. /\ at'[w] = at[w]
      /\ cur'[w] = cur[w]
      /\ (saw'[w] <=> saw[w])
      /\ recs'[w] = recs[w]
      /\ persisted'[w] = persisted[w]
      /\ authoring'[w] = authoring[w]
      /\ staged'[w] = "flushed"
      /\ problems'[w] = problems[w]
      /\ live'[w] = live[w]
      /\ db' = db
      /\ writer' = w
      /\ running' = running /\ family' = family
  BY <1>t, AtHome DEF DagTypeOK, FlushStaged, Move, Report, Forget, local
<1>v. v2' <=> v2 BY <1>e DEF v2
<1>r. RecDags(w)' = RecDags(w) BY <1>e DEF RecDags
<1>1. TwoBundles' BY <1>g, <1>e, <1>i, AtHome DEF TwoBundles, Databases, BundleFits, Records
<1>2. OwnRecords(w)'
  BY <1>g, <1>e, <1>v, <1>i, <1>t, AtHome, DagAssumption DEF WorkerInv, OwnRecords, Registering, Uncommitted, RecDags, DagsIn, BundleFits
<1>3. OwnLock(w)'
  BY <1>g, <1>e, <1>v, <1>i, <1>t, AtHome, DagAssumption DEF WorkerInv, OwnLock, Registering, Uncommitted, Released, Committed, Discarded, StagedAfter, CanWrite, CanClean, Fresh, Retries, SharedRow, HasDag, InBody, Sessions, BundleFits
<1>4. OwnModels(w)'
  BY <1>g, <1>e, <1>v, <1>i, <1>t, AtHome, DagAssumption DEF WorkerInv, OwnModels, Registering, Uncommitted, RecDags, DagsIn, OwnRecords, BundleFits, Databases, xdist
<1>5. OwnHealth(w)'
  BY <1>g, <1>e, <1>i, <1>r DEF WorkerInv, OwnHealth, Registering, Uncommitted
<1>6. OwnLive(w)'
  BY <1>g, <1>e, <1>v, <1>i, <1>t, AtHome, DagAssumption DEF WorkerInv, OwnLive, Registering, Uncommitted, RecDags, DagsIn, OwnRecords, BundleFits, Databases, Records, SharedBundle
<1>7. OwnRows(w)'
  BY <1>g, <1>e, <1>v, <1>i, <1>t, AtHome, DagAssumption DEF WorkerInv, OwnRows, Registering, Uncommitted, Holds, OwnRecords, OwnLock, OwnLive, BundleFits, Databases
<1>. QED BY <1>1, <1>2, <1>3, <1>4, <1>5, <1>6, <1>7 DEF WorkerInv

\* From here on rows may go.
LEMMA EndTestKeeps ==
  ASSUME DagTypeOK, DagTypeOK', DagInv, NEW w \in running, EndTest(w)
  PROVE  TwoBundles' /\ WorkerInv(w)'
<1>t. w \in Workers BY RunningWorkers
<1>i. WorkerInv(w) /\ TwoBundles BY DEF DagInv
<1>g. at[w] = "body"
  BY DEF EndTest, Move, InBody, Wants, CanWrite
<1>e. /\ at'[w] = "teardown"
      /\ cur'[w] = cur[w]
      /\ (saw'[w] <=> saw[w])
      /\ recs'[w] = recs[w]
      /\ persisted'[w] = persisted[w]
      /\ authoring'[w] = authoring[w]
      /\ staged'[w] = staged[w]
      /\ problems'[w] = problems[w]
      /\ live'[w] = live[w]
      /\ db' = db
      /\ writer' = writer
      /\ running' = running /\ family' = family
  BY <1>t, AtHome DEF DagTypeOK, EndTest, Move, Report, Forget, local
<1>v. v2' <=> v2 BY <1>e DEF v2
<1>1. TwoBundles' BY <1>g, <1>e, <1>i, AtHome DEF TwoBundles, Databases, BundleFits, Records
<1>2. OwnRecords(w)'
  BY <1>g, <1>e, <1>v, <1>i, <1>t, AtHome, DagAssumption DEF WorkerInv, OwnRecords, Registering, Uncommitted, RecDags, DagsIn, BundleFits
<1>3. OwnLock(w)'
  BY <1>g, <1>e, <1>v, <1>i, <1>t, AtHome, DagAssumption DEF WorkerInv, OwnLock, Registering, Uncommitted, Released, Committed, Discarded, StagedAfter, CanWrite, CanClean, Fresh, Retries, SharedRow, HasDag, InBody, Sessions, BundleFits
<1>4. OwnModels(w)'
  BY <1>g, <1>e, <1>v, <1>i, <1>t, AtHome, DagAssumption DEF WorkerInv, OwnModels, Registering, Uncommitted, RecDags, DagsIn, OwnRecords, BundleFits, Databases, xdist
<1>5. OwnHealth(w)'
  BY <1>g, <1>e, <1>v, <1>i, <1>t, AtHome, DagAssumption DEF WorkerInv, OwnHealth, Registering, Uncommitted, RecDags, DagsIn, Fresh, SharedRow, OwnRecords, OwnLock, OwnModels, BundleFits, Discarded, Committed, Sessions, Wants, CanWrite, HasDag, InBody, StagedAfter, CanClean
<1>6. OwnLive(w)'
  BY <1>g, <1>e, <1>v, <1>i, <1>t, AtHome, DagAssumption DEF WorkerInv, OwnLive, Registering, Uncommitted, RecDags, DagsIn, OwnRecords, BundleFits, Databases, Records, SharedBundle
<1>7. OwnRows(w)'
  BY <1>g, <1>e, <1>v, <1>i, <1>t, AtHome, DagAssumption DEF WorkerInv, OwnRows, Registering, Uncommitted, Holds, OwnRecords, OwnLock, OwnLive, BundleFits, Databases
<1>. QED BY <1>1, <1>2, <1>3, <1>4, <1>5, <1>6, <1>7 DEF WorkerInv

\* What the popped record answered for is deleted with it, the bundle it created too: no
\* model of another Dag is of that bundle.
LEMMA CleanupDagKeeps ==
  ASSUME DagTypeOK, DagTypeOK', DagInv, NEW w \in running, CleanupDag(w)
  PROVE  TwoBundles' /\ WorkerInv(w)'
<1>t. w \in Workers BY RunningWorkers
<1>i. WorkerInv(w) /\ TwoBundles BY DEF DagInv
<1>o. /\ RecDags(w) \subseteq DagsOf[w] /\ RecDags(w) \subseteq Dags
      /\ \A x \in live[w] : x # SharedBundle => x.dag \in RecDags(w)
      /\ \A v \in db.versions : v \in Registrations /\ v.dag \in Dags /\ v.bundle \in Bundles
      /\ \A x \in db.runs : x \in Runs /\ x.dag \in Dags
  BY <1>i, OwnDags
<1>g. at[w] = "teardown" /\ recs[w] # <<>> /\ CanClean(w)
  BY DEF CleanupDag, Move, InBody, Wants, CanWrite
<1>s. /\ Current(w) \in Records /\ Current(w).session \in Sessions(w)
      /\ Current(w) = recs[w][Len(recs[w])] /\ Len(recs[w]) \in DOMAIN recs[w]
      /\ recs[w] \in Seq(Records) /\ BundleFits(w, Current(w)) /\ Current(w).dag \in Dags
  <2>1. /\ Current(w) \in Records /\ recs[w] \in Seq(Records)
        /\ Current(w) = recs[w][Len(recs[w])] /\ Len(recs[w]) \in DOMAIN recs[w]
    BY <1>g, <1>t, CurrentRecord
  <2>2. BundleFits(w, Current(w)) BY <1>i, <2>1 DEF WorkerInv, OwnRecords
  <2>3. Current(w).dag \in Dags /\ Current(w).session \in Sessions(w) BY <2>1, <2>2 DEF BundleFits, Records
  <2>. QED BY <2>1, <2>2, <2>3
<1>e. /\ at'[w] = at[w]
      /\ cur'[w] = cur[w]
      /\ (saw'[w] <=> saw[w])
      /\ recs'[w] = SubSeq(recs[w], 1, Len(recs[w]) - 1)
      /\ persisted'[w] = persisted[w]
      /\ authoring'[w] = authoring[w] \ {Current(w).dag}
      /\ staged'[w] = StagedAfter(w)
      /\ problems'[w] = problems[w]
      /\ live'[w] = {x \in live[w] : x.dag # Current(w).dag}
      /\ writer' = Nobody
      /\ running' = running /\ family' = family
  BY <1>t, AtHome DEF DagTypeOK, CleanupDag, Move, Report, Forget, local, Popped
<1>d. /\ \A d \in Dags : db'.models[d] =
           IF d = Current(w).dag /\ (v2 \/ db.models[d] = Current(w).bundle) THEN NoModel ELSE db.models[d]
      /\ \A v : v \in db'.versions <=> v \in db.versions /\
           (IF v2 THEN v.dag # Current(w).dag ELSE v # [dag |-> Current(w).dag, bundle |-> Current(w).bundle])
      /\ \A x : x \in db'.runs <=> x \in db.runs /\
           (IF v2 THEN ~(x.id \in Current(w).runs /\ x.dag = Current(w).dag) ELSE x.dag # Current(w).dag)
      /\ db'.shared \subseteq db.shared
      /\ (~v2 /\ Current(w).created /\ \A dag \in Dags : db'.models[dag] # Current(w).bundle) => db'.shared = db.shared \ {Current(w).bundle}
  <2>9. db' = Removed(db, Current(w)) BY DEF CleanupDag
  <2>0. db \in Databases /\ db.models \in [Dags -> Bundles \cup {NoModel}] BY AtHome DEF Databases
  <2>1. db'.models = [db.models EXCEPT ![Current(w).dag] = IF v2 \/ db.models[Current(w).dag] = Current(w).bundle THEN NoModel ELSE db.models[Current(w).dag]]
    BY <2>9, <2>0, <1>s, RemovedRows
  <2>2. \A d \in Dags : db'.models[d] =
          IF d = Current(w).dag /\ (v2 \/ db.models[d] = Current(w).bundle) THEN NoModel ELSE db.models[d]
    BY <2>0, <2>1
  <2>3. /\ db'.versions = {v \in db.versions :
            IF v2 THEN v.dag # Current(w).dag ELSE v # [dag |-> Current(w).dag, bundle |-> Current(w).bundle]}
        /\ db'.runs = {x \in db.runs : IF v2 THEN ~(x.id \in Current(w).runs /\ x.dag = Current(w).dag) ELSE x.dag # Current(w).dag}
        /\ db'.shared = IF ~v2 /\ Current(w).created /\ \A dag \in Dags : db'.models[dag] # Current(w).bundle
                        THEN db.shared \ {Current(w).bundle} ELSE db.shared
    <3>. DEFINE new == Removed(db, Current(w))
    <3>1. /\ new.versions = {v \in db.versions :
            IF v2 THEN v.dag # Current(w).dag ELSE v # [dag |-> Current(w).dag, bundle |-> Current(w).bundle]}
          /\ new.runs = {x \in db.runs : IF v2 THEN ~(x.id \in Current(w).runs /\ x.dag = Current(w).dag) ELSE x.dag # Current(w).dag}
          /\ new.shared = IF ~v2 /\ Current(w).created /\ \A dag \in Dags : new.models[dag] # Current(w).bundle
                          THEN db.shared \ {Current(w).bundle} ELSE db.shared
      BY <2>0, <1>s, RemovedRows
    <3>2. db' = new BY <2>9
    <3>. HIDE DEF new
    <3>. QED BY <3>1, <3>2
  <2>4. /\ db'.shared \subseteq db.shared
        /\ (~v2 /\ Current(w).created /\ \A dag \in Dags : db'.models[dag] # Current(w).bundle) => db'.shared = db.shared \ {Current(w).bundle}
    BY <2>3
  <2>5. \A v : v \in db'.versions <=> v \in db.versions /\
            (IF v2 THEN v.dag # Current(w).dag ELSE v # [dag |-> Current(w).dag, bundle |-> Current(w).bundle])
    BY <2>3
  <2>6. \A x : x \in db'.runs <=> x \in db.runs /\
            (IF v2 THEN ~(x.id \in Current(w).runs /\ x.dag = Current(w).dag) ELSE x.dag # Current(w).dag)
    BY <2>3
  <2>. QED BY <2>2, <2>4, <2>5, <2>6
<1>v. v2' <=> v2 BY <1>e DEF v2
<1>r. RecDags(w) = RecDags(w)' \cup {Current(w).dag} BY <1>g, <1>s, <1>e, DagsPopped DEF RecDags
<1>x. /\ DOMAIN recs'[w] = 1..(Len(recs[w]) - 1) /\ DOMAIN recs[w] = 1..Len(recs[w]) /\ Len(recs[w]) \in Nat
      /\ \A i \in DOMAIN recs'[w] : recs'[w][i] = recs[w][i]
  BY <1>g, <1>s, <1>e, PopFacts, SequenceFacts
<1>y. /\ \A i \in DOMAIN recs'[w] : i \in DOMAIN recs[w] /\ i # Len(recs[w])
      /\ \A i \in DOMAIN recs[w] : i \in DOMAIN recs'[w] \/ i = Len(recs[w])
  BY <1>x
<1>h. \A q : Holds(w, q) => Holds(w, q)' \/ q = Current(w) BY <1>g, <1>s, <1>x, <1>y DEF Holds
<1>1. TwoBundles'
  BY <1>s, <1>d, <1>i DEF TwoBundles
<1>2. OwnRecords(w)'
  <2>1. \A i \in DOMAIN recs'[w] : BundleFits(w, recs[w][i])'
    BY <1>x, <1>y, <1>v, <1>i DEF WorkerInv, OwnRecords, BundleFits
  <2>2. authoring'[w] \subseteq RecDags(w)' BY <1>e, <1>r, <1>i DEF WorkerInv, OwnRecords
  <2>3. \A y \in live'[w] : y = SharedBundle \/ y.dag \in RecDags(w)' BY <1>e, <1>r, <1>i DEF WorkerInv, OwnRecords
  <2>. QED BY <1>g, <1>e, <1>x, <2>1, <2>2, <2>3 DEF OwnRecords, SharedBundle, Registering, Uncommitted
<1>3. OwnLock(w)'
  BY <1>g, <1>s, <1>e, <1>i, <1>t, AtHome DEF WorkerInv, OwnLock, StagedAfter, CanClean, CanWrite
<1>4. OwnModels(w)'
  BY <1>g, <1>s, <1>e, <1>d, <1>v, <1>i, <1>r, <1>t, AtHome DEF WorkerInv, OwnModels, xdist
<1>5. OwnHealth(w)'
  <2>. SUFFICES ASSUME w \notin FaultyWorkers PROVE OwnHealth(w)' BY DEF OwnHealth
  <2>0. Current(w).bundle = Current(w).dag BY <1>s DEF BundleFits
  <2>1. \A i, j \in DOMAIN recs[w] : recs[w][i].dag = recs[w][j].dag => i = j BY <1>i DEF WorkerInv, OwnHealth
  <2>2. \A i \in DOMAIN recs'[w] : recs'[w][i] = recs[w][i] /\ recs[w][i].dag # Current(w).dag
    BY <2>1, <1>x, <1>y, <1>s
  <2>3. \A i \in DOMAIN recs'[w] : [dag |-> recs'[w][i].dag, bundle |-> recs'[w][i].bundle] \in db'.versions
    BY <2>2, <1>y, <1>d, <1>i DEF WorkerInv, OwnHealth
  <2>4. \A d \in DagsOf[w] :
          /\ db'.models[d] \in {NoModel, d}
          /\ db'.models[d] # NoModel => d \in RecDags(w)' \/ (at'[w] = "committed" /\ cur'[w].dag = d)
    BY <2>0, <1>g, <1>s, <1>d, <1>i, <1>r, <1>t, AtHome DEF WorkerInv, OwnHealth
  <2>5. \A i, j \in DOMAIN recs'[w] : recs'[w][i].dag = recs'[w][j].dag => i = j BY <2>1, <1>x, <1>y
  <2>6. problems'[w] = {} \/ staged'[w] = "lost" BY <1>e, <1>i DEF WorkerInv, OwnHealth, StagedAfter
  <2>. QED BY <1>g, <1>e, <2>3, <2>4, <2>5, <2>6 DEF OwnHealth, Registering, Uncommitted
<1>6. OwnLive(w)'
  BY <1>g, <1>e DEF OwnLive, Registering, Uncommitted
<1>7. OwnRows(w)'
  <2>1. at'[w] = "discarding" => problems'[w] # {}
    BY <1>g, <1>e, <1>d, <1>v, <1>i DEF WorkerInv, OwnRows
  <2>2. (at'[w] = "written" /\ ~v2' /\ cur'[w].bundle \in Dags \ db'.shared) => cur'[w].created
    BY <1>g, <1>e, <1>d, <1>v, <1>i DEF WorkerInv, OwnRows
  <2>3. v2' => \A d \in DagsOf[w] : d \notin db'.shared
    BY <1>g, <1>e, <1>d, <1>v, <1>i DEF WorkerInv, OwnRows
  <2>4. ASSUME problems'[w] = {}, NEW d \in DagsOf[w]
        PROVE  /\ db'.models[d] = d => \E r \in Records : Holds(w, r)' /\ r.dag = d /\ r.bundle = d
               /\ \A v \in db'.versions : v.dag = d =>
                    \E r \in Records : Holds(w, r)' /\ r.dag = d /\ r.bundle = v.bundle
               /\ d \in db'.shared => \E r \in Records : Holds(w, r)' /\ r.bundle = d /\ r.created
               /\ \A x \in db'.runs : x.dag = d =>
                    \/ v2' /\ x.by = "airflow"
                    \/ \E r \in Records : Holds(w, r)' /\ r.dag = d /\ (v2' => x.id \in r.runs)
    <3>0. d \in Dags /\ problems[w] = {} BY <2>4, <1>e, AtHome
    <3>1. /\ db.models[d] = d => \E r \in Records : Holds(w, r) /\ r.dag = d /\ r.bundle = d
          /\ \A v \in db.versions : v.dag = d =>
               \E r \in Records : Holds(w, r) /\ r.dag = d /\ r.bundle = v.bundle
          /\ d \in db.shared => \E r \in Records : Holds(w, r) /\ r.bundle = d /\ r.created
          /\ \A x \in db.runs : x.dag = d =>
               \/ v2 /\ x.by = "airflow"
               \/ \E r \in Records : Holds(w, r) /\ r.dag = d /\ (v2 => x.id \in r.runs)
      BY <3>0, <1>i DEF WorkerInv, OwnRows
    <3>9. ~v2 => \A q \in Records : Holds(w, q) /\ q.bundle = d => q.dag = d
      BY <3>0, <1>g, <1>s, <1>i, DagAssumption DEF Holds, WorkerInv, OwnRecords, BundleFits
    <3>2. db'.models[d] = d => \E r \in Records : Holds(w, r)' /\ r.dag = d /\ r.bundle = d
      BY <3>0, <3>1, <1>s, <1>d, <1>h, DagAssumption
    <3>3. \A v \in db'.versions : v.dag = d =>
            \E r \in Records : Holds(w, r)' /\ r.dag = d /\ r.bundle = v.bundle
      <4>. SUFFICES ASSUME NEW v \in db'.versions, v.dag = d
                    PROVE  \E r \in Records : Holds(w, r)' /\ r.dag = d /\ r.bundle = v.bundle
        OBVIOUS
      <4>1. v \in db.versions /\ v \in Registrations BY <1>d, <1>o
      <4>2. PICK r \in Records : Holds(w, r) /\ r.dag = d /\ r.bundle = v.bundle BY <4>1, <3>1
      <4>3. r # Current(w)
        <5>1. v = [dag |-> r.dag, bundle |-> r.bundle] BY <4>1, <4>2 DEF Registrations
        <5>. QED BY <5>1, <4>2, <1>d
      <4>. QED BY <4>2, <4>3, <1>h
    <3>4. d \in db'.shared => \E r \in Records : Holds(w, r)' /\ r.bundle = d /\ r.created
      <4>. SUFFICES ASSUME d \in db'.shared PROVE \E r \in Records : Holds(w, r)' /\ r.bundle = d /\ r.created
        OBVIOUS
      <4>1. d \in db.shared /\ ~v2 BY <2>4, <1>d, <1>i DEF WorkerInv, OwnRows
      <4>2. PICK r \in Records : Holds(w, r) /\ r.bundle = d /\ r.created BY <4>1, <3>1
      <4>3. r # Current(w)
        <5>. SUFFICES ASSUME r = Current(w) PROVE FALSE OBVIOUS
        <5>1. Current(w).dag = d /\ Current(w).bundle = d /\ Current(w).created BY <4>1, <4>2, <3>9
        <5>2. \A dag \in Dags : db'.models[dag] # d
          <6>1. db'.models[d] # d BY <5>1, <3>0, <1>d, DagAssumption
          <6>2. \A dag \in Dags : db'.models[dag] \in {NoModel, dag, Testing} BY <1>1 DEF TwoBundles
          <6>. QED BY <6>1, <6>2, <3>0, DagAssumption
        <5>. QED BY <5>1, <5>2, <4>1, <1>d
      <4>. QED BY <4>2, <4>3, <1>h
    <3>5. \A x \in db'.runs : x.dag = d =>
            \/ v2' /\ x.by = "airflow"
            \/ \E r \in Records : Holds(w, r)' /\ r.dag = d /\ (v2' => x.id \in r.runs)
      <4>. SUFFICES ASSUME NEW y \in db'.runs, y.dag = d
                    PROVE  \/ v2 /\ y.by = "airflow"
                           \/ \E r \in Records : Holds(w, r)' /\ r.dag = d /\ (v2 => y.id \in r.runs)
        BY <1>v
      <4>1. y \in db.runs BY <1>d
      <4>2. CASE v2 /\ y.by = "airflow" BY <4>2
      <4>3. ASSUME NEW r \in Records, Holds(w, r), r.dag = d, v2 => y.id \in r.runs
            PROVE  \E q \in Records : Holds(w, q)' /\ q.dag = d /\ (v2 => y.id \in q.runs)
        <5>1. r # Current(w) BY <4>3, <1>d
        <5>. QED BY <4>3, <5>1, <1>h
      <4>. QED BY <4>1, <4>2, <4>3, <3>1
    <3>. QED BY <3>2, <3>3, <3>4, <3>5
  <2>. QED BY <2>1, <2>2, <2>3, <2>4 DEF OwnRows
<1>. QED BY <1>1, <1>2, <1>3, <1>4, <1>5, <1>6, <1>7 DEF WorkerInv

\* Only a test with faults fails to clean up, and that is reported.
LEMMA CleanupDagRaisesKeeps ==
  ASSUME DagTypeOK, DagTypeOK', DagInv, NEW w \in running, CleanupDagRaises(w)
  PROVE  TwoBundles' /\ WorkerInv(w)'
<1>t. w \in Workers BY RunningWorkers
<1>i. WorkerInv(w) /\ TwoBundles BY DEF DagInv
<1>o. /\ RecDags(w) \subseteq DagsOf[w] /\ RecDags(w) \subseteq Dags
      /\ \A x \in live[w] : x # SharedBundle => x.dag \in RecDags(w)
      /\ \A v \in db.versions : v \in Registrations /\ v.dag \in Dags /\ v.bundle \in Bundles
      /\ \A x \in db.runs : x \in Runs /\ x.dag \in Dags
  BY <1>i, OwnDags
<1>g. at[w] = "teardown" /\ recs[w] # <<>> /\ (w \in FaultyWorkers \/ (writer = w /\ ~CanClean(w)))
  BY DEF CleanupDagRaises, Move, InBody, Wants, CanWrite
<1>s. /\ Current(w) \in Records /\ Current(w).session \in Sessions(w)
      /\ Current(w) = recs[w][Len(recs[w])] /\ Len(recs[w]) \in DOMAIN recs[w]
      /\ recs[w] \in Seq(Records) /\ BundleFits(w, Current(w)) /\ Current(w).dag \in Dags
  <2>1. /\ Current(w) \in Records /\ recs[w] \in Seq(Records)
        /\ Current(w) = recs[w][Len(recs[w])] /\ Len(recs[w]) \in DOMAIN recs[w]
    BY <1>g, <1>t, CurrentRecord
  <2>2. BundleFits(w, Current(w)) BY <1>i, <2>1 DEF WorkerInv, OwnRecords
  <2>3. Current(w).dag \in Dags /\ Current(w).session \in Sessions(w) BY <2>1, <2>2 DEF BundleFits, Records
  <2>. QED BY <2>1, <2>2, <2>3
<1>e. /\ at'[w] = at[w]
      /\ cur'[w] = cur[w]
      /\ (saw'[w] <=> saw[w])
      /\ recs'[w] = SubSeq(recs[w], 1, Len(recs[w]) - 1)
      /\ persisted'[w] = persisted[w]
      /\ authoring'[w] = authoring[w] \ {Current(w).dag}
      /\ staged'[w] = StagedAfter(w)
      /\ problems'[w] = problems[w] \cup {"failed"}
      /\ live'[w] = {x \in live[w] : x.dag # Current(w).dag}
      /\ db' = db
      /\ writer' = Released(w, Current(w).session)
      /\ running' = running /\ family' = family
  BY <1>t, AtHome DEF DagTypeOK, CleanupDagRaises, Move, Report, Forget, local, Popped
<1>v. v2' <=> v2 BY <1>e DEF v2
<1>r. RecDags(w) = RecDags(w)' \cup {Current(w).dag} BY <1>g, <1>s, <1>e, DagsPopped DEF RecDags
<1>x. /\ DOMAIN recs'[w] = 1..(Len(recs[w]) - 1) /\ DOMAIN recs[w] = 1..Len(recs[w]) /\ Len(recs[w]) \in Nat
      /\ \A i \in DOMAIN recs'[w] : recs'[w][i] = recs[w][i]
  BY <1>g, <1>s, <1>e, PopFacts, SequenceFacts
<1>y. /\ \A i \in DOMAIN recs'[w] : i \in DOMAIN recs[w] /\ i # Len(recs[w])
      /\ \A i \in DOMAIN recs[w] : i \in DOMAIN recs'[w] \/ i = Len(recs[w])
  BY <1>x
<1>h. \A q : Holds(w, q) => Holds(w, q)' \/ q = Current(w) BY <1>g, <1>s, <1>x, <1>y DEF Holds
<1>m. w \in FaultyWorkers
  BY <1>g, <1>s, <1>i DEF WorkerInv, OwnLock, CanClean, CanWrite, Sessions
<1>1. TwoBundles' BY <1>g, <1>e, <1>i, AtHome DEF TwoBundles, Databases, BundleFits, Records
<1>2. OwnRecords(w)'
  <2>1. \A i \in DOMAIN recs'[w] : BundleFits(w, recs[w][i])'
    BY <1>x, <1>y, <1>v, <1>i DEF WorkerInv, OwnRecords, BundleFits
  <2>2. authoring'[w] \subseteq RecDags(w)' BY <1>e, <1>r, <1>i DEF WorkerInv, OwnRecords
  <2>3. \A y \in live'[w] : y = SharedBundle \/ y.dag \in RecDags(w)' BY <1>e, <1>r, <1>i DEF WorkerInv, OwnRecords
  <2>. QED BY <1>g, <1>e, <1>x, <2>1, <2>2, <2>3 DEF OwnRecords, SharedBundle, Registering, Uncommitted
<1>3. OwnLock(w)'
  BY <1>g, <1>e, <1>v, <1>i, <1>t, AtHome, DagAssumption DEF WorkerInv, OwnLock, Registering, Uncommitted, Released, Committed, Discarded, StagedAfter, CanWrite, CanClean, Fresh, Retries, SharedRow, HasDag, InBody, Sessions, BundleFits
<1>4. OwnModels(w)'
  BY <1>g, <1>e, <1>v, <1>i, <1>r, <1>t, AtHome DEF WorkerInv, OwnModels, xdist
<1>5. OwnHealth(w)'
  BY <1>m DEF OwnHealth
<1>6. OwnLive(w)'
  BY <1>g, <1>e DEF OwnLive, Registering, Uncommitted
<1>7. OwnRows(w)'
  BY <1>g, <1>e, <1>v, <1>i, <1>t, AtHome, DagAssumption DEF WorkerInv, OwnRows, Registering, Uncommitted, Holds, OwnRecords, OwnLock, OwnLive, BundleFits, Databases
<1>. QED BY <1>1, <1>2, <1>3, <1>4, <1>5, <1>6, <1>7 DEF WorkerInv

\* The lent session's end gives the lock back.
LEMMA NextTestKeeps ==
  ASSUME DagTypeOK, DagTypeOK', DagInv, NEW w \in running, NextTest(w)
  PROVE  TwoBundles' /\ WorkerInv(w)'
<1>t. w \in Workers BY RunningWorkers
<1>i. WorkerInv(w) /\ TwoBundles BY DEF DagInv
<1>g. at[w] = "teardown" /\ recs[w] = <<>>
  BY DEF NextTest, Move, InBody, Wants, CanWrite
<1>e. /\ at'[w] = "body"
      /\ cur'[w] = cur[w]
      /\ (saw'[w] <=> saw[w])
      /\ recs'[w] = recs[w]
      /\ persisted'[w] = persisted[w]
      /\ authoring'[w] = authoring[w]
      /\ staged'[w] = (IF staged[w] = "lost" THEN "lost" ELSE "none")
      /\ problems'[w] = problems[w]
      /\ live'[w] = {}
      /\ db' = db
      /\ writer' = (IF writer = w THEN Nobody ELSE writer)
      /\ running' = running /\ family' = family
  BY <1>t, AtHome DEF DagTypeOK, NextTest, Move, Report, Forget, local
<1>v. v2' <=> v2 BY <1>e DEF v2
<1>1. TwoBundles' BY <1>g, <1>e, <1>i, AtHome DEF TwoBundles, Databases, BundleFits, Records
<1>2. OwnRecords(w)'
  BY <1>g, <1>e, <1>v, <1>i, <1>t, AtHome, DagAssumption DEF WorkerInv, OwnRecords, Registering, Uncommitted, RecDags, DagsIn, BundleFits
<1>3. OwnLock(w)'
  BY <1>g, <1>e, <1>v, <1>i, <1>t, AtHome, DagAssumption DEF WorkerInv, OwnLock, Registering, Uncommitted, Released, Committed, Discarded, StagedAfter, CanWrite, CanClean, Fresh, Retries, SharedRow, HasDag, InBody, Sessions, BundleFits
<1>4. OwnModels(w)'
  BY <1>g, <1>e, <1>v, <1>i, <1>t, AtHome, DagAssumption DEF WorkerInv, OwnModels, Registering, Uncommitted, RecDags, DagsIn, OwnRecords, BundleFits, Databases, xdist
<1>5. OwnHealth(w)'
  BY <1>g, <1>e, <1>v, <1>i, <1>t, AtHome, DagAssumption DEF WorkerInv, OwnHealth, Registering, Uncommitted, RecDags, DagsIn, Fresh, SharedRow, OwnRecords, OwnLock, OwnModels, BundleFits, Discarded, Committed, Sessions, Wants, CanWrite, HasDag, InBody, StagedAfter, CanClean
<1>6. OwnLive(w)'
  BY <1>g, <1>e, <1>v, <1>i, <1>t, AtHome, DagAssumption DEF WorkerInv, OwnLive, Registering, Uncommitted, RecDags, DagsIn, OwnRecords, BundleFits, Databases, Records, SharedBundle
<1>7. OwnRows(w)'
  BY <1>g, <1>e, <1>v, <1>i, <1>t, AtHome, DagAssumption DEF WorkerInv, OwnRows, Registering, Uncommitted, Holds, OwnRecords, OwnLock, OwnLive, BundleFits, Databases
<1>. QED BY <1>1, <1>2, <1>3, <1>4, <1>5, <1>6, <1>7 DEF WorkerInv

-----------------------------------------------------------------------------
(* The theorem, and what it gives *)

\* A step of a worker keeps its own part and leaves the others theirs.
LEMMA StepKeeps ==
  ASSUME DagTypeOK, DagTypeOK', DagInv, NEW w \in running,
         Register(w) \/ Body(w) \/ Teardown(w)
  PROVE  DagInv'
<1>1. TwoBundles' /\ WorkerInv(w)'
  BY EnterKeeps, EnterRefusedKeeps, EnterReplacingKeeps, PurgeRaisesKeeps, AuthoringRaisesKeeps,
     ReadSharedKeeps, WriteRowsKeeps, RetrySyncKeeps, CommitRowsKeeps, LoadSerializedKeeps,
     PersistRaisesKeeps, DiscardKeeps, InterruptedKeeps, CreateRunKeeps, CreateRunRaisesKeeps,
     AirflowRunKeeps, TestDeletesRunKeeps, EnsureTestingKeeps, DriftBundleKeeps, ResyncKeeps,
     ResyncRaisesKeeps, StageKeeps, FlushStagedKeeps, EndTestKeeps, CleanupDagKeeps,
     CleanupDagRaisesKeeps, NextTestKeeps
  DEF Register, Body, Teardown
<1>2. ASSUME NEW u \in running, u # w PROVE WorkerInv(u)'
  <2>1. WorkerInv(u) BY DEF DagInv
  <2>2. Untouched(u) BY <1>2, OthersUntouched
  <2>. QED BY <2>1, <2>2, UntouchedKeeps
<1>3. running' = running
  BY DEF Register, Body, Teardown, Enter, EnterRefused, EnterReplacing, PurgeRaises, AuthoringRaises,
     ReadShared, WriteRows, RetrySync, CommitRows, LoadSerialized, PersistRaises, Discard, Interrupted,
     CreateRun, CreateRunRaises, AirflowRun, TestDeletesRun, EnsureTesting, DriftBundle, Resync,
     ResyncRaises, Stage, FlushStaged, EndTest, CleanupDag, CleanupDagRaises, NextTest
<1>4. \A u \in running' : WorkerInv(u)' BY <1>1, <1>2, <1>3
<1>. QED BY <1>1, <1>4 DEF DagInv

\* DagInv is an invariant, whatever the workers, their Dags and their tests do.
THEOREM DagInvariant == DagSpec => [](DagTypeOK /\ DagInv)
<1>1. DagInit => DagTypeOK /\ DagInv
  <2>. SUFFICES ASSUME DagInit PROVE DagTypeOK /\ DagInv OBVIOUS
  <2>1. DagTypeOK BY DagAssumption DEF DagInit, DagTypeOK, Databases, Bundles
  <2>2. TwoBundles BY DEF DagInit, TwoBundles
  <2>3. ASSUME NEW w \in running PROVE WorkerInv(w)
    <3>0. w \in Workers /\ DagsOf[w] \subseteq Dags BY <2>1, AtHome
    <3>1. /\ at[w] = "body" /\ recs[w] = <<>> /\ authoring[w] = {} /\ persisted[w] = {} /\ live[w] = {}
          /\ staged[w] = "none" /\ problems[w] = {} /\ writer = Nobody /\ w # Nobody
          /\ db.versions = {} /\ db.runs = {} /\ db.shared = {} /\ \A d \in Dags : db.models[d] = NoModel
      BY <3>0, DagAssumption DEF DagInit
    <3>2. RecDags(w) = {} BY <3>1 DEF RecDags, DagsIn
    <3>3. OwnRecords(w) BY <3>1, <3>2 DEF OwnRecords, Registering, Uncommitted
    <3>4. OwnLock(w) BY <3>1 DEF OwnLock
    <3>5. OwnModels(w) BY <3>0, <3>1, <3>2 DEF OwnModels
    <3>6. OwnHealth(w) BY <3>0, <3>1 DEF OwnHealth, Registering, Uncommitted
    <3>7. OwnLive(w) BY <3>1, <3>2 DEF OwnLive, Registering, Uncommitted
    <3>8. OwnRows(w) BY <3>0, <3>1, DagAssumption DEF OwnRows
    <3>. QED BY <3>3, <3>4, <3>5, <3>6, <3>7, <3>8 DEF WorkerInv
  <2>. QED BY <2>1, <2>2, <2>3 DEF DagInv
<1>2. DagTypeOK /\ DagInv /\ [DagNext]_dagVars => (DagTypeOK /\ DagInv)'
  <2>. SUFFICES ASSUME DagTypeOK, DagInv, [DagNext]_dagVars PROVE (DagTypeOK /\ DagInv)' OBVIOUS
  <2>1. DagTypeOK' BY DagTyped
  <2>2. CASE UNCHANGED dagVars
    <3>1. TwoBundles' BY <2>2 DEF DagInv, TwoBundles, dagVars
    <3>2. ASSUME NEW w \in running PROVE WorkerInv(w)'
      <4>1. Untouched(w) BY <2>2 DEF Untouched, SameAtHome, SameRows, dagVars, local
      <4>2. WorkerInv(w) BY DEF DagInv
      <4>. QED BY <2>1, <4>1, <4>2, UntouchedKeeps
    <3>3. running' = running BY <2>2 DEF dagVars
    <3>. QED BY <2>1, <3>1, <3>2, <3>3 DEF DagInv
  <2>3. CASE DagNext
    <3>1. PICK w \in running : Register(w) \/ Body(w) \/ Teardown(w) BY <2>3 DEF DagNext
    <3>. QED BY <2>1, <3>1, StepKeeps
  <2>. QED BY <2>1, <2>2, <2>3
<1>. QED BY <1>1, <1>2, PTL DEF DagSpec

\* The rows a running test relies on stay in the database, whatever the other
\* workers' cleanups delete by ids that were reused: OwnLive, of every worker.
THEOREM RegisteredRowsStay == DagSpec => []LiveRowsStay
<1>1. DagTypeOK /\ DagInv => LiveRowsStay
  BY DEF DagInv, WorkerInv, OwnLive, LiveRowsStay
<1>. QED BY <1>1, DagInvariant, PTL

\* A teardown leaves no authoring Dag, and one after which nothing was reported
\* no row of the worker's Dags: with no record left, nothing answers for a row.
THEOREM TeardownLeavesNothing == DagSpec => []NoDagLeftovers
<1>1. ASSUME DagTypeOK, DagInv PROVE NoDagLeftovers
  <2>1. ASSUME NEW w \in running, at[w] = "teardown", recs[w] = <<>>
        PROVE  authoring[w] = {} /\ (problems[w] = {} => LeavesNoRows(w))
    <3>0. WorkerInv(w) /\ TwoBundles BY <1>1 DEF DagInv
    <3>1. RecDags(w) = {} BY <2>1 DEF RecDags, DagsIn
    <3>2. authoring[w] = {} BY <3>0, <3>1 DEF WorkerInv, OwnRecords
    <3>3. \A r : ~Holds(w, r) BY <2>1 DEF Holds
    <3>4. ASSUME problems[w] = {} PROVE LeavesNoRows(w)
      <4>1. ASSUME NEW dag \in DagsOf[w]
            PROVE  /\ db.models[dag] # dag /\ \A v \in db.versions : v.dag # dag
                   /\ dag \notin db.shared /\ \A x \in db.runs : x.dag = dag => v2 /\ x.by = "airflow"
        BY <3>0, <3>3, <3>4 DEF WorkerInv, OwnRows
      <4>2. \A dag \in DagsOf[w] : db.models[dag] \in {NoModel, Testing}
        BY <1>1, <3>0, <4>1, AtHome DEF TwoBundles
      <4>. QED BY <4>1, <4>2 DEF LeavesNoRows
    <3>. QED BY <3>2, <3>4
  <2>. QED BY <1>1, <2>1 DEF NoDagLeftovers
<1>. QED BY <1>1, DagInvariant, PTL

\* Nobody's test fails, is refused or loses what it staged through another's
\* cleanups: OwnHealth, OwnModels and OwnLock, of every worker.
THEOREM TestsStayUndisturbed == DagSpec => []TestsUndisturbed
<1>1. ASSUME DagTypeOK, DagInv PROVE TestsUndisturbed
  <2>1. HealthyTestsPass BY <1>1 DEF DagInv, WorkerInv, OwnHealth, HealthyTestsPass
  <2>2. SerialNeverRefused BY <1>1 DEF DagInv, WorkerInv, OwnModels, SerialNeverRefused, xdist
  <2>3. NothingLostSilently BY <1>1 DEF DagInv, WorkerInv, OwnLock, NothingLostSilently
  <2>. QED BY <2>1, <2>2, <2>3 DEF TestsUndisturbed
<1>. QED BY <1>1, DagInvariant, PTL

-----------------------------------------------------------------------------
(* DriveDagRun *)

\* No task instance is the placeholder.
LEMMA NoTiIsNone == NoTi \notin Instances
BY DriveAssumption DEF NoTi, Instances, Tasks

\* What a task instance is made of.
LEMMA InstanceParts ==
  ASSUME NEW i \in Instances
  PROVE  /\ Task(i) \in Tasks /\ i[1] = Task(i)
         /\ i[1] \in Int /\ i[2] \in Int
BY DriveAssumption DEF Instances, Tasks, Task

\* What the trigger rules write is "none" or a terminal state.
LEMMA FlaggedStates ==
  ASSUME NEW i
  PROVE  Flagged(i) \in {"none", "upstream_failed", "skipped"}
BY DEF Flagged

\* A marked row is a row.
LEMMA MarkedIsTyped ==
  ASSUME DriveTypeOK
  PROVE  /\ Marked \in [Instances -> States]
         /\ \A i \in Instances : Marked[i] = IF state[i] = "none" /\ ~Met(i) THEN Flagged(i) ELSE state[i]
BY FlaggedStates DEF Marked, DriveTypeOK, States, Terminal

\* The row after a body is a row.
LEMMA AfterBodyIsTyped ==
  ASSUME DriveTypeOK, NEW i, NEW outcome \in Outcomes, NEW branched
  PROVE  /\ AfterBody(i, outcome, branched) \in [Instances -> States]
         /\ \A j \in Instances : AfterBody(i, outcome, branched)[j]
              = IF j = i THEN outcome
                ELSE IF state[j] = "none" /\ Task(j) \in branched THEN "skipped" ELSE state[j]
BY DEF AfterBody, DriveTypeOK, States, Terminal, Outcomes, Parked

\* An instance is at hand from its dispatch until settle has returned.
AtHand ==
  /\ step \in {"dispatch", "resume", "resumed", "await", "look"} => ti \in attempted
  /\ step \in {"open", "pick", "settle", "snapshot", "done"} => ti = NoTi

\* ... and AtHand is kept.
LEMMA DriveAtHand == DriveTypeOK /\ AtHand /\ [DriveNext]_driveVars => AtHand'
<1>. SUFFICES ASSUME DriveTypeOK, AtHand, [DriveNext]_driveVars PROVE AtHand' OBVIOUS
<1>. USE DEF AtHand
<1>1. CASE VisitSettled \/ Expand \/ ExpandFails \/ Blocked \/ Dispatch
  BY <1>1 DEF VisitSettled, Expand, ExpandFails, Blocked, Dispatch, Next1, ExpandsNow, Runnable
<1>2. CASE OpenRuntime \/ CloseRuntime \/ ResumeDeferred \/ TriggerRaises \/ Snapshot
  BY <1>2 DEF OpenRuntime, CloseRuntime, ResumeDeferred, TriggerRaises, Snapshot, driver, Returned
<1>3. CASE RunBody BY <1>3 DEF RunBody, Returned
<1>4. CASE Queue \/ QueueRaises \/ Heartbeat \/ LookSettled \/ LookAgain \/ Deadline
  BY <1>4 DEF Queue, QueueRaises, Heartbeat, LookSettled, LookAgain, Deadline, Returned, driver
<1>5. CASE EndOfWalk BY <1>5 DEF EndOfWalk, driver
<1>6. CASE UpdateState BY <1>6 DEF UpdateState
<1>7. CASE Abort \/ Clock \/ WorkerStarts \/ WorkerReports \/ WorkerExits
  BY <1>7 DEF Abort, Clock, WorkerStarts, WorkerReports, WorkerExits, driver
<1>8. CASE UNCHANGED driveVars BY <1>8 DEF driveVars, driver
<1>. QED BY <1>1, <1>2, <1>3, <1>4, <1>5, <1>6, <1>7, <1>8 DEF DriveNext, Drive, Ended

\* Every variable of a drive keeps its type.
LEMMA DriveTyped == DriveTypeOK /\ AtHand /\ [DriveNext]_driveVars => DriveTypeOK'
<1>. SUFFICES ASSUME DriveTypeOK, AtHand, [DriveNext]_driveVars PROVE DriveTypeOK' OBVIOUS
<1>. USE DEF DriveTypeOK, AtHand
<1>t. ti \in Instances \cup {NoTi} OBVIOUS
<1>1. CASE VisitSettled BY <1>1 DEF VisitSettled, call, workers, driver
<1>2. CASE Expand
  <2>1. PICK i \in Instances, count \in 0..MaxMap, missing \in BOOLEAN :
          /\ expansion_attempted' = expansion_attempted \cup {Task(i)}
          /\ state' = [j \in Instances |->
            IF Task(j) # Task(i) THEN state[j]
            ELSE IF count = 0 THEN IF j # i THEN "absent" ELSE IF missing THEN "upstream_failed" ELSE "skipped"
            ELSE IF j[2] \in 0..(count - 1) THEN "none" ELSE "absent"]
    BY <1>2 DEF Expand
  <2>2. state' \in [Instances -> States] BY <2>1 DEF States, Terminal
  <2>3. expansion_attempted' \subseteq Tasks BY <2>1, InstanceParts
  <2>. QED BY <1>2, <2>2, <2>3 DEF Expand, call, workers, driver
<1>3. CASE ExpandFails
  <2>1. PICK i \in Instances :
          /\ expansion_attempted' = expansion_attempted \cup {Task(i)}
          /\ attempted' = attempted \cup {i}
          /\ unexpanded' = IF Settled(i) THEN unexpanded \cup {Task(i)} ELSE unexpanded
    BY <1>3 DEF ExpandFails
  <2>2. Task(i) \in Tasks BY InstanceParts
  <2>. QED BY <1>3, <2>1, <2>2 DEF ExpandFails, call, workers
<1>4. CASE Blocked
  <2>1. PICK i \in Instances :
          attempted' = attempted \cup {i} /\ state' = [state EXCEPT ![i] = Flagged(i)]
    BY <1>4 DEF Blocked
  <2>2. Flagged(i) \in States BY FlaggedStates DEF States, Terminal
  <2>. QED BY <1>4, <2>1, <2>2 DEF Blocked, call, workers
<1>5. CASE Dispatch BY <1>5 DEF Dispatch, call, workers
<1>6. CASE OpenRuntime BY <1>6 DEF OpenRuntime, driver, workers
<1>7. CASE CloseRuntime BY <1>7 DEF CloseRuntime, driver, workers
<1>8. CASE ResumeDeferred
  <2>1. state' \in [Instances -> States] BY <1>8 DEF ResumeDeferred, States
  <2>. QED BY <1>8, <2>1 DEF ResumeDeferred, call, driver, workers
<1>9. CASE TriggerRaises
  <2>1. ti \in Instances BY <1>9 DEF TriggerRaises
  <2>. QED BY <1>9, <2>1 DEF TriggerRaises, call, Returned
<1>10. CASE Snapshot BY <1>10 DEF Snapshot, call, driver, workers
<1>11. CASE RunBody
  <2>1. ti \in Instances BY <1>11 DEF RunBody
  <2>2. PICK outcome \in Outcomes, branched \in SUBSET Tasks :
          /\ Attempt(outcome, branched)
          /\ IF outcome = "deferred" /\ triggerer /\ step = "dispatch"
             THEN step' = "resume" /\ UNCHANGED <<ti, errors, executed>>
             ELSE Returned(Fails(outcome), outcome)
    BY <1>11 DEF RunBody
  <2>3. state' \in [Instances -> States] BY <2>2, AfterBodyIsTyped DEF Attempt
  <2>4. ran' \subseteq Instances /\ raised' \subseteq Instances BY <2>1, <2>2 DEF Attempt
  <2>5. /\ step' \in {"resume", "pick"}
        /\ ti' \in Instances \cup {NoTi}
        /\ errors' \subseteq Instances /\ executed' \subseteq Instances
    BY <2>1, <2>2 DEF Returned
  <2>. QED BY <1>11, <2>3, <2>4, <2>5 DEF RunBody, call
<1>12. CASE Queue
  <2>1. ti \in Instances BY <1>12 DEF Queue
  <2>. QED BY <1>12, <2>1 DEF Queue, call, States, InFlight
<1>13. CASE QueueRaises
  <2>1. ti \in Instances BY <1>13 DEF QueueRaises
  <2>. QED BY <1>13, <2>1 DEF QueueRaises, Returned, call, States, InFlight
<1>14. CASE Heartbeat BY <1>14 DEF Heartbeat, call
<1>15. CASE LookSettled
  <2>1. ti \in Instances BY <1>15 DEF LookSettled
  <2>. QED BY <1>15, <2>1 DEF LookSettled, Returned, call, workers
<1>16. CASE LookAgain BY <1>16 DEF LookAgain, call, driver, workers
<1>17. CASE Deadline BY <1>17 DEF Deadline, call, driver, workers
<1>18. CASE EndOfWalk BY <1>18 DEF EndOfWalk, call, driver, workers
<1>19. CASE UpdateState
  <2>1. state' \in [Instances -> States] BY <1>19, MarkedIsTyped DEF UpdateState
  <2>. QED BY <1>19, <2>1, MarkedIsTyped DEF UpdateState, RunState, call, workers
<1>20. CASE Abort BY <1>20 DEF Abort, call, driver, workers
<1>21. CASE Clock BY <1>21 DEF Clock, call, workers
<1>22. CASE WorkerStarts BY <1>22 DEF WorkerStarts, call, driver, States, InFlight
<1>23. CASE WorkerReports
  <2>1. PICK i \in working, outcome \in Outcomes, branched \in SUBSET Tasks :
          /\ state' = AfterBody(i, outcome, branched)
          /\ raised' = IF Fails(outcome) THEN raised \cup {i} ELSE raised
    BY <1>23 DEF WorkerReports
  <2>2. state' \in [Instances -> States] BY <2>1, AfterBodyIsTyped
  <2>3. raised' \subseteq Instances BY <2>1
  <2>. QED BY <1>23, <2>2, <2>3 DEF WorkerReports, call, driver
<1>24. CASE WorkerExits BY <1>24 DEF WorkerExits, call, driver
<1>25. CASE UNCHANGED driveVars BY <1>25 DEF driveVars, call, driver, workers
<1>. QED BY <1>1, <1>2, <1>3, <1>4, <1>5, <1>6, <1>7, <1>8, <1>9, <1>10, <1>11, <1>12, <1>13,
         <1>14, <1>15, <1>16, <1>17, <1>18, <1>19, <1>20, <1>21, <1>22, <1>23, <1>24, <1>25
     DEF DriveNext, Drive, Ended

-----------------------------------------------------------------------------
(* Every instance is driven *)

Gone == Terminal \cup Parked \cup InFlight

Over == attempted \ {ti}

\* What alone may leave an instance undriven behind the walk.
Excuse == unexpanded # {} \/ \E j \in Over : state[j] \in Parked \cup InFlight

TurnsOver == \A i \in Over : state[i] \in Gone \/ (state[i] = "none" /\ Excuse)

HandState ==
  /\ step = "dispatch" => state[ti] = "none"
  /\ step = "resume" => state[ti] = "deferred"
  /\ step \in {"await", "look"} => state[ti] \in Gone

Scheduled ==
  \A i \in Instances : state[i] = "scheduled" => i = ti /\ step \in {"resumed", "aborted"}

WorkingInv ==
  /\ working \subseteq attempted
  /\ step = "dispatch" => ti \notin working
  /\ \A i \in working \ {ti} : state[i] \notin InFlight

\* The indexed instances of a mapped task come with its expansion, and no
\* instance goes once it was attempted.
Presence ==
  /\ \A i \in attempted : state[i] # "absent"
  /\ \A i \in Instances :
       (Task(i) \in graph.mapped \ expansion_attempted /\ i[2] # -1) => state[i] = "absent"

Visited == step \in {"settle", "snapshot", "done"} => \A i \in Instances : state[i] # "absent" => i \in attempted

DriveInv == AtHand /\ TurnsOver /\ HandState /\ Scheduled /\ WorkingInv /\ Presence /\ Visited

\* The turns that are over stay over in a step that moves none of them but from
\* "none" to what an update writes.
LEMMA TurnsStayOver ==
  ASSUME TurnsOver,
         Over \subseteq Over', unexpanded \subseteq unexpanded',
         \A j \in Over : state'[j] = state[j]
           \/ (state[j] = "none" /\ state'[j] \in {"skipped", "upstream_failed"}),
         \A j \in Over' \ Over : state'[j] \in Gone \/ (state'[j] = "none" /\ (Excuse \/ Excuse'))
  PROVE  TurnsOver'
<1>1. "none" \notin Parked \cup InFlight /\ {"skipped", "upstream_failed"} \subseteq Gone
  BY DEF Parked, InFlight, Gone, Terminal
<1>2. Excuse => Excuse' BY <1>1 DEF Excuse
<1>3. ASSUME NEW i \in Over' PROVE state'[i] \in Gone \/ (state'[i] = "none" /\ Excuse')
  <2>1. CASE i \in Over BY <2>1, <1>1, <1>2 DEF TurnsOver
  <2>2. CASE i \notin Over BY <2>2, <1>2
  <2>. QED BY <2>1, <2>2
<1>. QED BY <1>3 DEF TurnsOver, Gone

\* An unmet rule that flags nothing waits for an upstream that is not terminal;
\* in topological order that one had its turn.
LEMMA UpstreamHadItsTurn ==
  ASSUME DriveTypeOK, AtHand, TurnsOver, NEW i \in Instances, Next1(i), ~Settled(i)
  PROVE  Excuse
<1>1. PICK u \in Upstream(i) : state[u] \notin Terminal BY DEF Settled
<1>2. u \in Instances /\ state[u] # "absent" /\ Task(u) \in graph.up[Task(i)]
  BY <1>1 DEF Upstream, Of, Present
<1>3. Task(u) < Task(i) BY <1>2, InstanceParts, DriveAssumption DEF Tasks, DriveTypeOK
<1>4. Before(u, i) BY <1>2, <1>3, InstanceParts DEF Before
<1>5. u \in attempted BY <1>2, <1>4 DEF Next1, Pending
<1>6. ti = NoTi BY DEF Next1, AtHand
<1>7. u \in Over BY <1>2, <1>5, <1>6, NoTiIsNone DEF Over
<1>. QED BY <1>1, <1>7 DEF TurnsOver, Gone, Excuse

\* A task whose upstream is not met and that no trigger rule flags still waits for it.
LEMMA NothingFlagged ==
  ASSUME NEW i, ~Met(i), Flagged(i) = "none", DriveTypeOK
  PROVE  ~Settled(i)
<1>1. CASE Task(i) \in graph.all_done BY <1>1 DEF Met
<1>2. CASE Task(i) \notin graph.all_done
  <2>1. PICK u \in Upstream(i) : state[u] # "success" BY <1>2 DEF Met
  <2>2. state[u] \notin {"failed", "upstream_failed", "skipped"} BY <1>2, <2>1 DEF Flagged
  <2>. QED BY <2>1, <2>2 DEF Settled, Terminal
<1>. QED BY <1>1, <1>2

\* HandState is kept.
LEMMA DriveHandState ==
  DriveTypeOK /\ AtHand /\ HandState /\ [DriveNext]_driveVars => HandState'
<1>. SUFFICES ASSUME DriveTypeOK, AtHand, HandState, [DriveNext]_driveVars PROVE HandState' OBVIOUS
<1>. USE DEF HandState
<1>s. "queued" \in Gone /\ "none" \notin Gone BY DEF Gone, InFlight, Terminal, Parked
<1>1. CASE VisitSettled \/ Expand \/ ExpandFails \/ Blocked
  BY <1>1 DEF VisitSettled, Expand, ExpandFails, Blocked, Next1, ExpandsNow, Runnable
<1>2. CASE Dispatch BY <1>2 DEF Dispatch, Runnable
<1>3. CASE OpenRuntime \/ CloseRuntime \/ ResumeDeferred \/ TriggerRaises \/ Snapshot
  BY <1>3 DEF OpenRuntime, CloseRuntime, ResumeDeferred, TriggerRaises, Snapshot, driver, Returned
<1>4. CASE RunBody
  <2>1. PICK outcome \in Outcomes, branched \in SUBSET Tasks :
          /\ Attempt(outcome, branched)
          /\ IF outcome = "deferred" /\ triggerer /\ step = "dispatch"
             THEN step' = "resume" /\ UNCHANGED <<ti, errors, executed>>
             ELSE Returned(Fails(outcome), outcome)
    BY <1>4 DEF RunBody
  <2>2. ti \in Instances BY <1>4 DEF RunBody, AtHand, DriveTypeOK
  <2>3. state'[ti] = outcome BY <2>1, <2>2, AfterBodyIsTyped DEF Attempt
  <2>. QED BY <2>1, <2>3 DEF Returned
<1>5. CASE Queue
  <2>1. ti \in Instances BY <1>5 DEF Queue, AtHand, DriveTypeOK
  <2>. QED BY <1>5, <1>s, <2>1 DEF Queue, DriveTypeOK
<1>6. CASE QueueRaises \/ LookSettled \/ Deadline BY <1>6 DEF QueueRaises, LookSettled, Deadline, Returned
<1>7. CASE Heartbeat \/ LookAgain \/ Clock BY <1>7 DEF Heartbeat, LookAgain, Clock, driver
<1>8. CASE EndOfWalk \/ Abort BY <1>8 DEF EndOfWalk, Abort
<1>9. CASE UpdateState BY <1>9 DEF UpdateState
<1>10. CASE WorkerStarts
  <2>1. PICK i \in working : state' = [state EXCEPT ![i] = "running"] BY <1>10 DEF WorkerStarts
  <2>2. ti \in Instances BY <1>10 DEF WorkerStarts, Waiting, AtHand, DriveTypeOK
  <2>3. state'[ti] \in Gone BY <1>10, <2>1, <2>2 DEF WorkerStarts, Waiting, Gone, InFlight, DriveTypeOK
  <2>. QED BY <1>10, <2>3 DEF WorkerStarts, Waiting, driver
<1>11. CASE WorkerReports
  <2>1. PICK i \in working, outcome \in Outcomes, branched \in SUBSET Tasks :
          state' = AfterBody(i, outcome, branched)
    BY <1>11 DEF WorkerReports
  <2>2. ti \in Instances BY <1>11 DEF WorkerReports, Waiting, AtHand, DriveTypeOK
  <2>3. state[ti] \in Gone BY <1>11 DEF WorkerReports, Waiting
  <2>6. state[ti] # "none" BY <2>3, <1>s
  <2>7. \A j \in Instances : state'[j] = IF j = i THEN outcome
          ELSE IF state[j] = "none" /\ Task(j) \in branched THEN "skipped" ELSE state[j]
    BY <2>1, AfterBodyIsTyped
  <2>4. state'[ti] = outcome \/ state'[ti] = state[ti]
    BY <2>2, <2>6, <2>7
  <2>5. outcome \in Gone BY DEF Outcomes, Gone, Terminal, Parked
  <2>. QED BY <1>11, <2>3, <2>4, <2>5 DEF WorkerReports, Waiting, driver
<1>12. CASE WorkerExits BY <1>12 DEF WorkerExits, driver
<1>13. CASE UNCHANGED driveVars BY <1>13 DEF driveVars, driver
<1>. QED BY <1>1, <1>2, <1>3, <1>4, <1>5, <1>6, <1>7, <1>8, <1>9, <1>10, <1>11, <1>12, <1>13
     DEF DriveNext, Drive, Ended

\* Scheduled is kept.
LEMMA DriveScheduled ==
  DriveTypeOK /\ AtHand /\ Scheduled /\ [DriveNext]_driveVars => Scheduled'
<1>. SUFFICES ASSUME DriveTypeOK, AtHand, Scheduled, [DriveNext]_driveVars PROVE Scheduled' OBVIOUS
<1>. USE DEF Scheduled, DriveTypeOK
<1>1. CASE VisitSettled \/ ExpandFails
  BY <1>1 DEF VisitSettled, ExpandFails, Next1, ExpandsNow
<1>2. CASE Expand
  <2>1. \A j \in Instances : state'[j] = "scheduled" => state[j] = "scheduled" BY <1>2 DEF Expand
  <2>. QED BY <1>2, <2>1 DEF Expand, Next1, ExpandsNow
<1>3. CASE Blocked
  <2>1. \A j \in Instances : state'[j] = "scheduled" => state[j] = "scheduled"
    BY <1>3, FlaggedStates DEF Blocked
  <2>. QED BY <1>3, <2>1 DEF Blocked, Next1, Runnable
<1>4. CASE Dispatch BY <1>4 DEF Dispatch, Runnable, Next1
<1>5. CASE OpenRuntime \/ CloseRuntime \/ Snapshot \/ TriggerRaises
  BY <1>5 DEF OpenRuntime, CloseRuntime, Snapshot, TriggerRaises, driver
<1>6. CASE ResumeDeferred BY <1>6 DEF ResumeDeferred, driver
<1>7. CASE RunBody
  <2>1. PICK outcome \in Outcomes, branched \in SUBSET Tasks :
          /\ Attempt(outcome, branched)
          /\ IF outcome = "deferred" /\ triggerer /\ step = "dispatch"
             THEN step' = "resume" /\ UNCHANGED <<ti, errors, executed>>
             ELSE Returned(Fails(outcome), outcome)
    BY <1>7 DEF RunBody
  <2>2. outcome # "scheduled" BY DEF Outcomes, Parked
  <2>3. \A j \in Instances : state'[j] = "scheduled" => j # ti /\ state[j] = "scheduled"
    BY <2>1, <2>2, AfterBodyIsTyped DEF Attempt
  <2>. QED BY <2>3
<1>8. CASE Queue \/ QueueRaises
  BY <1>8 DEF Queue, QueueRaises, Returned
<1>9. CASE Heartbeat \/ LookSettled \/ LookAgain \/ Deadline \/ Clock \/ EndOfWalk \/ Abort
  BY <1>9 DEF Heartbeat, LookSettled, LookAgain, Deadline, Clock, EndOfWalk, Abort, Returned, driver
<1>10. CASE UpdateState
  <2>1. \A j \in Instances : state'[j] = "scheduled" => state[j] = "scheduled"
    BY <1>10, MarkedIsTyped, FlaggedStates DEF UpdateState
  <2>. QED BY <1>10, <2>1 DEF UpdateState
<1>11. CASE WorkerStarts BY <1>11 DEF WorkerStarts, Waiting, driver
<1>12. CASE WorkerReports
  <2>1. PICK i \in working, outcome \in Outcomes, branched \in SUBSET Tasks :
          state' = AfterBody(i, outcome, branched)
    BY <1>12 DEF WorkerReports
  <2>2. outcome # "scheduled" BY DEF Outcomes, Parked
  <2>3. \A j \in Instances : state'[j] = "scheduled" => state[j] = "scheduled"
    BY <2>1, <2>2, AfterBodyIsTyped
  <2>. QED BY <1>12, <2>3 DEF WorkerReports, Waiting, driver
<1>13. CASE WorkerExits BY <1>13 DEF WorkerExits, driver
<1>14. CASE UNCHANGED driveVars BY <1>14 DEF driveVars, driver
<1>. QED BY <1>1, <1>2, <1>3, <1>4, <1>5, <1>6, <1>7, <1>8, <1>9, <1>10, <1>11, <1>12, <1>13, <1>14
     DEF DriveNext, Drive, Ended

\* Workers hold no instance whose turn is over and whose row is in flight: a
\* settle that returns on the row waits until it is not.
LEMMA DriveWorking ==
  DriveTypeOK /\ AtHand /\ HandState /\ WorkingInv /\ [DriveNext]_driveVars => WorkingInv'
<1>. SUFFICES ASSUME DriveTypeOK, AtHand, HandState, WorkingInv, [DriveNext]_driveVars PROVE WorkingInv' OBVIOUS
<1>. USE DEF WorkingInv, DriveTypeOK
<1>1. CASE VisitSettled \/ ExpandFails
  BY <1>1 DEF VisitSettled, ExpandFails, workers
<1>2. CASE Expand
  <2>1. \A j \in Instances : state'[j] \in InFlight => state[j] \in InFlight
    BY <1>2 DEF Expand, InFlight
  <2>. QED BY <1>2, <2>1 DEF Expand, workers
<1>3. CASE Blocked
  <2>1. \A j \in Instances : state'[j] \in InFlight => state[j] \in InFlight
    BY <1>3, FlaggedStates DEF Blocked, InFlight
  <2>. QED BY <1>3, <2>1 DEF Blocked, workers
<1>4. CASE Dispatch
  <2>1. PICK i \in Instances : i \notin attempted /\ ti' = i /\ attempted' = attempted \cup {i}
    BY <1>4 DEF Dispatch, Runnable, Next1, Pending
  <2>2. ti = NoTi /\ ti \notin working BY <1>4, NoTiIsNone DEF Dispatch, Runnable, Next1, AtHand
  <2>3. i \notin working /\ \A j \in working : state[j] \notin InFlight BY <2>1, <2>2
  <2>. QED BY <1>4, <2>1, <2>3 DEF Dispatch, workers
<1>5. CASE OpenRuntime \/ CloseRuntime \/ Snapshot
  BY <1>5 DEF OpenRuntime, CloseRuntime, Snapshot, driver, workers
<1>6. CASE TriggerRaises
  <2>1. state[ti] \notin InFlight BY <1>6 DEF TriggerRaises, HandState, InFlight
  <2>. QED BY <1>6, <2>1 DEF TriggerRaises, Returned
<1>7. CASE ResumeDeferred
  <2>1. ti \in Instances BY <1>7 DEF ResumeDeferred, AtHand
  <2>2. \A j \in Instances : j # ti => state'[j] = state[j] BY <1>7, <2>1 DEF ResumeDeferred
  <2>. QED BY <1>7, <2>2 DEF ResumeDeferred, driver, workers
<1>8. CASE RunBody
  <2>0. ti \in Instances BY <1>8 DEF RunBody, AtHand
  <2>1. PICK outcome \in Outcomes, branched \in SUBSET Tasks :
          /\ Attempt(outcome, branched)
          /\ IF outcome = "deferred" /\ triggerer /\ step = "dispatch"
             THEN step' = "resume" /\ UNCHANGED <<ti, errors, executed>>
             ELSE Returned(Fails(outcome), outcome)
    BY <1>8 DEF RunBody
  <2>2. outcome \notin InFlight BY DEF Outcomes, Parked, InFlight
  <2>5. state' = AfterBody(ti, outcome, branched) BY <2>1 DEF Attempt
  <2>6. "skipped" \notin InFlight BY DEF InFlight
  <2>3. \A j \in Instances : state'[j] \in InFlight => j # ti /\ state[j] \in InFlight
    BY <2>2, <2>5, <2>6, AfterBodyIsTyped
  <2>4. working' = working /\ attempted' = attempted /\ step' # "dispatch"
    BY <1>8 DEF RunBody, Returned
  <2>. QED BY <2>3, <2>4
<1>9. CASE Queue
  <2>1. ti \in Instances /\ ti \in attempted BY <1>9 DEF Queue, AtHand
  <2>2. \A j \in Instances : j # ti => state'[j] = state[j] BY <1>9, <2>1 DEF Queue
  <2>. QED BY <1>9, <2>1, <2>2 DEF Queue
<1>10. CASE QueueRaises
  <2>1. ti \in Instances /\ ti \notin working BY <1>10 DEF QueueRaises, AtHand
  <2>2. \A j \in Instances : j # ti => state'[j] = state[j] BY <1>10, <2>1 DEF QueueRaises
  <2>. QED BY <1>10, <2>1, <2>2 DEF QueueRaises, Returned
<1>11. CASE LookSettled
  BY <1>11 DEF LookSettled, Returned, workers
<1>12. CASE Heartbeat \/ LookAgain \/ Deadline \/ Clock \/ EndOfWalk \/ Abort
  BY <1>12 DEF Heartbeat, LookAgain, Deadline, Clock, EndOfWalk, Abort, driver, workers
<1>13. CASE UpdateState
  <2>1. \A j \in Instances : state'[j] \in InFlight => state[j] \in InFlight
    BY <1>13, MarkedIsTyped, FlaggedStates DEF UpdateState, InFlight
  <2>. QED BY <1>13, <2>1 DEF UpdateState, workers
<1>14. CASE WorkerStarts
  <2>1. PICK i \in working : state[i] = "queued" /\ state' = [state EXCEPT ![i] = "running"]
    BY <1>14 DEF WorkerStarts
  <2>2. i = ti BY <2>1 DEF InFlight
  <2>. QED BY <1>14, <2>1, <2>2 DEF WorkerStarts, driver
<1>15. CASE WorkerReports
  <2>1. PICK i \in working, outcome \in Outcomes, branched \in SUBSET Tasks :
          state' = AfterBody(i, outcome, branched)
    BY <1>15 DEF WorkerReports
  <2>2. outcome \notin InFlight BY DEF Outcomes, Parked, InFlight
  <2>3. \A j \in Instances : state'[j] \in InFlight => state[j] \in InFlight
    BY <2>1, <2>2, AfterBodyIsTyped DEF InFlight
  <2>. QED BY <1>15, <2>3 DEF WorkerReports, driver
<1>16. CASE WorkerExits BY <1>16 DEF WorkerExits, driver
<1>17. CASE UNCHANGED driveVars BY <1>17 DEF driveVars, driver, workers
<1>. QED BY <1>1, <1>2, <1>3, <1>4, <1>5, <1>6, <1>7, <1>8, <1>9, <1>10, <1>11, <1>12, <1>13, <1>14,
         <1>15, <1>16, <1>17
     DEF DriveNext, Drive, Ended

\* Only an expansion adds or removes instances.
LEMMA SamePresent ==
  ASSUME DriveTypeOK, AtHand, Presence, [DriveNext]_driveVars, ~Expand
  PROVE  \A j \in Instances : state[j] = "absent" <=> state'[j] = "absent"
<1>. USE DEF DriveTypeOK
<1>1. CASE UNCHANGED state BY <1>1
<1>2. ASSUME NEW i \in Instances, NEW new, state[i] # "absent", new # "absent", state' = [state EXCEPT ![i] = new]
      PROVE  \A j \in Instances : state[j] = "absent" <=> state'[j] = "absent"
  BY <1>2
<1>3. ASSUME NEW i \in Instances, NEW outcome \in Outcomes, NEW branched,
             state[i] # "absent", state' = AfterBody(i, outcome, branched)
      PROVE  \A j \in Instances : state[j] = "absent" <=> state'[j] = "absent"
  <2>1. \A j \in Instances : state'[j] = IF j = i THEN outcome
          ELSE IF state[j] = "none" /\ Task(j) \in branched THEN "skipped" ELSE state[j]
    <3>1. \A j \in Instances : AfterBody(i, outcome, branched)[j] = IF j = i THEN outcome
            ELSE IF state[j] = "none" /\ Task(j) \in branched THEN "skipped" ELSE state[j]
      BY AfterBodyIsTyped
    <3>. QED BY <1>3, <3>1
  <2>2. outcome # "absent" BY DEF Outcomes, Parked
  <2>. QED BY <1>3, <2>1, <2>2
<1>4. CASE Blocked
  <2>1. PICK i \in Instances : state[i] = "none" /\ state' = [state EXCEPT ![i] = Flagged(i)]
    BY <1>4 DEF Blocked, Runnable
  <2>2. Flagged(i) # "absent" BY FlaggedStates
  <2>. QED BY <1>2, <2>1, <2>2
<1>5. ASSUME step \in {"dispatch", "resume", "resumed"} PROVE ti \in Instances /\ state[ti] # "absent"
  BY <1>5 DEF AtHand, Presence
<1>6. CASE ResumeDeferred BY <1>2, <1>5, <1>6 DEF ResumeDeferred
<1>7. CASE RunBody
  <2>1. PICK outcome \in Outcomes, branched \in SUBSET Tasks : state' = AfterBody(ti, outcome, branched)
    BY <1>7 DEF RunBody, Attempt
  <2>2. step \in {"dispatch", "resume", "resumed"} BY <1>7 DEF RunBody
  <2>. QED BY <1>3, <1>5, <2>1, <2>2
<1>8. CASE Queue \/ QueueRaises BY <1>2, <1>5, <1>8 DEF Queue, QueueRaises
<1>9. CASE UpdateState
  <2>1. state' = state \/ state' = Marked BY <1>9 DEF UpdateState
  <2>. QED BY <2>1, MarkedIsTyped, FlaggedStates
<1>10. CASE WorkerStarts
  <2>1. PICK i \in working : state[i] = "queued" /\ state' = [state EXCEPT ![i] = "running"]
    BY <1>10 DEF WorkerStarts
  <2>. QED BY <1>2, <2>1
<1>11. CASE WorkerReports
  <2>1. PICK i \in working, outcome \in Outcomes, branched \in SUBSET Tasks :
          state[i] = "running" /\ state' = AfterBody(i, outcome, branched)
    BY <1>11 DEF WorkerReports
  <2>. QED BY <1>3, <2>1
<1>. QED
  BY <1>1, <1>4, <1>6, <1>7, <1>8, <1>9, <1>10, <1>11
  DEF DriveNext, Drive, Ended, driveVars, VisitSettled, ExpandFails, Dispatch, OpenRuntime, CloseRuntime,
      TriggerRaises, Snapshot, Heartbeat, LookSettled, LookAgain, Deadline, EndOfWalk, Abort, Clock, WorkerExits

\* Who becomes attempted was pending; nobody ceases to be.
LEMMA AttemptedGrows ==
  ASSUME DriveTypeOK, [DriveNext]_driveVars
  PROVE  /\ attempted \subseteq attempted'
         /\ \A i \in attempted' \ attempted : Next1(i) /\ i \in Instances /\ ~Expand
         /\ graph' = graph
         /\ expansion_attempted \subseteq expansion_attempted'
         /\ unexpanded \subseteq unexpanded'
         /\ attempted' # attempted => step = "pick" /\ step' \in {"pick", "dispatch"}
<1>1. CASE VisitSettled \/ ExpandFails \/ Blocked \/ Dispatch
  <2>1. ~Expand
    BY <1>1 DEF VisitSettled, ExpandFails, Blocked, Dispatch, Expand, Next1, Pending, ExpandsNow, Runnable
  <2>. QED BY <1>1, <2>1 DEF VisitSettled, ExpandFails, Blocked, Dispatch, Next1, ExpandsNow, Runnable, call
<1>2. CASE UNCHANGED <<attempted, expansion_attempted, unexpanded, graph>> BY <1>2
<1>3. CASE Expand BY <1>3 DEF Expand, call
<1>. QED
  BY <1>1, <1>2, <1>3
  DEF DriveNext, Drive, Ended, driveVars, call, driver, ResumeDeferred, RunBody, Queue, QueueRaises, UpdateState,
      WorkerStarts, WorkerReports, OpenRuntime, CloseRuntime,
      TriggerRaises, Snapshot, Heartbeat, LookSettled, LookAgain, Deadline, EndOfWalk, Abort, Clock, WorkerExits

\* A task expands before any of its instances is attempted.
LEMMA ExpandSpares ==
  ASSUME DriveTypeOK, Presence, Expand
  PROVE  /\ \A j \in attempted : state'[j] = state[j]
         /\ \A j \in Instances : Task(j) \notin expansion_attempted' => state'[j] = state[j]
         /\ attempted' = attempted /\ graph' = graph
<1>1. PICK i \in Instances, count \in 0..MaxMap, missing \in BOOLEAN :
        /\ ExpandsNow(i)
        /\ expansion_attempted' = expansion_attempted \cup {Task(i)}
        /\ state' = [j \in Instances |->
          IF Task(j) # Task(i) THEN state[j]
          ELSE IF count = 0 THEN IF j # i THEN "absent" ELSE IF missing THEN "upstream_failed" ELSE "skipped"
          ELSE IF j[2] \in 0..(count - 1) THEN "none" ELSE "absent"]
  BY DEF Expand
<1>2. /\ i \notin attempted /\ i[2] < 0 /\ Task(i) \in graph.mapped \ expansion_attempted
      /\ i[2] = -1
  BY <1>1, InstanceParts, DriveAssumption DEF ExpandsNow, Next1, Pending, IsMapped, Instances
<1>3. \A j \in attempted : Task(j) # Task(i)
  <2>. SUFFICES ASSUME NEW j \in attempted, Task(j) = Task(i) PROVE FALSE OBVIOUS
  <2>1. j \in Instances BY DEF DriveTypeOK
  <2>2. j[2] = -1 BY <2>1, <1>2 DEF Presence
  <2>3. j = i BY <2>1, <2>2, <1>2 DEF Instances, Task
  <2>. QED BY <2>3, <1>2
<1>. QED BY <1>1, <1>3 DEF Expand, call, DriveTypeOK

\* Only an expansion makes an instance appear; what was attempted is present.
LEMMA DrivePresence ==
  DriveTypeOK /\ AtHand /\ Presence /\ [DriveNext]_driveVars => Presence'
<1>. SUFFICES ASSUME DriveTypeOK, AtHand, Presence, [DriveNext]_driveVars PROVE Presence' OBVIOUS
<1>1. CASE ~Expand
  <2>1. \A j \in Instances : state[j] = "absent" <=> state'[j] = "absent" BY <1>1, SamePresent
  <2>2. \A i \in attempted' : i \in Instances /\ state[i] # "absent"
    BY AttemptedGrows DEF Presence, Next1, Pending, DriveTypeOK
  <2>. QED BY <2>1, <2>2, AttemptedGrows DEF Presence
<1>2. CASE Expand
  <2>1. expansion_attempted \subseteq expansion_attempted' BY AttemptedGrows
  <2>. QED BY <1>2, <2>1, ExpandSpares DEF Presence
<1>. QED BY <1>1, <1>2

\* After a walk every instance present had been attempted.
LEMMA DriveVisited ==
  DriveTypeOK /\ AtHand /\ Presence /\ Visited /\ [DriveNext]_driveVars => Visited'
<1>. SUFFICES ASSUME DriveTypeOK, AtHand, Presence, Visited, [DriveNext]_driveVars,
                     step' \in {"settle", "snapshot", "done"}
              PROVE  \A i \in Instances : state'[i] # "absent" => i \in attempted'
  BY DEF Visited
<1>1. CASE EndOfWalk BY <1>1 DEF EndOfWalk, Pending, driver
<1>2. CASE step \in {"settle", "snapshot", "done"}
  <2>1. ~Expand BY <1>2 DEF Expand, ExpandsNow, Next1
  <2>2. \A j \in Instances : state[j] = "absent" <=> state'[j] = "absent" BY <2>1, SamePresent
  <2>. QED BY <1>2, <2>2, AttemptedGrows DEF Visited
<1>3. EndOfWalk \/ step \in {"settle", "snapshot", "done"}
  BY DEF DriveNext, Drive, Ended, driveVars, VisitSettled, Expand, ExpandFails, Blocked, Dispatch, OpenRuntime,
     CloseRuntime, ResumeDeferred, TriggerRaises, Snapshot, RunBody, Queue, QueueRaises, Heartbeat, LookSettled,
     LookAgain, Deadline, UpdateState, Abort, Clock, WorkerStarts, WorkerReports, WorkerExits, Returned, driver,
     Next1, ExpandsNow, Runnable, Waiting
<1>. QED BY <1>1, <1>2, <1>3

\* TurnsOver is kept.
LEMMA DriveTurns ==
  DriveTypeOK /\ DriveInv /\ [DriveNext]_driveVars => TurnsOver'
<1>. SUFFICES ASSUME DriveTypeOK, DriveInv, [DriveNext]_driveVars PROVE TurnsOver' OBVIOUS
<1>0. AtHand /\ TurnsOver /\ HandState /\ Scheduled /\ WorkingInv /\ Presence BY DEF DriveInv
<1>1. unexpanded \subseteq unexpanded' /\ attempted \subseteq attempted' BY AttemptedGrows
<1>2. \A j \in Over : j \in Instances /\ j # ti /\ j \in attempted BY DEF Over, DriveTypeOK
<1>t. attempted \subseteq Instances /\ state \in [Instances -> States] BY DEF DriveTypeOK
<1>3. ASSUME UNCHANGED <<attempted, ti, state>> PROVE TurnsOver'
  <2>1. Over' = Over BY <1>3 DEF Over
  <2>. QED BY <2>1, <1>0, <1>1, <1>3, TurnsStayOver
<1>4. ASSUME step = "pick" PROVE Over = attempted /\ ti = NoTi
  BY <1>4, <1>0, <1>t, NoTiIsNone DEF Over, AtHand
<1>p. ASSUME NEW i \in Instances, step = "pick", attempted' = attempted \cup {i}, ti' = ti
      PROVE  Over \subseteq Over' /\ Over' \ Over \subseteq {i}
  BY <1>p, <1>4, NoTiIsNone DEF Over
<1>5. CASE VisitSettled
  <2>1. PICK i \in Instances : Next1(i) /\ state[i] # "none" /\ attempted' = attempted \cup {i}
    BY <1>5 DEF VisitSettled
  <2>2. state[i] \in Gone
    BY <2>1, <1>0, <1>t DEF Next1, Pending, Scheduled, States, Gone
  <2>3. step = "pick" /\ ti' = ti /\ state' = state BY <1>5, <2>1 DEF VisitSettled, Next1
  <2>. QED BY <2>1, <2>2, <2>3, <1>p, <1>0, <1>1, TurnsStayOver
<1>6. CASE Expand
  <2>1. Over' = Over BY <1>6, <1>0, ExpandSpares DEF Expand, Over
  <2>. QED BY <2>1, <1>0, <1>1, <1>2, <1>6, ExpandSpares, TurnsStayOver
<1>7. CASE ExpandFails
  <2>1. PICK i \in Instances :
          /\ ExpandsNow(i) /\ attempted' = attempted \cup {i}
          /\ unexpanded' = IF Settled(i) THEN unexpanded \cup {Task(i)} ELSE unexpanded
    BY <1>7 DEF ExpandFails
  <2>2. Next1(i) /\ state[i] = "none" /\ step = "pick" BY <2>1 DEF ExpandsNow, Next1
  <2>3. Excuse \/ Excuse'
    <3>1. CASE Settled(i) BY <2>1, <3>1 DEF Excuse
    <3>2. CASE ~Settled(i) BY <2>2, <3>2, <1>0, UpstreamHadItsTurn
    <3>. QED BY <3>1, <3>2
  <2>4. ti' = ti /\ state' = state BY <1>7 DEF ExpandFails
  <2>. QED BY <2>1, <2>2, <2>3, <2>4, <1>p, <1>0, <1>1, TurnsStayOver
<1>8. CASE Blocked
  <2>1. PICK i \in Instances :
          /\ Runnable(i) /\ ~Met(i) /\ attempted' = attempted \cup {i}
          /\ state' = [state EXCEPT ![i] = Flagged(i)]
    BY <1>8 DEF Blocked
  <2>2. Next1(i) /\ i \notin attempted /\ step = "pick" BY <2>1 DEF Runnable, Next1, Pending
  <2>3. state'[i] = Flagged(i) BY <2>1, <1>t
  <2>4. Flagged(i) \in Gone \/ (Flagged(i) = "none" /\ Excuse)
    BY <2>1, <2>2, <1>0, FlaggedStates, NothingFlagged, UpstreamHadItsTurn DEF Gone, Terminal
  <2>5. \A j \in Over : state'[j] = state[j] BY <2>1, <2>2, <1>2, <1>t
  <2>6. ti' = ti BY <1>8 DEF Blocked
  <2>. QED BY <2>1, <2>2, <2>3, <2>4, <2>5, <2>6, <1>p, <1>0, <1>1, TurnsStayOver
<1>9. CASE Dispatch
  <2>1. PICK i \in Instances : Next1(i) /\ attempted' = attempted \cup {i} /\ ti' = i
    BY <1>9 DEF Dispatch, Runnable
  <2>2. i \notin attempted /\ step = "pick" BY <2>1 DEF Next1, Pending
  <2>3. Over' = Over BY <2>1, <2>2, <1>4 DEF Over
  <2>4. state' = state BY <1>9 DEF Dispatch
  <2>. QED BY <2>3, <2>4, <1>0, <1>1, TurnsStayOver
<1>10. ASSUME attempted' = attempted, ti' = ti, \A j \in Instances : j # ti => state'[j] = state[j]
       PROVE  TurnsOver'
  <2>1. Over' = Over BY <1>10 DEF Over
  <2>. QED BY <2>1, <1>0, <1>1, <1>2, <1>10, TurnsStayOver
<1>11. ASSUME attempted' = attempted, ti' = NoTi, state'[ti] \in Gone,
              \A j \in Instances : j # ti => state'[j] = state[j]
                \/ (state[j] = "none" /\ state'[j] \in {"skipped", "upstream_failed"})
       PROVE  TurnsOver'
  <2>1. Over \subseteq Over' /\ Over' \ Over \subseteq {ti} BY <1>11, <1>t, NoTiIsNone DEF Over
  <2>. QED BY <2>1, <1>0, <1>1, <1>2, <1>11, TurnsStayOver
<1>12. CASE ResumeDeferred
  <2>1. ti \in Instances BY <1>12, <1>0, <1>t DEF ResumeDeferred, AtHand
  <2>. QED BY <1>10, <1>12, <2>1, <1>t DEF ResumeDeferred, driver
<1>13. CASE TriggerRaises
  <2>1. state[ti] \in Gone BY <1>13, <1>0 DEF TriggerRaises, HandState, Gone, Parked
  <2>. QED BY <1>11, <1>13, <2>1 DEF TriggerRaises, Returned
<1>14. CASE RunBody
  <2>1. PICK outcome \in Outcomes, branched \in SUBSET Tasks :
          /\ state' = AfterBody(ti, outcome, branched)
          /\ IF outcome = "deferred" /\ triggerer /\ step = "dispatch"
             THEN step' = "resume" /\ UNCHANGED <<ti, errors, executed>>
             ELSE Returned(Fails(outcome), outcome)
    BY <1>14 DEF RunBody, Attempt
  <2>2. \A j \in Instances : state'[j] = IF j = ti THEN outcome
          ELSE IF state[j] = "none" /\ Task(j) \in branched THEN "skipped" ELSE state[j]
    BY <2>1, AfterBodyIsTyped
  <2>3. outcome \in Gone BY DEF Outcomes, Gone, Terminal, Parked
  <2>4. ti \in Instances BY <1>14, <1>0, <1>t DEF RunBody, AtHand
  <2>5. attempted' = attempted BY <1>14 DEF RunBody
  <2>6. CASE ti' = NoTi BY <1>11, <2>2, <2>3, <2>4, <2>5, <2>6
  <2>7. CASE ti' = ti
    <3>1. Over' = Over BY <2>5, <2>7 DEF Over
    <3>2. \A j \in Over : state'[j] = state[j] \/ (state[j] = "none" /\ state'[j] = "skipped")
      BY <2>2, <1>2
    <3>. QED BY <3>1, <3>2, <1>0, <1>1, TurnsStayOver
  <2>. QED BY <2>1, <2>6, <2>7 DEF Returned
<1>15. CASE Queue
  <2>1. ti \in Instances BY <1>15, <1>0, <1>t DEF Queue, AtHand
  <2>. QED BY <1>10, <1>15, <2>1, <1>t DEF Queue
<1>16. CASE QueueRaises
  <2>1. ti \in Instances BY <1>16, <1>0, <1>t DEF QueueRaises, AtHand
  <2>2. "queued" \in Gone BY DEF Gone, InFlight
  <2>3. \A j \in Instances : state'[j] = IF j = ti THEN "queued" ELSE state[j] BY <1>16, <2>1, <1>t DEF QueueRaises
  <2>. QED BY <1>11, <1>16, <2>1, <2>2, <2>3 DEF QueueRaises, Returned
<1>17. CASE LookSettled
  <2>1. state[ti] \in Gone BY <1>17, <1>0 DEF LookSettled, HandState
  <2>. QED BY <1>11, <1>17, <2>1 DEF LookSettled, Returned
<1>18. CASE OpenRuntime \/ CloseRuntime \/ Snapshot \/ Heartbeat \/ LookAgain \/ Deadline \/ Clock \/ EndOfWalk
             \/ Abort \/ WorkerExits \/ UNCHANGED driveVars
  BY <1>18, <1>3 DEF OpenRuntime, CloseRuntime, Snapshot, Heartbeat, LookAgain, Deadline, Clock, EndOfWalk,
     Abort, WorkerExits, driveVars, driver
<1>19. CASE UpdateState
  <2>1. state' = state \/ state' = Marked BY <1>19 DEF UpdateState
  <2>2. \A j \in Instances : state'[j] = state[j]
          \/ (state[j] = "none" /\ state'[j] \in {"skipped", "upstream_failed"})
    BY <2>1, MarkedIsTyped, FlaggedStates
  <2>3. Over' = Over BY <1>19 DEF UpdateState, Over
  <2>. QED BY <2>2, <2>3, <1>0, <1>1, <1>2, TurnsStayOver
<1>20. CASE WorkerStarts
  <2>1. PICK i \in working : state[i] = "queued" /\ state' = [state EXCEPT ![i] = "running"]
    BY <1>20 DEF WorkerStarts
  <2>2. i = ti BY <2>1, <1>0 DEF WorkingInv, InFlight
  <2>. QED BY <1>10, <1>20, <2>1, <2>2, <1>t DEF WorkerStarts, driver
<1>21. CASE WorkerReports
  <2>1. PICK i \in working, outcome \in Outcomes, branched \in SUBSET Tasks :
          state[i] = "running" /\ state' = AfterBody(i, outcome, branched)
    BY <1>21 DEF WorkerReports
  <2>2. i = ti BY <2>1, <1>0 DEF WorkingInv, InFlight
  <2>3. \A j \in Instances : state'[j] = IF j = i THEN outcome
          ELSE IF state[j] = "none" /\ Task(j) \in branched THEN "skipped" ELSE state[j]
    BY <2>1, AfterBodyIsTyped
  <2>4. Over' = Over BY <1>21 DEF WorkerReports, Over, driver
  <2>5. \A j \in Over : state'[j] = state[j] \/ (state[j] = "none" /\ state'[j] = "skipped")
    BY <2>2, <2>3, <1>2
  <2>. QED BY <2>4, <2>5, <1>0, <1>1, TurnsStayOver
<1>. QED BY <1>5, <1>6, <1>7, <1>8, <1>9, <1>12, <1>13, <1>14, <1>15, <1>16, <1>17, <1>18, <1>19, <1>20, <1>21
     DEF DriveNext, Drive, Ended

-----------------------------------------------------------------------------
(* The passes of update_state end at a fixed point *)

Unset == {i \in Instances : state[i] = "none"}

\* Every pass but the first moves an instance from "none", or is the last: the
\* bound is never reached.
PassInv ==
  /\ step \notin {"settle", "snapshot", "done", "aborted"}
       => passes = 0 /\ previous = [i \in Instances |-> "absent"]
  /\ (step = "settle" /\ passes = 0) => previous = [i \in Instances |-> "absent"]
  /\ (step = "settle" /\ passes # 0)
       => previous = state /\ passes + Cardinality(Unset) <= Cardinality(Present) + 1
  /\ step \in {"snapshot", "done"} => state = Marked

\* The instances of a graph are finitely many.
LEMMA FiniteInstances == IsFiniteSet(Instances)
<1>1. IsFiniteSet(Tasks) BY DriveAssumption, FS_Interval DEF Tasks
<1>2. IsFiniteSet((-1)..(MaxMap - 1)) BY DriveAssumption, FS_Interval
<1>. QED BY <1>1, <1>2, FS_Product DEF Instances

\* Finite sets of instances are counted.
LEMMA Counts ==
  /\ IsFiniteSet(Present) /\ Cardinality(Present) \in Nat
  /\ IsFiniteSet(Unset) /\ Cardinality(Unset) \in Nat
  /\ Cardinality(Unset) <= Cardinality(Present)
<1>1. IsFiniteSet(Present) BY FiniteInstances, FS_Subset DEF Present
<1>2. Unset \subseteq Present BY DEF Unset, Present
<1>. QED BY <1>1, <1>2, FS_Subset, FS_CardinalityType

\* With no instance left at "none", or with none that changed, another pass
\* changes nothing.
LEMMA FixedOnceSet ==
  ASSUME DriveTypeOK, state' = Marked, graph' = graph,
         (\A i \in Instances : Marked[i] # "none") \/ Marked = state
  PROVE  state' = Marked'
<1>1. CASE \A i \in Instances : Marked[i] # "none"
  <2>1. \A i \in Instances : Marked'[i] = state'[i] BY <1>1 DEF Marked
  <2>2. state' = [i \in Instances |-> state'[i]] BY MarkedIsTyped
  <2>3. Marked' = [i \in Instances |-> IF state'[i] = "none" /\ ~Met(i)' THEN Flagged(i)' ELSE state'[i]]
    BY DEF Marked
  <2>. QED BY <1>1, <2>1, <2>2, <2>3
<1>2. CASE Marked = state
  <2>1. state' = state BY <1>2
  <2>2. Marked' = Marked BY <2>1 DEF Marked, Met, Settled, Flagged, Upstream, Of, Present
  <2>. QED BY <1>2, <2>1, <2>2
<1>. QED BY <1>1, <1>2

\* A decided run has no instance waiting, or the marking changed nothing.
LEMMA RunDecided ==
  ASSUME DriveTypeOK, RunState(Marked) # "running"
  PROVE  (\A i \in Instances : Marked[i] # "none") \/ Marked = state
<1>1. CASE \E i \in Instances : Marked[i] = "none"
  <2>1. PICK i \in Instances : Marked[i] = "none" BY <1>1
  <2>2. state[i] # "absent" BY <2>1, MarkedIsTyped, FlaggedStates
  <2>3. {j \in Present : Marked[j] \notin Terminal} # {} BY <2>1, <2>2 DEF Present, Terminal
  <2>. QED BY <2>3 DEF RunState
<1>. QED BY <1>1

\* Passes are bounded by the instances present.
LEMMA DrivePasses ==
  DriveTypeOK /\ AtHand /\ Presence /\ PassInv /\ [DriveNext]_driveVars => PassInv'
<1>. SUFFICES ASSUME DriveTypeOK, AtHand, Presence, PassInv, [DriveNext]_driveVars PROVE PassInv' OBVIOUS
<1>1. CASE UpdateState
  <2>1. step = "settle" /\ graph' = graph BY <1>1 DEF UpdateState, call
  <2>2. passes # Bound
    <3>1. passes \in Nat BY DEF DriveTypeOK
    <3>2. passes <= Cardinality(Present) + 1 BY <2>1, <3>1, Counts DEF PassInv
    <3>. QED BY <3>1, <3>2, Counts DEF Bound
  <2>3. /\ state' = Marked /\ run' = RunState(Marked) /\ passes' = passes + 1 /\ previous' = Marked
        /\ step' = IF run' # "running" \/ Marked = previous THEN "snapshot" ELSE "settle"
    BY <1>1, <2>2 DEF UpdateState
  <2>4. ~Expand BY <1>1 DEF UpdateState, Expand, ExpandsNow, Next1
  <2>5. Present' = Present BY <2>4, SamePresent DEF Present
  <2>6. passes' \in Nat /\ passes' # 0 BY <2>3 DEF DriveTypeOK
  <2>7. CASE step' = "settle"
    <3>1. Marked # previous BY <2>3, <2>7
    <3>2. passes' + Cardinality(Unset') <= Cardinality(Present) + 1
      <4>1. CASE passes = 0
        <5>0. Unset' \subseteq Present BY <2>5 DEF Unset, Present
        <5>1. Cardinality(Unset') \in Nat /\ Cardinality(Unset') <= Cardinality(Present)
          BY <5>0, Counts, FS_Subset, FS_CardinalityType
        <5>. QED BY <4>1, <5>1, <2>3, <2>5, Counts
      <4>2. CASE passes # 0
        <5>1. previous = state /\ passes + Cardinality(Unset) <= Cardinality(Present) + 1
          BY <4>2, <2>1 DEF PassInv
        <5>2. Unset' \subseteq Unset BY <2>3, MarkedIsTyped DEF Unset
        <5>3. Unset' # Unset
          <6>1. \E i \in Instances : Marked[i] # state[i]
            BY <3>1, <5>1, MarkedIsTyped DEF DriveTypeOK
          <6>2. PICK i \in Instances : Marked[i] # state[i] BY <6>1
          <6>3. state[i] = "none" /\ state'[i] # "none" BY <6>2, <2>3, MarkedIsTyped
          <6>. QED BY <6>3 DEF Unset
        <5>4. Cardinality(Unset') <= Cardinality(Unset) /\ Cardinality(Unset') # Cardinality(Unset)
          BY <5>2, <5>3, Counts, FS_Subset
        <5>5. Cardinality(Unset') \in Nat BY <5>2, Counts, FS_Subset, FS_CardinalityType
        <5>6. passes \in Nat BY DEF DriveTypeOK
        <5>. QED BY <5>1, <5>4, <5>5, <5>6, <2>3, Counts
      <4>. QED BY <4>1, <4>2
    <3>. QED BY <2>3, <2>5, <2>6, <2>7, <3>2 DEF PassInv
  <2>8. CASE step' = "snapshot"
    <3>1. RunState(Marked) # "running" \/ Marked = previous BY <2>3, <2>8
    <3>2. (\A i \in Instances : Marked[i] # "none") \/ Marked = state
      <4>1. CASE RunState(Marked) # "running" BY <4>1, RunDecided
      <4>2. CASE Marked = previous /\ passes = 0 BY <4>2, <2>1 DEF PassInv
      <4>3. CASE Marked = previous /\ passes # 0 BY <4>3, <2>1 DEF PassInv
      <4>. QED BY <3>1, <4>1, <4>2, <4>3
    <3>3. state' = Marked' BY <2>1, <2>3, <3>2, FixedOnceSet
    <3>. QED BY <2>8, <3>3 DEF PassInv
  <2>. QED BY <2>3, <2>7, <2>8
<1>2. CASE UNCHANGED <<step, state, graph, passes, previous>>
  <2>1. Marked' = Marked /\ Present' = Present /\ Unset' = Unset
    BY <1>2 DEF Marked, Met, Settled, Flagged, Upstream, Of, Present, Unset
  <2>. QED BY <1>2, <2>1 DEF PassInv
<1>3. ASSUME UNCHANGED <<passes, previous>>, step \notin {"settle", "snapshot", "done", "aborted"},
             step' \notin {"snapshot", "done"}
      PROVE  PassInv'
  <2>1. passes' = 0 /\ previous' = [i \in Instances |-> "absent"] BY <1>3 DEF PassInv
  <2>. QED BY <1>3, <2>1 DEF PassInv
<1>4. CASE step' = "aborted" BY <1>4 DEF PassInv
<1>5. CASE Snapshot /\ step' = "done"
  <2>1. UNCHANGED <<state, graph>> /\ step = "snapshot" BY <1>5 DEF Snapshot, call
  <2>2. Marked' = Marked BY <2>1 DEF Marked, Met, Settled, Flagged, Upstream, Of, Present
  <2>. QED BY <1>5, <2>1, <2>2 DEF PassInv
<1>6. CASE VisitSettled \/ Expand \/ ExpandFails \/ Blocked \/ Dispatch
  BY <1>3, <1>6 DEF VisitSettled, Expand, ExpandFails, Blocked, Dispatch, Next1, ExpandsNow, Runnable
<1>7. CASE ResumeDeferred \/ TriggerRaises \/ RunBody \/ Queue \/ QueueRaises \/ Heartbeat \/ LookSettled
             \/ LookAgain \/ EndOfWalk \/ Clock \/ WorkerStarts \/ WorkerReports \/ WorkerExits
  BY <1>3, <1>7 DEF ResumeDeferred, TriggerRaises, RunBody, Queue, QueueRaises, Heartbeat, LookSettled,
     LookAgain, EndOfWalk, Clock, WorkerStarts, WorkerReports, WorkerExits, Returned, Waiting, driver
<1>8. CASE OpenRuntime \/ CloseRuntime
  BY <1>2, <1>3, <1>4, <1>8 DEF OpenRuntime, CloseRuntime, driver
<1>9. CASE Deadline \/ Abort BY <1>4, <1>9 DEF Deadline, Abort
<1>10. CASE Snapshot BY <1>4, <1>5, <1>10 DEF Snapshot
<1>11. CASE UNCHANGED driveVars BY <1>2, <1>11 DEF driveVars, call, driver
<1>. QED BY <1>1, <1>6, <1>7, <1>8, <1>9, <1>10, <1>11 DEF DriveNext, Drive, Ended

-----------------------------------------------------------------------------
(* Errors *)

\* An exception in the executor's buffer, or seen there, is its instance's.
ErrorInv ==
  /\ errors \subseteq raised
  /\ \A e \in events : e.error => e.of \in raised
  /\ (step \in {"await", "look"} /\ reported) => ti \in raised

\* ErrorInv is kept: an error was raised by what really happened.
LEMMA DriveErrors ==
  DriveTypeOK /\ AtHand /\ ErrorInv /\ [DriveNext]_driveVars => ErrorInv'
<1>. SUFFICES ASSUME DriveTypeOK, AtHand, ErrorInv, [DriveNext]_driveVars PROVE ErrorInv' OBVIOUS
<1>. USE DEF ErrorInv
<1>1. ASSUME UNCHANGED <<errors, events, reported, ti>>, raised \subseteq raised',
             step' \in {"await", "look"} => step \in {"await", "look"}
      PROVE  ErrorInv'
  BY <1>1
<1>2. CASE VisitSettled \/ Expand \/ ExpandFails \/ Blocked
  BY <1>1, <1>2 DEF VisitSettled, Expand, ExpandFails, Blocked, workers
<1>3. CASE Dispatch BY <1>3 DEF Dispatch, workers
<1>4. CASE OpenRuntime \/ CloseRuntime \/ Snapshot \/ ResumeDeferred \/ Deadline \/ LookAgain \/ EndOfWalk \/ Abort
  BY <1>1, <1>4 DEF OpenRuntime, CloseRuntime, Snapshot, ResumeDeferred, Deadline, LookAgain, EndOfWalk, Abort,
     driver, workers
<1>5. CASE TriggerRaises \/ QueueRaises BY <1>5 DEF TriggerRaises, QueueRaises, Returned
<1>6. CASE RunBody
  <2>1. PICK outcome \in Outcomes :
          /\ raised' = IF Fails(outcome) THEN raised \cup {ti} ELSE raised
          /\ \/ step' = "resume" /\ UNCHANGED <<ti, errors, executed>>
             \/ Returned(Fails(outcome), outcome)
    BY <1>6 DEF RunBody, Attempt
  <2>2. errors' \subseteq raised' BY <2>1 DEF Returned
  <2>3. step' \notin {"await", "look"} BY <2>1 DEF Returned
  <2>4. raised \subseteq raised' BY <2>1
  <2>. QED BY <1>6, <2>2, <2>3, <2>4 DEF RunBody
<1>7. CASE Queue BY <1>7 DEF Queue
<1>8. CASE Heartbeat BY <1>8 DEF Heartbeat, Reported
<1>9. CASE LookSettled BY <1>9 DEF LookSettled, Returned, workers
<1>10. CASE UpdateState BY <1>10 DEF UpdateState, workers
<1>11. CASE Clock BY <1>11 DEF Clock, workers
<1>12. CASE WorkerStarts \/ WorkerReports
  BY <1>1, <1>12 DEF WorkerStarts, WorkerReports, driver
<1>13. CASE WorkerExits
  <2>1. PICK i \in working, error \in BOOLEAN :
          /\ events' = events \cup {[of |-> i, error |-> error]}
          /\ raised' = IF error THEN raised \cup {i} ELSE raised
    BY <1>13 DEF WorkerExits
  <2>2. \A e \in events' : e.error => e.of \in raised' BY <2>1
  <2>. QED BY <1>13, <2>1, <2>2 DEF WorkerExits, driver
<1>14. CASE UNCHANGED driveVars BY <1>14 DEF driveVars, driver, workers
<1>. QED BY <1>2, <1>3, <1>4, <1>5, <1>6, <1>7, <1>8, <1>9, <1>10, <1>11, <1>12, <1>13, <1>14
     DEF DriveNext, Drive, Ended

-----------------------------------------------------------------------------
\* The invariants hold when the drive starts.
LEMMA DriveStarts == DriveInit => DriveTypeOK /\ DriveInv /\ PassInv /\ ErrorInv
<1>. SUFFICES ASSUME DriveInit PROVE DriveTypeOK /\ DriveInv /\ PassInv /\ ErrorInv OBVIOUS
<1>. USE DEF DriveInit
<1>1. DriveTypeOK BY DEF DriveTypeOK, States
<1>2. AtHand /\ TurnsOver /\ HandState BY DEF AtHand, TurnsOver, Over, HandState
<1>3. Scheduled BY DEF Scheduled
<1>4. WorkingInv /\ Visited BY DEF WorkingInv, Visited
<1>5. Presence BY DEF Presence
<1>6. PassInv BY DEF PassInv
<1>7. ErrorInv BY DEF ErrorInv
<1>. QED BY <1>1, <1>2, <1>3, <1>4, <1>5, <1>6, <1>7 DEF DriveInv

\* What DriveSound rests on is inductive.
THEOREM DriveInvariant == DriveSpec => [](DriveTypeOK /\ DriveInv /\ PassInv /\ ErrorInv)
<1>1. DriveTypeOK /\ DriveInv /\ PassInv /\ ErrorInv /\ [DriveNext]_driveVars
        => (DriveTypeOK /\ DriveInv /\ PassInv /\ ErrorInv)'
  BY DriveTyped, DriveAtHand, DriveTurns, DriveHandState, DriveScheduled, DriveWorking, DrivePresence,
     DriveVisited, DrivePasses, DriveErrors
  DEF DriveInv
<1>. QED BY DriveStarts, <1>1, PTL DEF DriveSpec

\* A drive that returns has driven every instance unless one is parked, in
\* flight or could not be expanded, at a fixed point of update_state that the
\* bound on its passes never cuts off, and files errors under the instances that
\* raised them (drive_dag_run, _settle_dag_run, _await_settled).
THEOREM EveryInstanceIsDriven == DriveSpec => []DriveSound
<1>1. DriveTypeOK /\ DriveInv /\ PassInv /\ ErrorInv => DriveSound
  <2>. SUFFICES ASSUME DriveTypeOK, DriveInv, PassInv, ErrorInv PROVE DriveSound OBVIOUS
  <2>1. SettlesAtFixedPoint BY DEF PassInv, SettlesAtFixedPoint
  <2>2. ErrorsAreOwn BY DEF ErrorInv, ErrorsAreOwn
  <2>3. AllDriven
    <3>. SUFFICES ASSUME step = "done", unexpanded = {},
                         \A i \in Present : state[i] \notin Parked \cup InFlight,
                         NEW i \in Present
                  PROVE  state[i] \in Terminal
      BY DEF AllDriven
    <3>1. ti = NoTi BY DEF DriveInv, AtHand
    <3>2. i \in Instances /\ state[i] # "absent" BY DEF Present
    <3>3. i \in Over BY <3>1, <3>2, NoTiIsNone DEF DriveInv, Visited, Over
    <3>4. ~Excuse
      <4>1. \A j \in Over : j \in Present BY DEF Over, Present, DriveTypeOK, DriveInv, Presence
      <4>. QED BY <4>1 DEF Excuse
    <3>5. state[i] \in Gone BY <3>3, <3>4 DEF DriveInv, TurnsOver
    <3>. QED BY <3>5 DEF Gone
  <2>. QED BY <2>1, <2>2, <2>3 DEF DriveSound
<1>. QED BY <1>1, DriveInvariant, PTL
=============================================================================
