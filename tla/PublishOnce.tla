---------------------------- MODULE PublishOnce ----------------------------
(***************************************************************************)
(* What a cross-process election below one run root promises, whichever    *)
(* artifact it elects a producer for: at most one value is ever published, *)
(* it never changes or disappears, and a process only ever learns the      *)
(* published value.  A process that dies or restarts forgets what it knew. *)
(*                                                                         *)
(* RunCoordination implements this specification twice: with the metadata  *)
(* database's ready sentinel and with the shared Dag corpus artifact.      *)
(***************************************************************************)
CONSTANTS
  Readers,    \* the processes of one run
  Values,     \* what can be published
  Nothing     \* no value yet

VARIABLES
  value,      \* the published value, or Nothing
  seen        \* what each process knows to be published

abstractVars == <<value, seen>>

Init ==
  /\ value = Nothing
  /\ seen = [r \in Readers |-> Nothing]

Publish(v) ==
  /\ value = Nothing
  /\ value' = v
  /\ UNCHANGED seen

Learn(r) ==
  /\ value # Nothing
  /\ seen' = [seen EXCEPT ![r] = value]
  /\ UNCHANGED value

Forget(r) ==
  /\ seen' = [seen EXCEPT ![r] = Nothing]
  /\ UNCHANGED value

Next ==
  \/ \E v \in Values : Publish(v)
  \/ \E r \in Readers : Learn(r) \/ Forget(r)

Spec == Init /\ [][Next]_abstractVars
=============================================================================
