---------------------------- MODULE MigrationMC -----------------------------
(***************************************************************************)
(* The two ways to compare a suite on two Airflows, by hand                *)
(* (MigrationLoop) and with airflow-migration-diff (MigrationCommand).     *)
(* They share no state: a behaviour is one of the two, and the other part  *)
(* stays in one of its initial states.                                     *)
(***************************************************************************)
EXTENDS MigrationLoop, MigrationCommand, TLC

VARIABLE byHand

ASSUME CommandAssumption

\* What an invocation admits has nothing to do with what it keeps.
MCInit ==
  /\ Init /\ CommandInit
  /\ \A i \in Invocations : options[i].keep <=> options[i].allow = {}
  /\ byHand \in BOOLEAN
  /\ IF byHand
       THEN options = [i \in Invocations |-> [given |-> FALSE, keep |-> TRUE, allow |-> {}]]
       ELSE baseline = NoRecording /\ behaviour = [t \in Tests |-> "skip"]

MCNext ==
  /\ UNCHANGED byHand
  /\ \/ byHand /\ Next /\ UNCHANGED commandVars
     \/ ~byHand /\ CommandNext /\ UNCHANGED vars

MCSpec == MCInit /\ [][MCNext]_<<vars, commandVars, byHand>>

Symmetry == Permutations(Invocations)
=============================================================================
