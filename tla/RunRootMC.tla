----------------------------- MODULE RunRootMC ------------------------------
(***************************************************************************)
(* The directory of a run: where it goes (StorageLadder), what its         *)
(* processes elect in it (RunCoordination) and what becomes of it          *)
(* (RunRoot).  They share no state: a behaviour is one of the three, and   *)
(* the others stay in one of their initial states.                         *)
(***************************************************************************)
EXTENDS RunCoordination, RunRoot, StorageLadder, TLC

CONSTANT own

VARIABLE part

ASSUME LadderAssumption

MCDirs == {own, Shm, Temp}

\* What the mount table or statfs says of a directory.
Kinds ==
  {[mount |-> "local", magic |-> "unknown"], [mount |-> "network", magic |-> "unknown"],
   [mount |-> "tmpfs", magic |-> "unknown"], [mount |-> "unknown", magic |-> "tmpfs"],
   [mount |-> "unknown", magic |-> "unknown"]}

Like(kinds, accesses, roomy) ==
  {[access |-> a, mount |-> k.mount, magic |-> k.magic, roomy |-> r] :
     a \in accesses, k \in kinds, r \in roomy}

MCSystems ==
  LET any == Like(Kinds, {"absent", "readonly", "full", "free"}, {TRUE})
      memory == Like(Kinds, {"full", "free"}, BOOLEAN)
  IN  {(own :> o) @@ (Shm :> m) @@ (Temp :> t) : o \in any, m \in memory, t \in any}

MCRequests == [explicit : {None, own}, candidate : {None, own, Shm, Temp}, allow : BOOLEAN]

\* The directories a search looks at.  What the others are like is fixed.
Looked ==
  IF request.explicit # None THEN {request.explicit} ELSE {request.candidate, Shm, Temp}

Plain == CHOOSE s \in Systems : TRUE

NoSearch ==
  /\ system = Plain /\ request = (CHOOSE r \in Requests : TRUE)
  /\ LadderInit

MCInit ==
  /\ part \in {"elections", "life", "search"}
  /\ Init /\ RootInit
  /\ IF part = "search"
       THEN /\ LadderInit
            /\ request.explicit # None => request.candidate = None
            /\ \A d \in MCDirs \ Looked : system[d] = Plain[d]
       ELSE NoSearch

\* A run ends, and so does a search; the elections of a run do not stop otherwise.
Over ==
  /\ \/ part = "life" /\ \A r \in Runs : stage[r] \in Ended
     \/ part = "search" /\ rung = "done"
  /\ UNCHANGED <<vars, rootVars, ladderVars>>

MCNext ==
  /\ UNCHANGED part
  /\ \/ part = "elections" /\ Next /\ UNCHANGED <<rootVars, ladderVars>>
     \/ part = "life" /\ RootNext /\ UNCHANGED <<vars, ladderVars>>
     \/ part = "search" /\ LadderNext /\ UNCHANGED <<vars, rootVars>>
     \/ Over

\* The fairness of the processes.
MCSpec == MCInit /\ [][MCNext]_<<vars, rootVars, ladderVars, part>> /\ Fairness
=============================================================================
