--------------------------- MODULE MetadataRowsMC ---------------------------
(***************************************************************************)
(* The rows of the shared metadata database: Variables and Connections     *)
(* tests seed (SeedRows), Dags with their runs (DagMetadata), and the task *)
(* instances of one run while it is driven (DriveDagRun).  They write      *)
(* different tables: a behaviour is one of the three, the others stay in   *)
(* an initial state.  The drive, of which it is asked that it ends, has    *)
(* ended: its executor never started.                                      *)
(***************************************************************************)
EXTENDS SeedRowsMC, DagMetadata, DriveDagRun, TLC

CONSTANTS m, w1, w2, d1, d2

VARIABLE part

-----------------------------------------------------------------------------
(* w1 and m's tests raise and delete; w2's are healthy. *)

MCDagsOf == (m :> {d1}) @@ (w1 :> {d1}) @@ (w2 :> {d2})
MCTests == (m :> 2) @@ (w1 :> 2) @@ (w2 :> 1)
MCMaxRecords == (m :> 2) @@ (w1 :> 1) @@ (w2 :> 1)

-----------------------------------------------------------------------------
(* A chain through a mapped task, a diamond with an all_done leaf, and a   *)
(* mapped task fed by two.                                                 *)

Chain == [up |-> <<{}, {1}, {2}, {3}>>, mapped |-> {2}, all_done |-> {}]
Diamond == [up |-> <<{}, {1}, {1}, {2, 3}>>, mapped |-> {}, all_done |-> {4}]
Join == [up |-> <<{}, {}, {1, 2}, {3}>>, mapped |-> {3}, all_done |-> {4}]
MCGraphs == {Chain, Diamond, Join}

-----------------------------------------------------------------------------
DagsParked == family = "v3" /\ running = {m}

DriveOver ==
  /\ graph = Chain /\ adapter = "executor" /\ step = "aborted" /\ triggerer = FALSE
  /\ state = [i \in Instances |-> "absent"] /\ run = "running" /\ runtime = "off" /\ ti = NoTi
  /\ attempted = {} /\ expansion_attempted = {} /\ executed = {} /\ errors = {}
  /\ reported = FALSE /\ late = FALSE /\ previous = state /\ passes = 0
  /\ working = {} /\ events = {} /\ ran = {} /\ raised = {} /\ unexpanded = {}

MCInit ==
  /\ part \in {"seeds", "dags", "drive"}
  /\ IF part = "dags" THEN TRUE ELSE DagsParked
  /\ IF part = "drive" THEN DriveInit ELSE DriveOver
  /\ Init /\ DagInit

MCNext ==
  /\ UNCHANGED part
  /\ \/ part = "seeds" /\ Next /\ UNCHANGED <<dagVars, driveVars>>
     \/ part = "dags" /\ DagNext /\ UNCHANGED <<vars, driveVars>>
     \/ part = "drive" /\ DriveNext /\ UNCHANGED <<vars, dagVars>>

MCSpec ==
  /\ MCInit /\ [][MCNext]_<<vars, dagVars, driveVars, part>>
  /\ WF_driveVars(part = "drive" /\ Drive) /\ WF_driveVars(part = "drive" /\ Clock)
=============================================================================
