--------------------------- MODULE ProcessStateMC ---------------------------
(***************************************************************************)
(* What a test borrows from its process and must give back: the supervisor *)
(* of the Task SDK (TaskSupervision), the environment (RunEnvironment) and *)
(* Airflow's registries (ComponentSandbox), with the checks a component    *)
(* passes to get into those (ComponentChecks).  The four share no state,   *)
(* so a behaviour exercises one of them and leaves the others in one of    *)
(* their initial states.                                                   *)
(***************************************************************************)
EXTENDS TaskSupervision, RunEnvironment, ComponentSandbox, ComponentChecks, TLC

CONSTANTS both, coreOnly, taskOnly, x1, x2

VARIABLE part

-----------------------------------------------------------------------------
(* Releases, and components tests offer *)

Certified ==
  [v3 |-> TRUE, sdk |-> TRUE, contract |-> "V3_2",
   importable |-> {"xcom", "weight-strategy", "notifier", "secrets-backend", "policy", "jsonschema"},
   specs |-> [core |-> {both, coreOnly}, task |-> {both, taskOnly}, policy |-> {both}],
   seen |-> [core |-> {both, coreOnly}, task |-> {both, taskOnly}, policy |-> {both}],
   accepts |-> [h \in Hooks |-> IF h = both THEN {x1} ELSE {x1, x2}]]

MCReleases ==
  << Certified,
    [Certified EXCEPT !.sdk = FALSE, !.contract = "V3_1", !.specs["task"] = {}, !.seen["task"] = {}],
    [Certified EXCEPT !.seen["task"] = {}, !.importable = {"policy"}],
    [Certified EXCEPT !.seen["core"] = {both}, !.contract = "unresolved"],
    [Certified EXCEPT !.seen["core"] = {}, !.seen["policy"] = {}, !.importable = @ \ {"policy"}],
    [Certified EXCEPT !.v3 = FALSE] >>

Clean ==
  [bases |-> {}, class |-> FALSE, local |-> FALSE, definer |-> [m \in Methods |-> "user"], partitioned |-> FALSE,
   payload |-> "json", impls |-> [s \in {"listener", "policy"} |-> {}], stale |-> FALSE,
   sentry |-> [supports_sentry |-> "absent", sentry_integration |-> "str"], orm |-> FALSE,
   binds |-> {"serialize_value", "deserialize_value"}, abstract |-> FALSE, hash |-> "own", fields |-> "carried",
   returns |-> [g \in Getters |-> "nullable"], named |-> TRUE, provider |-> FALSE, info |-> "own name",
   conforms |-> TRUE, owned |-> TRUE, discovered |-> TRUE]

Of(kind) == [Clean EXCEPT !.bases = {kind}]

\* What sets a component apart from a clean one of its kind.
Varieties ==
  {"listener", "policy"} \X [hook : Hooks, args : {{x1}, {x2}}] \X [hook : Hooks, args : {{x1}, {x2}}]
    \cup {"timetable"} \X BOOLEAN \X BOOLEAN \X {"absent", "json", "other"}
    \cup {"methods"} \X {"next_dagrun_info", "iter_partition_dagrun_infos", "deserialize"} \X BOOLEAN
    \cup {"notifier"} \X BOOLEAN \X {"base", "user"} \X {"carried", "text"}
    \cup {"executor"} \X {"airflow", "base"} \X BOOLEAN \X BOOLEAN
    \cup {"sentry"} \X {"absent", "bool", "str"}
    \cup {"xcom", "xcom unrelated"} \X BOOLEAN \X {"airflow", "user"}
    \cup {"weight-strategy"} \X BOOLEAN \X {"None", "base", "own"}
    \cup {"secrets-backend"} \X {"unknown", "never None"}
    \cup {"plugin"} \X {{"plugin"}, {"plugin", "timetable"}} \X BOOLEAN
    \cup {"provider"} \X {"own name", "other name", "raises"} \X [conforms : BOOLEAN, owned : BOOLEAN, discovered : BOOLEAN]

Offering(v) ==
  CASE v[1] \in {"listener", "policy"} -> [Clean EXCEPT !.impls[v[1]] = {v[2], v[3]}]
    [] v[1] = "timetable" -> [Of("timetable") EXCEPT !.class = v[2], !.local = v[3], !.payload = v[4]]
    [] v[1] = "methods" -> [Of("timetable") EXCEPT !.definer[v[2]] = "base", !.partitioned = v[3]]
    [] v[1] = "notifier" -> [Of("notifier") EXCEPT !.class = v[2], !.definer["notify"] = v[3], !.fields = v[4]]
    [] v[1] = "executor" -> [Of("executor") EXCEPT !.definer["end"] = v[2], !.local = v[3], !.stale = v[4]]
    [] v[1] = "sentry" -> [Of("executor") EXCEPT !.sentry["supports_sentry"] = v[2]]
    [] v[1] = "xcom" -> [Of("xcom") EXCEPT !.binds = {"serialize_value"}, !.orm = v[2], !.definer["deserialize_value"] = v[3]]
    [] v[1] = "xcom unrelated" -> [Clean EXCEPT !.orm = v[2], !.definer["deserialize_value"] = v[3]]
    [] v[1] = "weight-strategy" -> [Of("weight-strategy") EXCEPT !.abstract = v[2], !.hash = v[3]]
    [] v[1] = "secrets-backend" -> [Of("secrets-backend") EXCEPT !.returns["get_variable"] = v[2]]
    [] v[1] = "plugin" -> [Clean EXCEPT !.bases = v[2], !.named = v[3]]
    [] v[1] = "provider" ->
         [Clean EXCEPT !.provider = TRUE, !.info = v[2], !.conforms = v[3].conforms, !.owned = v[3].owned,
                       !.discovered = v[3].discovered]

MCOffered == [v \in Varieties |-> Offering(v)]

SupervisionParked == Init /\ endpoint = Absent /\ ~useCache

ParkedSetup ==
  [ambient |-> [n \in Names |-> "absent"], family |-> "v3", executor |-> "", ini |-> {},
   drift_policy |-> "error", xdist |-> FALSE, conftest |-> "none"]

EnvironmentParked == EnvironmentInit /\ setup = ParkedSetup

SandboxParked == SandboxInit /\ ~sdk

ChecksParked ==
  /\ release = 1 /\ offered = <<"sentry", "absent">> /\ call = [op |-> "check", kind |-> "any"]
  /\ ChecksInit

MCInit ==
  \/ part = "supervision" /\ Init /\ EnvironmentParked /\ SandboxParked /\ ChecksParked
  \/ part = "environment" /\ SupervisionParked /\ EnvironmentInit /\ SandboxParked /\ ChecksParked
  \/ part = "sandbox" /\ SupervisionParked /\ EnvironmentParked /\ SandboxInit /\ ChecksParked
  \/ part = "checks" /\ SupervisionParked /\ EnvironmentParked /\ SandboxParked /\ ChecksInit

MCNext ==
  /\ UNCHANGED part
  /\ \/ part = "supervision" /\ Next /\ UNCHANGED <<environmentVars, sandboxVars, checkVars>>
     \/ part = "environment" /\ EnvironmentNext /\ UNCHANGED <<vars, sandboxVars, checkVars>>
     \/ part = "sandbox" /\ SandboxNext /\ UNCHANGED <<vars, environmentVars, checkVars>>
     \/ part = "checks" /\ ChecksNext /\ UNCHANGED <<vars, environmentVars, sandboxVars>>

MCSpec == MCInit /\ [][MCNext]_<<part, vars, environmentVars, sandboxVars, checkVars>>

Symmetry == Permutations(Tasks \ OwnDag) \cup Permutations(Values)
=============================================================================
