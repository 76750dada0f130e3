--------------------------- MODULE ComponentChecks --------------------------
(***************************************************************************)
(* The conformance checks of custom components (_compat/components.py,     *)
(* components.py) and the gate they are for the component sandbox: a test  *)
(* hands a component to a registration method, the checks of one kind run  *)
(* on it, the problems that matter for this registration refuse it, and    *)
(* what is let in enters one registry after the other.                     *)
(*                                                                         *)
(* A component is what the checks can tell of one.  Reading an attribute   *)
(* gives it or does not; where the checks catch one that raises, that is   *)
(* told apart.  What an installed release answers is a record too.         *)
(***************************************************************************)
EXTENDS Naturals, Sequences, FiniteSets

CONSTANTS
  Hooks,         \* names a hookimpl may carry
  Args,          \* names an argument of one may have
  Releases,      \* what a release answers, by release
  Offered        \* what the checks can tell of a component, by component

VARIABLES
  release,       \* the release installed
  offered,       \* the component a test offers
  call,          \* what the test asks for, in Calls
  problems,      \* the codes of the problems the report keeps
  outcome,       \* how the call stands
  pending,       \* the registries still to enter, the next one first
  entered        \* the registries entered

checkVars == <<release, offered, call, problems, outcome, pending, entered>>

Bases == {"timetable", "executor", "xcom", "weight-strategy", "notifier", "secrets-backend", "plugin"}
Kinds == Bases \cup {"listener", "policy", "provider"}
Scopes == {"core", "task", "policy"}
Getters == {"get_conn_value", "get_connection", "get_variable", "get_config"}
Methods ==
  Getters \cup {"infer_manual_data_interval", "next_dagrun_info", "get_partition_mapper",
                "iter_partition_dagrun_infos", "serialize", "deserialize", "sync", "_process_workloads",
                "end", "serialize_value", "deserialize_value", "notify"}
SentryFlags == {"supports_sentry", "sentry_integration"}

\* _HookimplInfo: the hookspec named and the arguments pluggy validates.
Hookimpls == [hook : Hooks, args : SUBSET Args]

\* bases: the kinds whose base class is in the MRO.  definer: _defining_class, nobody,
\* the base of the kind, another class of Airflow's or one of the user's.  payload:
\* what serialize() gives; fields: what becomes of template_fields.
\* info: what calling get_provider_info gives: a dict with the distribution's name,
\* with another, without one, no dict, or an exception.
ComponentType ==
  [bases : SUBSET Bases, class : BOOLEAN, local : BOOLEAN, definer : [Methods -> {"nobody", "base", "airflow", "user"}],
   partitioned : BOOLEAN, payload : {"absent", "json", "other", "raises"},
   impls : [{"listener", "policy"} -> SUBSET Hookimpls], stale : BOOLEAN,
   sentry : [SentryFlags -> {"absent", "bool", "str"}], orm : BOOLEAN,
   binds : SUBSET {"serialize_value", "deserialize_value"}, abstract : BOOLEAN, hash : {"None", "base", "own"},
   fields : {"carried", "not carried", "text", "unusable", "raises"},
   returns : [Getters -> {"unknown", "nullable", "never None"}], named : BOOLEAN,
   provider : BOOLEAN, info : {"own name", "other name", "no name", "no dict", "raises"}, conforms : BOOLEAN,
   owned : BOOLEAN, discovered : BOOLEAN]

\* specs: the hookspecs each manager registers; seen: those of them in modules the
\* checks can import.  accepts: the arguments of a hookspec, the same in every manager.
ReleaseType ==
  [v3 : BOOLEAN, sdk : BOOLEAN, contract : {"unresolved", "V3_1", "V3_2"},
   importable : SUBSET {"xcom", "weight-strategy", "notifier", "secrets-backend", "policy", "jsonschema"},
   specs : [Scopes -> SUBSET Hooks], seen : [Scopes -> SUBSET Hooks], accepts : [Hooks -> SUBSET Args]]

Calls ==
  [op : {"check"}, kind : Kinds \cup {"any"}] \cup [op : {"listener"}, managers : SUBSET {"core", "task"}]
    \cup [op : {"plugin", "policy", "secrets_backend", "executor", "timetable", "schedule",
                "serialization_round_trip", "priority_weight_strategy", "round_trip"}]

ASSUME ReleasesReal ==
  \A n \in DOMAIN Releases :
    LET r == Releases[n] IN
      /\ r \in ReleaseType
      /\ \A s \in Scopes : r.seen[s] \subseteq r.specs[s]
      /\ ~r.sdk => r.specs["task"] = {}
      /\ "policy" \in r.importable => r.seen["policy"] = r.specs["policy"]

ASSUME OfferedReal == \A n \in DOMAIN Offered : Offered[n] \in ComponentType

Airflow == Releases[release]
Component == Offered[offered]

Entrances == {"core", "task", "policy", "plugins", "secrets", "executors"}
Outcomes == {"open", "reported", "refused", "unsupported", "entering", "broken", "registered"}

ChecksTypeOK ==
  /\ release \in DOMAIN Releases /\ offered \in DOMAIN Offered /\ call \in Calls
  /\ outcome \in Outcomes /\ pending \in Seq(Entrances) /\ entered \subseteq Entrances

-----------------------------------------------------------------------------
(* The checks: the codes of the problems one kind of them finds. *)

Problem(code, is) == IF is THEN {code} ELSE {}

Undefined(c, methods) == \E m \in methods : c.definer[m] \in {"nobody", "base"}

TimetableProblems(c) ==
  Problem("timetable-local-qualname", c.local)
    \cup Problem("timetable-missing-protocol-method",
               Undefined(c, {"infer_manual_data_interval", "next_dagrun_info"}
                              \cup IF c.partitioned THEN {"get_partition_mapper", "iter_partition_dagrun_infos"} ELSE {}))
    \cup Problem("timetable-serialize-pair-incomplete",
               (c.definer["serialize"] = "user") # (c.definer["deserialize"] = "user"))
    \cup Problem("timetable-serialize-not-json", ~c.class /\ c.payload \in {"other", "raises"})

\* _listener_hookspecs
Seen(scopes) == UNION {Airflow.seen[s] : s \in scopes}

\* Hookimpls no hookspec read has the name of.
Unmatched(impls, scopes) == \E i \in impls : i.hook \notin Seen(scopes)

\* Hookimpls with an argument their hookspec, if it was read, does not accept.
Misnamed(impls, scopes) == \E i \in impls : i.hook \in Seen(scopes) /\ ~(i.args \subseteq Airflow.accepts[i.hook])

\* A manager nothing was read of is taken for one that does not exist.
OutOfReach(impls, this, other) == Seen({other}) # {} /\ \E i \in impls : i.hook \in Seen({this}) \ Seen({other})

ListenerProblems(c) ==
  LET impls == c.impls["listener"] IN
    Problem("listener-no-matching-hookspec", Unmatched(impls, {"core", "task"}))
      \cup Problem("listener-unknown-argument", Misnamed(impls, {"core", "task"}))
      \cup Problem("listener-core-manager-only", OutOfReach(impls, "core", "task"))
      \cup Problem("listener-sdk-manager-only", OutOfReach(impls, "task", "core"))

\* The hookimpls cannot be told when the module of the marker cannot be imported.
PolicyProblems(c) ==
  LET impls == IF "policy" \in Airflow.importable THEN c.impls["policy"] ELSE {} IN
    Problem("policy-unknown-hookspec", Unmatched(impls, {"policy"}))
      \cup Problem("policy-argument-name-mismatch", Misnamed(impls, {"policy"}))

\* The other flag is one of another release, whatever its value.
SentryFlagWrong(c) ==
  LET expected == IF Airflow.contract = "V3_1" THEN "supports_sentry" ELSE "sentry_integration"
      type == IF Airflow.contract = "V3_1" THEN "bool" ELSE "str"
  IN \E f \in SentryFlags : c.sentry[f] \notin (IF f = expected THEN {"absent", type} ELSE {"absent"})

ExecutorProblems(c) ==
  Problem("executor-missing-override", Undefined(c, {"sync", "_process_workloads", "end"}))
    \cup Problem("executor-stale-attribute", c.stale)
    \cup Problem("executor-flag-wrong-type", Airflow.contract # "unresolved" /\ SentryFlagWrong(c))

\* An override that is not the user's is not probed.
XComProblems(c) ==
  Problem("xcom-orm-deserialize-removed", c.orm)
    \cup Problem("xcom-backend-signature",
               /\ "xcom" \in Airflow.importable
               /\ \/ "xcom" \notin c.bases
                  \/ \E m \in {"serialize_value", "deserialize_value"} : c.definer[m] = "user" /\ m \notin c.binds)

WeightStrategyProblems(c) ==
  Problem("weight-strategy-abstract", c.abstract)
    \cup Problem("weight-strategy-hash-of-none", "weight-strategy" \in Airflow.importable /\ c.hash \in {"None", "base"})

\* A class carries no field its constructor would assign.
NotifierProblems(c) ==
  Problem("notifier-missing-notify", "notifier" \in Airflow.importable /\ Undefined(c, {"notify"}))
    \cup Problem("notifier-template-fields-unresolvable", ~c.class /\ c.fields # "carried")

SecretsBackendProblems(c) ==
  Problem("secrets-backend-raises-on-miss",
        /\ "secrets-backend" \in Airflow.importable
        /\ \E g \in Getters : c.definer[g] = "user" /\ c.returns[g] = "never None")

PluginProblems(c) == Problem("plugin-name-missing", ~c.named)

\* Only something callable that is not a class is called.
ProviderProblems(c) ==
  IF ~c.provider THEN {}
  ELSE Problem("provider-info-schema", "jsonschema" \in Airflow.importable /\ (c.info = "raises" \/ ~c.conforms))
         \cup Problem("provider-package-name-mismatch", c.owned /\ c.info = "other name")
         \cup Problem("provider-no-entry-point", c.owned /\ ~c.discovered)

\* CHECK_REGISTRY: only the timetable checks run on a 2.x release.
ProblemsOf(kind, c) ==
  IF ~Airflow.v3 /\ kind # "timetable" THEN {}
  ELSE CASE kind = "timetable" -> TimetableProblems(c)
         [] kind = "listener" -> ListenerProblems(c)
         [] kind = "executor" -> ExecutorProblems(c)
         [] kind = "xcom" -> XComProblems(c)
         [] kind = "weight-strategy" -> WeightStrategyProblems(c)
         [] kind = "notifier" -> NotifierProblems(c)
         [] kind = "secrets-backend" -> SecretsBackendProblems(c)
         [] kind = "policy" -> PolicyProblems(c)
         [] kind = "plugin" -> PluginProblems(c)
         [] kind = "provider" -> ProviderProblems(c)

\* KIND_CLASSIFIERS
Classified(c) ==
  {k \in Kinds :
     CASE k \in {"timetable", "executor"} -> k \in c.bases
       [] k = "listener" -> c.impls["listener"] # {}
       [] k = "policy" -> Airflow.v3 /\ "policy" \in Airflow.importable /\ c.impls["policy"] # {}
       [] k = "provider" -> Airflow.v3 /\ c.provider
       [] k = "plugin" -> Airflow.v3 /\ k \in c.bases
       [] OTHER -> Airflow.v3 /\ k \in Airflow.importable \cap c.bases}

\* check_component
Report(kind, c) == UNION {ProblemsOf(k, c) : k \in IF kind = "any" THEN Classified(c) ELSE {kind}}

-----------------------------------------------------------------------------
(* The gate (fixtures/components.py) *)

RoundTripKinds == {"plugin", "listener", "executor", "secrets-backend", "timetable", "weight-strategy"}

\* The kind whose checks run.
GateKind ==
  CASE call.op \in {"plugin", "listener", "policy", "executor", "timetable"} -> call.op
    [] call.op = "secrets_backend" -> "secrets-backend"
    [] call.op \in {"schedule", "serialization_round_trip"} -> "timetable"
    [] call.op = "priority_weight_strategy" -> "weight-strategy"
    [] call.op = "round_trip" -> CHOOSE k \in Classified(Component) \cap RoundTripKinds : TRUE

\* The managers a listener is to be registered with: with both by default, round_trip
\* with those there are.
Asked ==
  IF call.op = "listener" THEN call.managers
  ELSE {"core"} \cup IF Airflow.sdk THEN {"task"} ELSE {}

\* Mutant: a manager moots the problems of the other.
MootedSwapped ==
  Problem("listener-sdk-manager-only", "core" \in Asked) \cup Problem("listener-core-manager-only", "task" \in Asked)

\* _scoped_listener_problems
Mooted ==
  Problem("listener-core-manager-only", "core" \in Asked) \cup Problem("listener-sdk-manager-only", "task" \in Asked)

\* The problems that refuse the component: all of the kind, but those this scope of
\* registration moots, and dag_maker minds only one.
Blocking ==
  LET all == ProblemsOf(GateKind, Component) IN
    IF GateKind = "listener" THEN all \ Mooted
    ELSE IF call.op = "schedule" THEN all \cap {"timetable-local-qualname"} ELSE all

\* Refused before the checks.  policy() makes a plugin of the hooks it is given.
Unfit ==
  \/ call.op = "round_trip" /\ Cardinality(Classified(Component) \cap RoundTripKinds) # 1
  \/ call.op = "serialization_round_trip" /\ Component.class
  \/ call.op = "policy" /\ (Component.impls["policy"] = {} \/ "policy" \notin Airflow.importable)

\* Refused after them.
Unsupported ==
  \/ GateKind = "listener" /\ (Asked = {} \/ ("task" \in Asked /\ ~Airflow.sdk))
  \/ GateKind = "executor" /\ Component.local

\* The registries of a registration, in the order entered.
Targets ==
  CASE GateKind = "listener" ->
         IF "core" \notin Asked THEN <<"task">> ELSE IF "task" \notin Asked THEN <<"core">> ELSE <<"core", "task">>
    [] GateKind = "policy" -> <<"policy">>
    [] GateKind = "secrets-backend" -> <<"secrets">>
    [] GateKind = "executor" -> <<"executors">>
    [] OTHER -> <<"plugins">>

ChecksInit ==
  /\ release \in DOMAIN Releases /\ offered \in DOMAIN Offered /\ call \in Calls
  /\ problems = {} /\ outcome = "open" /\ pending = <<>> /\ entered = {}

\* check_component, called by the test.
CheckComponent ==
  /\ outcome = "open" /\ call.op = "check"
  /\ problems' = Report(call.kind, Component) /\ outcome' = "reported"
  /\ UNCHANGED <<release, offered, call, pending, entered>>

\* A registration method up to its first change of a registry.
Gate ==
  /\ outcome = "open" /\ call.op # "check"
  /\ IF Unfit THEN outcome' = "unsupported" /\ UNCHANGED <<problems, pending>>
     ELSE /\ problems' = Blocking
          /\ outcome' = IF Blocking # {} THEN "refused" ELSE IF Unsupported THEN "unsupported" ELSE "entering"
          /\ pending' = IF outcome' = "entering" THEN Targets ELSE <<>>
  /\ UNCHANGED <<release, offered, call, entered>>

\* pluggy validates the hookimpls of a plugin one by one while it registers it, and
\* raises on an argument the hookspec does not have.
Invalid(m) ==
  \E i \in Component.impls[IF m = "policy" THEN "policy" ELSE "listener"] :
    i.hook \in Airflow.specs[m] /\ ~(i.args \subseteq Airflow.accepts[i.hook])

\* register_listener, register_policy and the others: one registry.
EnterOne ==
  /\ outcome = "entering"
  /\ entered' = entered \cup {Head(pending)}
  /\ IF Head(pending) \in Scopes /\ Invalid(Head(pending)) THEN outcome' = "broken" /\ UNCHANGED pending
     ELSE /\ pending' = Tail(pending)
          /\ outcome' = IF pending' = <<>> THEN "registered" ELSE "entering"
  /\ UNCHANGED <<release, offered, call, problems>>

Settled == outcome \notin {"open", "entering"} /\ UNCHANGED checkVars

ChecksNext == CheckComponent \/ Gate \/ EnterOne \/ Settled

ChecksSpec == ChecksInit /\ [][ChecksNext]_checkVars

-----------------------------------------------------------------------------
(* Properties *)

\* A hookimpl that would be called through one of the managers.
Fires(i, managers) == \E m \in managers : i.hook \in Airflow.specs[m] /\ i.args \subseteq Airflow.accepts[i.hook]

\* Registration never fails between two registries of a 3.x release, whichever of the
\* release's modules the checks could not import (_check_listener_unknown_argument:
\* "pluggy hard-errors at registration time on an unknown hookimpl argument name").
NeverHalfRegistered == Airflow.v3 => outcome # "broken"

\* Every hookimpl let in is called through a registry it entered, where the checks could
\* read a hookspec of each (_scoped_listener_problems: "real registration problems ONLY
\* when the one manager carrying the hookspec was not requested").
HookimplsFire ==
  /\ Airflow.v3 /\ outcome = "registered" /\ GateKind \in {"listener", "policy"}
  /\ \A m \in entered : Airflow.seen[m] # {}
  => \A i \in Component.impls[GateKind] : Fires(i, entered)

\* A listener or a policy is refused only for a hookimpl that nothing asked for would
\* call, where the checks could read every hookspec.
RefusalsJustified ==
  outcome = "refused" /\ Airflow.seen = Airflow.specs /\ GateKind \in {"listener", "policy"} =>
    \E i \in Component.impls[GateKind] : ~Fires(i, IF GateKind = "listener" THEN Asked ELSE {"policy"})

\* Whichever way it came in, strictly or through dag_maker, a timetable is found again
\* by its qualified name, and an executor by its import path.
FoundAgain == outcome = "registered" /\ GateKind \in {"timetable", "executor"} => ~Component.local

\* How Airflow 3 fails a component in use, of the kinds it calls without hookspecs.
FailsInUse(kind, c) ==
  CASE kind = "timetable" -> c.local \/ c.payload \in {"other", "raises"}
                               \/ Undefined(c, {"infer_manual_data_interval", "next_dagrun_info"})
    [] kind = "executor" -> Undefined(c, {"sync", "_process_workloads", "end"})
    [] kind = "xcom" -> "xcom" \notin c.bases \/ \E m \in {"serialize_value", "deserialize_value"} :
                                                   c.definer[m] = "user" /\ m \notin c.binds
    [] kind = "weight-strategy" -> c.abstract \/ c.hash # "own"
    [] kind = "notifier" -> Undefined(c, {"notify"}) \/ c.fields # "carried"
    [] kind = "plugin" -> ~c.named
    [] kind = "provider" -> c.info \in {"raises", "other name"} \/ ~c.conforms \/ ~c.discovered
    [] OTHER -> FALSE

\* What the checks of a kind cannot see: an instance's state on its class, the
\* distribution of a provider they cannot attribute, a module they cannot import.
Unseen(kind, c) ==
  \/ kind \in {"timetable", "notifier"} /\ c.class
  \/ kind = "provider" /\ (~c.owned \/ ~c.provider \/ "jsonschema" \notin Airflow.importable)
  \/ kind \in {"xcom", "weight-strategy", "notifier"} \ Airflow.importable

\* A clean report of an instance means Airflow can use it: by name, by the methods it
\* calls, with the arguments it passes (check_component).
CleanIsUsable ==
  outcome = "reported" /\ problems = {} /\ Airflow.v3 =>
    \A k \in IF call.kind = "any" THEN Classified(Component) ELSE {call.kind} :
      FailsInUse(k, Component) => Unseen(k, Component)

\* A component that is refused, or only checked, is in no registry.
RefusedStaysOut == outcome \in {"reported", "refused", "unsupported"} => entered = {}

\* What the gate lets into Airflow's registries works there, and what it keeps out stays
\* out for a reason (check_component, _ComponentSandbox).
GateSound ==
  /\ ChecksTypeOK /\ NeverHalfRegistered /\ HookimplsFire /\ RefusalsJustified /\ FoundAgain
  /\ CleanIsUsable /\ RefusedStaysOut
=============================================================================
