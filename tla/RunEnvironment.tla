---------------------------- MODULE RunEnvironment -------------------------
(***************************************************************************)
(* The environment variables of a run's processes, from bootstrap to       *)
(* unconfigure: what the controller installs and restores (bootstrap.py),  *)
(* the airflow_config ini option (ini_config.py), airflow_config contexts  *)
(* and airflow_configure batches (config.py, fixtures/configure.py), the   *)
(* settings Airflow derives from them, and the check a child process makes *)
(* of what it inherits.                                                    *)
(*                                                                         *)
(* Four names stand for the kinds there are: "dags_folder", which every    *)
(* run sets; "secret_key", which bootstrap owns and sets on 2.x only;      *)
(* "executor", which it sets but does not own; "option", any other.        *)
(***************************************************************************)
EXTENDS Naturals, Sequences, FiniteSets

CONSTANTS
  Children,      \* xdist workers or isolated children
  MaxScopes      \* bound on the scopes open at once

VARIABLES
  setup,         \* the invocation: what is fixed before the first hook runs
  env,           \* os.environ of each process
  settings,      \* airflow.settings.DAGS_FOLDER of each process
  pc,            \* where each process stands
  cleanups,      \* config.add_cleanup: each entry, the values it puts back
  overrides,     \* the airflow_config contexts open, innermost last
  base,          \* what each process entered its session with
  stale          \* whose last refresh raised
                 \* (base and stale are not variables of the code)

environmentVars == <<setup, env, settings, pc, cleanups, overrides, base, stale>>

ctl == "controller"
ASSUME ControllerAlone == ctl \notin Children

Processes == {ctl} \cup Children
Names == {"dags_folder", "secret_key", "executor", "option"}
Readings == {"absent", "ambient", "run", "sequential", "configured", "ini", "drift", "override"}

\* _environment_names
Owned == {"dags_folder", "secret_key"}

\* Stands for a name an assignment does not mention.
Untouched == "untouched"
Assignments == [Names -> Readings \cup {Untouched}]

\* _assign
Assign(values, e) == [n \in Names |-> IF values[n] = Untouched THEN e[n] ELSE values[n]]
Snapshot(names, e) == [n \in Names |-> IF n \in names THEN e[n] ELSE Untouched]
Only(name, value) == [n \in Names |-> IF n = name THEN value ELSE Untouched]

Overrides == [orig : Assignments, name : Names, refresh : BOOLEAN, session : BOOLEAN]

EnvironmentTypeOK ==
  /\ env \in [Processes -> [Names -> Readings]]
  /\ settings \in [Processes -> Readings \cup {"unimported"}]
  /\ pc \in [Processes -> {"start", "inherited", "configure", "conftest", "session", "teardown",
                             "refused", "gone"}]
  /\ cleanups \in [Processes -> Seq(Assignments)]
  /\ overrides \in [Processes -> Seq(Overrides)]
  /\ base \in [Processes -> [Names -> Readings]]
  /\ stale \subseteq Processes

\* The shell's values, the family, airflow_executor, airflow_config,
\* airflow_worker_env_drift, how tests reach children, and what a conftest or
\* another plugin writes to os.environ when it is imported.
Setups ==
  [ambient : {[n \in Names |-> v] : v \in {"absent", "ambient"}}, family : {"v2", "v3"},
   executor : {"", "configured"}, ini : SUBSET {"executor", "option"},
   drift_policy : {"error", "repair"}, xdist : BOOLEAN, conftest : Names \cup {"none"}]

EnvironmentInit ==
  /\ setup \in Setups
  /\ env = [p \in Processes |-> setup.ambient]
  /\ settings = [p \in Processes |-> "unimported"]
  /\ pc = [p \in Processes |-> "start"]
  /\ cleanups = [p \in Processes |-> <<>>]
  /\ overrides = [p \in Processes |-> <<>>]
  /\ base = [p \in Processes |-> setup.ambient]
  /\ stale = {}

-----------------------------------------------------------------------------
(* Bootstrap *)

\* _environment: what this run sets, given the environment it is asked in.
Environment(e) ==
  [n \in Names |->
     CASE n = "dags_folder" -> "run"
       [] n = "secret_key" -> IF setup.family = "v2" THEN "run" ELSE Untouched
       [] n = "executor" -> IF setup.executor # "" THEN "configured"
                            ELSE IF setup.family = "v2" /\ e["executor"] = "absent" THEN "sequential"
                            ELSE Untouched
       [] OTHER -> Untouched]

\* _install_environment: owned names this run does not set are removed.
Install(e) ==
  [n \in Names |-> IF Environment(e)[n] # Untouched THEN Environment(e)[n]
                   ELSE IF n \in Owned THEN "absent" ELSE e[n]]

\* Mutant: the executor is left out of what the cleanup puts back.
OriginalOwned(e) == Snapshot(Owned, e)

Original(e) == Snapshot(Owned \cup {"executor"}, e)

\* _owner_state
Bootstrap ==
  /\ pc[ctl] = "start"
  /\ env' = [env EXCEPT ![ctl] = Install(env[ctl])]
  /\ cleanups' = [cleanups EXCEPT ![ctl] = Append(@, Original(env[ctl]))]
  /\ pc' = [pc EXCEPT ![ctl] = "configure"]
  /\ UNCHANGED <<setup, settings, overrides, base, stale>>

\* Mutant: children rely on what they inherit.
IniOfController(p) == IF p = ctl THEN setup.ini ELSE {}

IniOf(p) == setup.ini

\* apply_ini_overrides, in every process.
ApplyIni(p) ==
  /\ pc[p] = "configure"
  /\ env' = [env EXCEPT ![p] = [n \in Names |-> IF n \in IniOf(p) THEN "ini" ELSE @[n]]]
  /\ cleanups' = [cleanups EXCEPT ![p] = Append(@, Snapshot(IniOf(p), env[p]))]
  /\ pc' = [pc EXCEPT ![p] = "conftest"]
  /\ UNCHANGED <<setup, settings, overrides, base, stale>>

\* Conftests are imported; one may write to os.environ.
Conftest(p) ==
  /\ pc[p] = "conftest"
  /\ env' = [env EXCEPT ![p] = Assign(Only(setup.conftest, "drift"), @)]
  /\ base' = [base EXCEPT ![p] = env'[p]]
  /\ pc' = [pc EXCEPT ![p] = "session"]
  /\ UNCHANGED <<setup, settings, cleanups, overrides, stale>>

-----------------------------------------------------------------------------
(* Children *)

Alive(c) == pc[c] \in {"inherited", "configure", "conftest", "session", "teardown"}

\* Popen: the child inherits what the controller has at that moment, the
\* scopes open in an isolated item's session included.
Spawn(c) ==
  /\ pc[c] = "start" /\ pc[ctl] = "session"
  /\ (setup.xdist \/ \A d \in Children : ~Alive(d))
  /\ env' = [env EXCEPT ![c] = env[ctl]]
  /\ pc' = [pc EXCEPT ![c] = "inherited"]
  /\ UNCHANGED <<setup, settings, cleanups, overrides, base, stale>>

\* Mutant: the inherited environment is taken as it is.
MismatchedNone(e) == {}

Mismatched(e) == {n \in Names : Environment(e)[n] \notin {Untouched, e[n]}}

\* load_initial_state in a child: it is refused, repaired or taken.
LoadInitialState(c) ==
  /\ pc[c] = "inherited"
  /\ IF Mismatched(env[c]) # {} /\ setup.drift_policy = "error"
     THEN pc' = [pc EXCEPT ![c] = "refused"] /\ UNCHANGED env
     ELSE /\ env' = [env EXCEPT ![c] =
               IF Mismatched(@) = {} THEN @ ELSE Assign(Environment(@), @)]
          /\ pc' = [pc EXCEPT ![c] = "configure"]
  /\ UNCHANGED <<setup, settings, cleanups, overrides, base, stale>>

-----------------------------------------------------------------------------
(* airflow_config scopes of the tests and fixtures of a process *)

\* Under xdist the controller runs no tests; otherwise it runs them all but the
\* isolated ones, and waits for the child that runs those.
RunsTests(p) ==
  pc[p] = "session" /\ (p = ctl => ~setup.xdist /\ \A c \in Children : ~Alive(c))

\* Bound: MaxScopes scopes open at once, over all processes.
OpenOverrides == {o \in Processes \X (1..MaxScopes) : o[2] <= Len(overrides[o[1]])}
MayOpen(p) == RunsTests(p) /\ Cardinality(OpenOverrides) < MaxScopes

\* airflow.settings computes its globals once, at import.
ImportAirflow(p) ==
  /\ RunsTests(p) /\ settings[p] = "unimported"
  /\ settings' = [settings EXCEPT ![p] = env[p]["dags_folder"]]
  /\ UNCHANGED <<setup, env, pc, cleanups, overrides, base, stale>>

\* configure_vars reads what the environment holds at that point.
DerivedSetting(before, after) == after["dags_folder"]

\* _refresh_settings in the finally clause, if asked for; it may raise.
LeavingRefresh(p, refresh, before, after) ==
  \/ ~refresh /\ UNCHANGED <<settings, stale>>
  \/ /\ refresh
     /\ settings' = [settings EXCEPT ![p] = DerivedSetting(before, after)]
     /\ stale' = stale \ {p}
  \/ refresh /\ stale' = stale \cup {p} /\ UNCHANGED settings

\* A with statement or a decorated test (session = FALSE), or a batch of
\* airflow_configure, which tests make outside of their own with statements.
\* Who overrides what settings derive from asks for the refresh.
Enter(p, name, value, refresh, session) ==
  /\ MayOpen(p)
  /\ name = "dags_folder" => refresh
  /\ session => \A i \in 1..Len(overrides[p]) : overrides[p][i].session
  /\ env' = [env EXCEPT ![p] = Assign(Only(name, value), @)]
  /\ overrides' = [overrides EXCEPT ![p] = Append(@,
       [orig |-> Snapshot({name}, env[p]), name |-> name, refresh |-> refresh, session |-> session])]
  /\ IF refresh THEN settings' = [settings EXCEPT ![p] = env'[p]["dags_folder"]] /\ stale' = stale \ {p}
     ELSE UNCHANGED <<settings, stale>>
  /\ UNCHANGED <<setup, pc, cleanups, base>>

\* The refresh on the way in raises: the finally clause runs, the body does not.
EnterRaises(p, name, value) ==
  /\ MayOpen(p)
  /\ LET assigned == Assign(Only(name, value), env[p])
         restored == Assign(Snapshot({name}, env[p]), assigned) IN
     /\ env' = [env EXCEPT ![p] = restored]
     /\ LeavingRefresh(p, TRUE, assigned, restored)
  /\ UNCHANGED <<setup, pc, cleanups, overrides, base>>

\* The innermost scope ends, by return or by an exception; those of the session
\* when its fixture is torn down, whatever the ones above them raised.
Exit(p) ==
  /\ overrides[p] # <<>>
  /\ p = ctl => \A c \in Children : ~Alive(c)
  /\ LET last == overrides[p][Len(overrides[p])]
         restored == Assign(last.orig, env[p]) IN
     /\ pc[p] = IF last.session THEN "teardown" ELSE "session"
     /\ env' = [env EXCEPT ![p] = restored]
     /\ LeavingRefresh(p, last.refresh, env[p], restored)
  /\ overrides' = [overrides EXCEPT ![p] = SubSeq(@, 1, Len(@) - 1)]
  /\ UNCHANGED <<setup, pc, cleanups, base>>

EndSession(p) ==
  /\ pc[p] = "session"
  /\ \A i \in 1..Len(overrides[p]) : overrides[p][i].session
  /\ p = ctl => \A c \in Children : ~Alive(c)
  /\ pc' = [pc EXCEPT ![p] = "teardown"]
  /\ UNCHANGED <<setup, env, settings, cleanups, overrides, base, stale>>

\* Config._ensure_unconfigure: cleanups run last in, first out.
Unconfigure(p) ==
  /\ pc[p] = "teardown" /\ overrides[p] = <<>> /\ cleanups[p] # <<>>
  /\ env' = [env EXCEPT ![p] = Assign(cleanups[p][Len(cleanups[p])], @)]
  /\ cleanups' = [cleanups EXCEPT ![p] = SubSeq(@, 1, Len(@) - 1)]
  /\ pc' = [pc EXCEPT ![p] = IF cleanups'[p] = <<>> THEN "gone" ELSE "teardown"]
  /\ UNCHANGED <<setup, settings, overrides, base, stale>>

EnvironmentEnded == pc[ctl] = "gone" /\ UNCHANGED environmentVars

EnvironmentNext ==
  \/ Bootstrap
  \/ \E c \in Children : Spawn(c) \/ LoadInitialState(c)
  \/ \E p \in Processes :
       \/ ApplyIni(p) \/ Conftest(p) \/ ImportAirflow(p) \/ Exit(p) \/ EndSession(p) \/ Unconfigure(p)
       \/ EnterRaises(p, "dags_folder", "override") \/ EnterRaises(p, "option", "absent")
       \/ \E refresh, session \in BOOLEAN :
            Enter(p, "dags_folder", "override", refresh, session) \/ Enter(p, "option", "absent", refresh, session)
  \/ EnvironmentEnded

EnvironmentSpec == EnvironmentInit /\ [][EnvironmentNext]_environmentVars

-----------------------------------------------------------------------------
(* Properties *)

\* When the invocation is over, the caller's environment is back to what it
\* was, whatever was overridden and raised on the way - but for a name that a
\* conftest wrote and nobody had set aside.
EnvRestored ==
  pc[ctl] = "gone" =>
    \A n \in Names : \/ env[ctl][n] = setup.ambient[n]
                     \/ n = setup.conftest /\ n \notin Owned \cup {"executor"} \cup setup.ini

\* Between scopes a process has the environment it entered its session with,
\* and Airflow's settings agree with it unless a refresh has just raised.
QuietIsClean ==
  \A p \in Processes : pc[p] = "session" /\ overrides[p] = <<>>
    => /\ env[p] = base[p]
       /\ settings[p] \in {"unimported", env[p]["dags_folder"]} \/ p \in stale

\* A child runs its tests on the folders of its own run, though it was spawned
\* off an environment that a test or a conftest had changed.
ChildrenOnTheirRun ==
  \A c \in Children : pc[c] = "session" /\ overrides[c] = <<>>
    => env[c]["dags_folder"] = IF setup.conftest = "dags_folder" THEN "drift" ELSE "run"

\* A parallel run ends up behaving like the serial run: a worker starts its
\* session with the environment the controller started with.
ParallelIsSerial ==
  \A c \in Children : setup.xdist /\ pc[c] = "session" => base[c] = base[ctl]

\* What overrides and bootstrap changed in the environment is changed back
\* (airflow_config, config.add_cleanup).
EnvironmentSound == EnvironmentTypeOK /\ EnvRestored /\ QuietIsClean
=============================================================================
