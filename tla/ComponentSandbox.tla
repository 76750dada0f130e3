-------------------------- MODULE ComponentSandbox --------------------------
(***************************************************************************)
(* The component sandbox (fixtures/components.py, _compat/components.py):  *)
(* a test registers plugins, listeners, policies, secrets backends,        *)
(* executors and timetables in Airflow's process-wide registries, and the  *)
(* fixture's teardown puts those back, step by step, whatever raises.      *)
(*                                                                         *)
(* A component is named by the test that registers it; Base stands for     *)
(* what the installation and the run's plugins folder provide.             *)
(***************************************************************************)
EXTENDS Naturals, Sequences, FiniteSets

CONSTANTS
  MaxSandboxTests, \* bound on the tests of the session
  MaxFailures,   \* bound on the restore steps that raise
  MaxLists,      \* bound on the lists a test has registered something in when it
                 \* registers more
  Closed         \* stands for no sandbox

VARIABLES
  reg,           \* Airflow's registries and the modules loaded, a record
  sdk,           \* whether the release has a Task SDK listener manager (3.2+)
  running,       \* the running test; Base between tests
  done,          \* the number of tests that ended
  snap,          \* the sandbox of the running test: reg as it was at its opening
  steps,         \* the restore steps still to run, the current one first
  raised,        \* the steps that raised in the teardown of each test
  claimed        \* whether the running test registered a timetable
                 \* (raised and claimed are not variables of the code)

sandboxVars == <<reg, sdk, running, done, snap, steps, raised, claimed>>

Base == 0
Tests == 1..MaxSandboxTests
Components == {Base} \cup Tests

\* Registries kept as lists, and the modules of sys.modules told apart: the
\* plugin file's, a library's nobody had imported yet, and one loaded before.
Lists == {"executors", "secrets", "core", "task", "policies"}
Modules == {"stem", "lib", "existing"}

\* What a module is bound to: nothing, the object it was bound to when the
\* sandbox of the running test was opened, or another one.
Bindings == {"absent", "kept", "new"}

\* plugins: the loaded list of each plugins manager, empty until it is loaded.
\* timetables: the cached lookup, empty until it is computed.
\* macros, submodules: attributes of the macros module, and its modules in sys.modules.
Registries ==
  [lists : [Lists -> SUBSET Components], noop : BOOLEAN, plugins : [{"core", "sdk"} -> SUBSET Components],
   timetables : SUBSET Components, integrated : BOOLEAN, macros : SUBSET Components,
   submodules : SUBSET Components, modules : [Modules -> Bindings], settings : SUBSET Components]

ASSUME SandboxBounds == MaxSandboxTests \in Nat

ASSUME ClosedIsNone == Closed \notin Registries

StepNames == Lists \cup {"noop", "modules", "caches", "macros", "settings"}

SandboxTypeOK ==
  /\ reg \in Registries /\ sdk \in BOOLEAN /\ running \in Components /\ done \in 0..MaxSandboxTests
  /\ (snap = Closed \/ snap \in Registries)
  /\ steps \in Seq(StepNames) /\ raised \in [Tests -> SUBSET StepNames] /\ claimed \in BOOLEAN

\* A process that has imported Airflow; managers are built and plugins loaded on
\* demand.
SandboxInit ==
  /\ sdk \in BOOLEAN
  /\ reg = [lists |-> [l \in Lists |-> IF l \in {"secrets", "policies"} THEN {Base} ELSE {}],
            noop |-> TRUE, plugins |-> [h \in {"core", "sdk"} |-> {}], timetables |-> {},
            integrated |-> FALSE, macros |-> {}, submodules |-> {},
            modules |-> [m \in Modules |-> IF m = "existing" THEN "kept" ELSE "absent"],
            settings |-> {Base}]
  /\ running = Base /\ done = 0 /\ snap = Closed /\ steps = <<>>
  /\ raised = [t \in Tests |-> {}] /\ claimed = FALSE

-----------------------------------------------------------------------------
(* What Airflow does to its registries; each maps the registries before to *)
(* those after.                                                            *)

\* Importing or executing a module binds its name to a fresh object.
Bound(g, m) == [g EXCEPT !.modules[m] = "new"]

\* _get_plugins of one manager: scans the plugins folder once.
Loaded(g, h) == IF g.plugins[h] # {} THEN g ELSE [Bound(g, "stem") EXCEPT !.plugins[h] = {Base}]

\* get_timetables_plugins
LookedUp(g) ==
  LET l == Loaded(g, "core") IN IF l.timetables # {} THEN l ELSE [l EXCEPT !.timetables = l.plugins["core"]]

\* integrate_macros_plugins: once; a module per plugin, and an attribute.
Integrated(g) ==
  LET l == Loaded(g, "core") IN
    IF l.integrated THEN l
    ELSE [l EXCEPT !.integrated = TRUE, !.macros = @ \cup l.plugins["core"], !.submodules = @ \cup l.plugins["core"]]

\* get_listener_manager: the first call builds it from the plugins.
Managed(g, l) == IF g.lists[l] # {} THEN g
                 ELSE [Loaded(g, IF l = "core" THEN "core" ELSE "sdk") EXCEPT !.lists[l] = {Base}]

-----------------------------------------------------------------------------
(* The sandbox *)

\* clear_plugins_manager_caches
Cleared(g) == [g EXCEPT !.plugins = [h \in {"core", "sdk"} |-> {}], !.timetables = {}, !.integrated = FALSE]

\* _ComponentSandbox.__init__: what is snapshotted before the executor names are
\* resolved and the managers built ...
Opening(g) == [Cleared(g) EXCEPT !.modules = [m \in Modules |-> IF @[m] = "absent" THEN "absent" ELSE "kept"]]

\* ... and after.
Opened(g) ==
  LET resolved == [Opening(g) EXCEPT !.lists["executors"] = IF @ = {} THEN {Base} ELSE @]
      core == Managed(resolved, "core")
  IN IF sdk THEN Managed(core, "task") ELSE core
SnapshotOf(g) == [Opening(g) EXCEPT !.lists = Opened(g).lists]

\* register_plugin: the same instance goes into every half's live list.
WithPlugin(g) ==
  LET l == Loaded(g, "core")
      b == IF sdk THEN Loaded(l, "sdk") ELSE l
  IN [b EXCEPT !.plugins = [h \in {"core", "sdk"} |-> IF b.plugins[h] = {} THEN {} ELSE b.plugins[h] \cup {running}]]

\* Mutant: the lookup is left cached.
InvalidatedNot(g) == g

\* invalidate_component_lookup_caches
Invalidated(g) == [g EXCEPT !.timetables = {}]

\* register_timetable, register_weight_strategy
WithTimetable(g) == Invalidated(WithPlugin(g))

InTest == running # Base /\ steps = <<>>
Sandboxed == InTest /\ snap # Closed
Room == Cardinality({l \in Lists : running \in reg.lists[l]}) < MaxLists

\* airflow_components, requested by the test or pulled in while it runs.
Open ==
  /\ InTest /\ snap = Closed
  /\ reg' = Opened(reg) /\ snap' = SnapshotOf(reg)
  /\ UNCHANGED <<sdk, running, done, steps, raised, claimed>>

\* dag_maker with a custom timetable: nothing to do if the lookup has it, else
\* registered, in the sandbox the test has or in a new one.
MakeDag ==
  /\ InTest
  /\ LET g == LookedUp(reg) IN
     IF running \in g.timetables THEN reg' = g /\ UNCHANGED <<snap, claimed>>
     ELSE /\ claimed' = TRUE
          /\ IF snap = Closed THEN reg' = WithTimetable(Opened(g)) /\ snap' = SnapshotOf(g)
             ELSE reg' = WithTimetable(g) /\ UNCHANGED snap
  /\ UNCHANGED <<sdk, running, done, steps, raised>>

\* _ComponentSandbox.plugin
Plugin ==
  /\ Sandboxed
  /\ reg' = WithPlugin(reg)
  /\ UNCHANGED <<sdk, running, done, snap, steps, raised, claimed>>

\* timetable(), priority_weight_strategy(): a throwaway plugin.
Timetable ==
  /\ Sandboxed
  /\ reg' = WithTimetable(reg) /\ claimed' = TRUE
  /\ UNCHANGED <<sdk, running, done, snap, steps, raised>>

\* _ComponentSandbox.executor, secrets_backend
Executor ==
  /\ Sandboxed /\ Room
  /\ reg' = [reg EXCEPT !.lists["executors"] = @ \cup {running}]
  /\ UNCHANGED <<sdk, running, done, snap, steps, raised, claimed>>

SecretsBackend ==
  /\ Sandboxed /\ Room
  /\ reg' = [reg EXCEPT !.lists["secrets"] = @ \cup {running}]
  /\ UNCHANGED <<sdk, running, done, snap, steps, raised, claimed>>

\* listener(): with either manager or both; refused when the release has no such
\* manager, before any is touched.
Listener ==
  /\ Sandboxed /\ Room
  /\ \E managers \in {{"core"}, {"task"}, {"core", "task"}} :
       /\ "task" \in managers => sdk
       /\ reg' = [reg EXCEPT !.lists = [l \in Lists |-> IF l \in managers THEN @[l] \cup {running} ELSE @[l]]]
  /\ UNCHANGED <<sdk, running, done, snap, steps, raised, claimed>>

\* policy(): the mutation hook is also switched on.
Policy ==
  /\ Sandboxed /\ Room
  /\ \E mutation_hook \in BOOLEAN :
       reg' = [reg EXCEPT !.lists["policies"] = @ \cup {running}, !.noop = @ /\ ~mutation_hook]
  /\ UNCHANGED <<sdk, running, done, snap, steps, raised, claimed>>

\* The test, or Airflow under it: a lookup, a template with macros, plugins read
\* by the Task SDK, a library imported, a module reloaded, a settings key.
Touch ==
  /\ InTest
  /\ reg' \in {LookedUp(reg), Integrated(reg), Bound(reg, "existing"),
               IF reg.modules["lib"] = "absent" THEN Bound(reg, "lib") ELSE reg,
               IF sdk THEN Loaded(reg, "sdk") ELSE reg,
               IF snap = Closed THEN reg ELSE [reg EXCEPT !.settings = @ \cup {running}]}
  /\ UNCHANGED <<sdk, running, done, snap, steps, raised, claimed>>

-----------------------------------------------------------------------------
(* finalize *)

Order ==
  <<"executors", "secrets", "noop", "core">> \o (IF sdk THEN <<"task">> ELSE <<>>)
    \o <<"policies", "modules", "caches", "macros", "settings">>

\* Mutant: sys.modules is put back as it was.
RestoredAll(g) == [g EXCEPT !.modules = snap.modules, !.submodules = snap.submodules]

\* restore_sys_modules: what was loaded is bound again to its object; of the
\* rest, only plugin files and macros submodules go.
RestoredModules(g) ==
  [g EXCEPT !.modules = [m \in Modules |-> IF snap.modules[m] # "absent" THEN "kept"
                                           ELSE IF m = "stem" THEN "absent" ELSE @[m]],
            !.submodules = snap.submodules]

\* restore_executor_loader, restore_secrets_backend_list, listener_manager_restore:
\* emptied and filled again from the snapshot.
RestoredList(g, l) == [g EXCEPT !.lists[l] = snap.lists[l]]

\* restore_policy_plugins, restore_macros_module_keys, restore_settings_keys: what
\* is not in the snapshot is removed.
RestoredPolicies(g) == [g EXCEPT !.lists["policies"] = @ \cap snap.lists["policies"]]
RestoredMacros(g) == [g EXCEPT !.macros = @ \cap snap.macros]
RestoredSettings(g) == [g EXCEPT !.settings = @ \cap snap.settings]

\* restore_task_instance_mutation_hook_is_noop
RestoredNoop(g) == [g EXCEPT !.noop = snap.noop]

RestoredBy(g, s) ==
  CASE s \in Lists \ {"policies"} -> RestoredList(g, s)
    [] s = "policies" -> RestoredPolicies(g)
    [] s = "noop" -> RestoredNoop(g)
    [] s = "modules" -> RestoredModules(g)
    [] s = "caches" -> Cleared(g)
    [] s = "macros" -> RestoredMacros(g)
    [] s = "settings" -> RestoredSettings(g)

\* What it may leave when it raises: all as it was, a list emptied and not
\* filled again, the core caches cleared and the others not.
LeftBy(g, s) ==
  {g} \cup (IF s \in {"executors", "core", "task"} THEN {[g EXCEPT !.lists[s] = {}]} ELSE {})
      \cup (IF s = "caches" THEN {[Cleared(g) EXCEPT !.plugins["sdk"] = g.plugins["sdk"]]} ELSE {})

After(remaining, ok) == Tail(remaining)

\* Bound: MaxFailures steps raise in the session.
MayRaise == Cardinality({r \in Tests \X StepNames : r[2] \in raised[r[1]]}) < MaxFailures

Step ==
  /\ steps # <<>>
  /\ \E ok \in {TRUE, ~MayRaise} :
       /\ IF ok THEN reg' = RestoredBy(reg, Head(steps)) /\ UNCHANGED raised
          ELSE reg' \in LeftBy(reg, Head(steps)) /\ raised' = [raised EXCEPT ![running] = @ \cup {Head(steps)}]
       /\ steps' = After(steps, ok)
  /\ IF steps' = <<>> THEN running' = Base /\ done' = done + 1 /\ snap' = Closed /\ claimed' = FALSE
     ELSE UNCHANGED <<running, done, snap, claimed>>
  /\ UNCHANGED sdk

\* Bound: MaxSandboxTests tests.
BeginTest ==
  /\ running = Base /\ done < MaxSandboxTests
  /\ running' = done + 1
  /\ UNCHANGED <<reg, sdk, done, snap, steps, raised, claimed>>

EndTest ==
  /\ InTest
  /\ IF snap = Closed THEN running' = Base /\ done' = done + 1 /\ UNCHANGED steps
     ELSE steps' = Order /\ UNCHANGED <<running, done>>
  /\ UNCHANGED <<reg, sdk, snap, raised, claimed>>

SandboxEnded == running = Base /\ done = MaxSandboxTests /\ UNCHANGED sandboxVars

SandboxNext ==
  \/ BeginTest \/ Open \/ MakeDag \/ Plugin \/ Timetable \/ Executor \/ SecretsBackend \/ Listener \/ Policy
  \/ Touch \/ EndTest \/ Step \/ SandboxEnded

SandboxSpec == SandboxInit /\ [][SandboxNext]_sandboxVars

-----------------------------------------------------------------------------
(* Properties *)

Raised == UNION {raised[t] : t \in Tests}

\* Between tests nothing a test registered is left in any registry, unless the
\* very step that takes it out raised; a step that raises leaves nothing behind
\* in the registries of the others.
NothingLeaks ==
  running = Base =>
    /\ \A l \in Lists : reg.lists[l] \ {Base} # {} => l \in Raised
    /\ ~reg.noop => "noop" \in Raised
    /\ (UNION {reg.plugins["core"], reg.plugins["sdk"], reg.timetables}) \ {Base} # {} => "caches" \in Raised
    /\ reg.macros \ {Base} # {} => {"macros", "caches"} \cap Raised # {}
    /\ reg.submodules \ {Base} # {} => {"modules", "caches"} \cap Raised # {}
    /\ reg.settings # {Base} => "settings" \in Raised

TeardownStep ==
  steps # <<>> =>
    /\ reg.modules["lib"] # "absent" => reg'.modules["lib"] # "absent"
    /\ steps' = <<>> =>
         /\ \A l \in Lists : reg'.lists[l] = snap.lists[l] \/ l \in raised'[running]
         /\ \A m \in {"stem", "existing"} :
              reg'.modules[m] = snap.modules[m] \/ "modules" \in raised'[running]

\* A teardown unloads no library first imported while the test ran; when it
\* ends, what was there when the sandbox was opened is there again, the object
\* itself where identity counts.
TeardownRestores == [][TeardownStep]_sandboxVars

\* A timetable a test registered is found by every lookup until the test ends,
\* whatever was looked up before.
RegisteredIsFound ==
  InTest /\ claimed => /\ running \in reg.plugins["core"]
                       /\ running \in LookedUp(reg).timetables

\* What the plugins manager believes it has set up is there: the macros of the
\* run's own plugins resolve and their module is loaded, between sandboxes and
\* inside of them.
BaselineSurvives ==
  steps = <<>> /\ "caches" \notin Raised =>
    /\ reg.integrated => Base \in reg.macros \cap reg.submodules
    /\ reg.plugins["core"] # {} => Base \in reg.plugins["core"] /\ reg.modules["stem"] # "absent"

\* Between tests no registry holds a component of one, within a test its own are found,
\* and those of the run survive (_ComponentSandbox.finalize).
RegistriesSound == SandboxTypeOK /\ NothingLeaks /\ RegisteredIsFound /\ BaselineSurvives
=============================================================================
