# Specifications of pytest-airflow-in-a-box

This directory holds TLA+ specifications of the parts of the plugin that several
processes, or several exits of one process, make hard to test: who migrates the
metadata database and who parses the Dag corpus, where a run's isolated
`AIRFLOW_HOME` goes and what becomes of it, which environment a worker inherits,
which rows a teardown may delete from a database all xdist workers share, how a
DagRun is driven to its end, who answers a task's lookup of a Variable, which
components get into Airflow's registries and what they leave there, what becomes of child
processes, which outcome is recorded for a test and what is made of it, and what
the smoke catalog reports of a Dag folder. TLC checks them on small instances;
TLAPS proves every safety property the runs check for every size.

The reference is the code below `src/src/pytest_airflow_in_a_box/` (paths here
are relative to it). Every definition that models code names its lines in
`PROJECT.json` (`map`).

## 1. The system

The plugin gives a pytest run its own Airflow. The *controller* (or a serial
pytest) bootstraps an isolated `AIRFLOW_HOME` before conftest files are loaded;
xdist *workers* inherit it through the environment; the first test that needs
it migrates the metadata database; fixtures then write Dags, Variables,
Connections, runs and task instances into that database and take them out again.

| component | state it keeps | operations | hard behaviour | module |
|---|---|---|---|---|
| database election (`_compat/database.py`) | the ready sentinel, a process flag, a flock | `ensure_database`, `initialize_database` | processes race; the winner raises or is killed half way | `RunCoordination` |
| shared Dag corpus (`dagcorpus.py`) | the artifact, a temporary, a flock, the session cache | `get_dag_corpus`, `_build_dag_corpus`, `_write_dag_corpus` | nested in the same race; built by whoever needs it first, for others who need more | `RunCoordination`, `SmokeCatalog` |
| run root (`bootstrap.py`, `_airflow_home.py`) | the directory, its `.retained` marker, the recorded outcome | `_owner_state`, its cleanup closure, `prune_retained_roots` | cleanup runs in every exit; runs of one user prune each other's directories | `RunRoot` |
| storage (`storage/`) | bases seen, fallbacks | `locate_storage` | a base that looks fine refuses; nothing local is left | `StorageLadder` |
| environment (`bootstrap.py`, `config.py`, `ini_config.py`) | `os.environ`, Airflow's settings, a stack of overrides | install, override, restore, hand off to children | nesting, refreshes that raise, a spawn in the middle | `RunEnvironment` |
| seeded rows (`_compat/seed.py`) | a record of `<id, key>` pairs per fixture | seed, cleanup | SQLite reuses ids; check then insert; failed commits | `SeedRows` |
| Dag metadata (`_compat/dag.py`, `fixtures/dag.py`) | a persistence record per Dag, the Dags of the process | register, persist, resync, run, clean up | the same over several tables, with retries, rows Airflow makes and two Airflow families | `DagMetadata` |
| Dag run driver, executor harness (`_compat/taskrun.py`, `_compat/executor.py`) | the states of task instances, queue and event buffer | `drive_dag_run`, queue, await, drain | instances that appear under way, a deadline against late events | `DriveDagRun` |
| task supervision (`_compat/in_process.py`, `_compat/parse_time.py`) | the SDK's supervisor, its secrets cache | `run_task`, `task_context`, parse | scopes nest and raise; one operator, several calls | `TaskSupervision` |
| component sandbox (`fixtures/components.py`) | snapshots of Airflow's registries | register, finalise | caches filled before a registration; one restore step raises | `ComponentSandbox` |
| component checks (`_compat/components.py`, `components.py`) | the report of a component's problems | `check_component`, the registration methods' gate | which problems matter depends on the release and the registration; a registration of several steps must not break off | `ComponentChecks` |
| API server (`fixtures/api.py`) | a child process, a port | launch, probe, stop | the port is taken between probe and bind | `ApiServer` |
| isolated batches (`isolated.py`) | a child pytest, its report | run, replay, tear down | timeout, kill, truncated reports | `IsolatedBatch` |
| Dag bag fan-out (`parallel_dagbag.py`) | shard processes | spawn, await, merge | shared deadline; one shard fails | `FanOut` |
| outcome record (`record.py`) | an accumulator per node | fold, finalise, write | interleaved workers, crashed workers | `WorkerReports`, `Recording` |
| baseline comparison (`baseline.py`) | two recordings | select, mark, compare | what is marked changes what is recorded | `MigrationLoop` |
| migration commands (`migration/`) | a run directory, two environments, two artifacts | provision, record, compare | each step fails or is interrupted, the write of the report and the cleanup too; invocations share paths | `MigrationCommand` |
| smoke catalog (`smoke.py`, `plugin.py`) | items and their groups, a corpus per process | collect, group, check | deselection, workers, checks that lean on each other | `SmokeCatalog` |
| varying-argument check (`versioninflation.py`) | tainted names, contexts, deferred findings | visit | scopes and contexts nest in the order of the file | `VersionInflation` |

The remaining components are listed in `PROJECT.json` with the reason they are
left out: they inspect Python objects or render text, and keep no state a step of
another actor could disturb.

How they interact: the controller's bootstrap asks for storage, creates the run
root and installs the environment; workers inherit it and share its database,
lock files and artifacts; fixtures call `ensure_database` before anything else;
the corpus builder calls it too, under its own lock, and may fan its parse out;
registered Dags are driven in process, under a supervisor, or through an
executor; every phase report goes through the recorder; the cleanup closure of
the controller ends all of it.

What makes each correct:

* *database election* - no process uses a schema that is incomplete or being
  rewritten; a crash of the elected process hands the election on.
* *corpus* - every process works from the same corpus, none from part of one, and
  every consumer finds in it what it needs.
* *run root* - the directory lives while its run needs it; afterwards the policy
  and the real course of the session decide; retained directories stay bounded.
* *storage* - unverified storage is used only with consent or, announced, for want
  of any other, and no run is refused that some base would take.
* *environment, supervision, sandbox* - what was there before is there after, in
  every exit; and while a scope is open, it is its own values that are found.
* *component checks* - what is let in is registered whole, is found again and is
  called; what is refused could not have been.
* *seeded rows, Dag metadata* - a teardown deletes all of its own rows, and nothing
  of a running test.
* *driver, harness, server, batches, fan-out* - every wait ends; what a late
  answer says is not lost or taken for another's; no child process survives.
* *outcome record, comparison, command* - one outcome per test that ended, the one
  its reports imply; a verdict about what was really recorded.
* *smoke catalog* - the folder is not parsed once per worker, and a flaw is
  reported whichever checks run and whoever parsed.

## 2. The modules

### `RunCoordination` and `PublishOnce`
`RunCoordination` models the two elections together, because the corpus builder
calls `ensure_database` while it holds the corpus lock. Each process has a
program counter with one value per place the code can stop between two shared
accesses: outside, waiting for a flock, before and inside `initdb`, before the
sentinel's `touch`, before the temporary is written, before the rename, before
the unlock. The state is the holder of each flock, the schema (`empty`,
`partial`, `ready`), the sentinel, the flags each process keeps
(`_DATABASE_INITIALIZED` and having passed `ensure_database`), the artifact
(absent, torn, or the corpus of its builder), the corpus each process has in hand,
and its session cache. The temporary file needs no variable: only its writer
names it. Every step between `flock` and unlock may raise,
with the code's own handling (which flags stay set, what is unlocked), and a
process may be killed anywhere; the kernel then drops its flock and a
replacement starts with empty process state. `MaxFailures` and `MaxCrashes` bound
the two kinds of fault.

`PublishOnce` is what both elections promise: producers work one after the
other, a crashed one is forgotten, a value is published once and is whole, and
whoever uses a value uses the published one. `DbElectionSpec` and
`CorpusElectionSpec` state that `RunCoordination` implements it, once per
election, by refinement mappings over the sentinel and the artifact.

### `RunRoot` and `RootLifecycle`

`RunRoot` follows every run from `_owner_state` to the end of its cleanup
closure: refuse, create the directory, provision (any step may raise), configure
(or the doctor, or an exit without a session), start, finish or lose the session,
summary, and the cleanup's steps in the code's order - stop the container,
restore the environment, then remove the directory or announce, mark, scan and
prune. Each fallible step has a raising twin with the code's nesting of `try` and
`finally`. Runs share a base: a scan sees all marked directories, sorted by the
time of their mark.

`RootLifecycle` is the life of one directory as a user of the plugin sees it:
absent, live, then removed, or announced and kept, and pruned only from kept.
`LifecycleSpec` states that `RunRoot` implements it for all runs at once.

Two simplifications: a scan is one step (the code's `glob` and `stat`s are a few
system calls), and all runs have the same retention count, as they do when they
belong to one project.

### `StorageLadder`

`locate_storage` rung by rung: an explicit base or nothing, else pytest's temporary
base, shared memory, the system's temporary directory, and last a base on network
storage with a warning. A directory is what the code can tell of it: whether it is
there and writable, whether creating a directory in it succeeds (writable does not
imply it), what the mount table and `statfs` say, and whether it has room.

### `SeedRows`

One table of seeded rows, with SQLite's rule that a new row's id follows the
highest id present, and the fixture instances of all workers. A fixture checks
that its keys are absent (a read), flushes (takes the write lock, inserts, fails
if a key was taken since), records the new `<id, key>` pairs, and commits; at
teardown it rolls back, deletes the rows that match its pairs under the write
lock, and commits. Flush, commit and cleanup may raise; a `KeyboardInterrupt` or
pytest-timeout failure, which `except Exception` does not catch, may leave the
transaction open; a worker may be killed; a test may delete its own seeds. The
column `by` is not in the table: it names the fixture that inserted the row, so
that properties can speak of ownership. `Faulty` is the set of fixtures whose
commits may raise, whose transactions may be left open and whose tests may delete
their seeds; it is a constant because what the others are promised depends on it. Variables and Connections behave alike,
and one instance of either is modelled.

### `DagMetadata`

The Dags that `dag_maker` registers: several workers, or one serial run, on either
Airflow family. Registration refuses or replaces what is in the way, writes model,
bundle, version and code rows, retries a lost race for the one `dag_code` row, reads
the serialized Dag back, and commits or leaves the transaction with the session the
test lent; runs are made by the fixture or by Airflow; a Dag may be registered again,
resynced, moved to another bundle; the teardown sweeps what its records name and what
it can find besides. A transaction is a copy of the database held under SQLite's
write lock and dropped on rollback; the ids of deleted runs are handed out again.
Only `FaultyWorkers` have operations that raise and tests that delete or move rows.

### `DriveDagRun`

`drive_dag_run` over a graph of tasks: the walk picks the first pending instance in
topological order, expands a mapped task when its upstreams have settled, blocks,
skips or dispatches an instance, resumes a deferred one, and when nothing is
pending settles the run by passes of `update_state` up to a bound. One adapter runs
the body in process, the other queues it with an executor, beats it until the row
settles or a deadline passes, and drains its events; workers start, report, exit, die
and hang on their own. When Airflow's trigger rules are met and what `update_state`
marks are external.

### `RunEnvironment`

The environment variables of a controller and its children from bootstrap to
unconfigure. Four names stand for the kinds the code distinguishes: one every run
sets, one that bootstrap owns and sets on 2.x only, one it sets without owning it,
and any other. Bootstrap snapshots and installs; ini overrides are applied in every
process; conftests write; `airflow_config` scopes nest, refresh Airflow's settings
(which may raise on the way in or out) and restore; a child is spawned off whatever
the environment is at that moment, compares it with the handoff and repairs or
refuses; cleanups run in reverse.

### `TaskSupervision`

Who answers a task's or a Dag file's lookup of a Variable. A stack of scopes:
`run_task`, `task_context` and `render_task` install a supervisor with seeds of
their own for a call or a block, a Dag parse and `airflow_parse_secrets` one that
reads the database, unless one is installed. Scopes nest two deep in either order,
end normally or by an exception, and the code in them may change the environment
and the rows. Tasks get a Dag made up for them if they have none and keep it.

### `ComponentSandbox`

Airflow's process-wide registries and the sandbox that snapshots and restores them.
Tests register every kind of component, look timetables up, render macros and import
modules, before and after the sandbox opens; the teardown is a list of restore steps,
each of which may raise without stopping the others. `MaxFailures` bounds those that
raise and `MaxLists` the kinds of list components one test registers, since those
are restored alike and independently.

### `ComponentChecks`

The conformance checks of the ten kinds of component, and the registration methods
that run them as a gate. A component is a record of what the checks can tell of one
(which class of its MRO defines a method, what its `serialize` gives, which hookimpls
it carries with which arguments, ...), the installed release another (which hookspecs
each listener manager has, which modules can be imported, the executor contract).
`ReleasesReal` and `OfferedReal` are all that is assumed of them. Each check is an
operator that yields the codes of its problems; `Report` is `check_component`, `Gate`
a registration method up to its first change of a registry, and `EnterOne` its entry
into one registry, where pluggy validates hookimpls on its own. The read-only checks
have no actors to interleave; what makes them worth checking is that they mirror
rules of Airflow and pluggy, are scoped to a registration, and must suffice for all
the registries it enters. `Fires` and `FailsInUse` state those rules independently
of the checks.

### `ApiServer`

The launch of an Airflow API server in each worker, and the server processes
themselves. A launch probes a port and lets it go, spawns a process in a session
of its own, polls that process and the port until something answers, the
process exits or the deadline passes, and reaps the process in its `finally`
clause; a lost bind race starts another attempt. A process arms the
parent-death signal and checks that its parent is still there (`_api_server.py`)
before it binds or loses its port. A launch may be interrupted inside its `try`,
a process may fail, and a worker may be killed: the kernel then kills the
processes that have armed the signal. What `uvicorn` and the kernel do is
modelled from how the code relies on it and marked external. The deadline is
`MaxPolls`, the polls that fit in it.

### `Outcomes`, `OutcomeRecord`, `WorkerReports` and `Recording`

`Outcomes` holds the pure part of `--airflow-record` and `--airflow-baseline`: the
accumulator of a test, folding a phase report into it, finalizing it
(`_accumulate`, `_finalize`), and projecting and comparing two outcomes.
`OutcomeRecord` is the recorder's state and its one handler, `handle_logreport`.
Two modules drive it.

`WorkerReports` puts it on an xdist controller. Workers hold tests, run them
phase by phase and send events; the controller takes the events of one worker in
order and those of different workers in any order. A crash loses a suffix of what
the worker had sent, is reported for the first test the controller does not know
to be complete, and gives the other tests of that worker back. pytest's protocol,
xdist's scheduler and a rerun plugin are external: they are modelled as the code
relies on them, and a test may end any phase in any way (`PhaseReports`).
`MaxCrashes`, `MaxReruns` and `Lookahead` (tests a worker holds) are the bounds.
`seen` is not the program's: it collects the reports of the latest attempt at each
test, so that properties can compare the outcome with them.

`Recording` is what the recorder promises, whoever runs the tests: an attempt at a test
begins once the last one is over, and its outcome changes only when an attempt ends, to
what the reports of this attempt imply (`Verdict`, the precedence that
`docs/reference/migration.md` states, over a set of reports). There are no workers,
events or accumulators in it. `WorkerReports` implements it with `attempt <- seen` and
`outcome <- outcomes` (`RecordingSpec`): the accumulator, which keeps a few fields and
is thrown away when a test ends, loses nothing that the verdict needs. `IsolatedBatch`
keeps no reports of a session's attempts beside the envelope and states the same of
what it replays in its own invariants.

### `IsolatedBatch`

A serial session whose tests are all marked `airflow_isolated`. The first test of
a batch that comes due builds the synthetic distribution, starts the child and
waits for it (`_run_batch`); each test replays its reports or a synthesized
failure into `OutcomeRecord`, then tears down what earlier tests set up
(`_replay_item`). The child writes an envelope with any mix of its tests' reports
at most once, exits with any status before or after, or hangs; the timeout may
come between any two of its steps. `CutReports` are what the envelope may say of a
test that `pytest.exit` cut short. `ReportsEnd` and `ProtocolsAreWhole` say what a
child may be relied on to write when none is; the theorems name the one they need.


### `MigrationLoop`

A suite under migration: a baseline recorded once, and then any sequence of runs,
selected with `--airflow-baseline-select` or marked with
`--airflow-baseline-xfail`, of refreshing the recording the marks come from, and
of tests being repaired or broken. What pytest reports for a test with and without
an xfail mark is external (its skipping plugin); everything after that goes
through `Outcomes`.

### `MigrationCommand`

Invocations of `airflow-migration-diff`, one after the other or at once: the run
directory under a temporary one, the two environments, a pytest session in each,
the comparison of their two artifacts, the report, the cleanup and the exit status. A
step may fail, a session may crash before or after it wrote, and invocations may be
given the same artifact paths. `Suite` is what both sessions record, `Invocations` the
bound.

The end of `main` is modelled clause by clause. `Compare` computes the verdict inside
the `try`, where anything that is raised is caught (`CompareFails`, status 2).
`WriteReport` is the `else` clause, which no `except` covers: a write that raises
(`WriteRaises`: a closed pipe, a character the encoding lacks) leaves with Python's own
status 1, and so does the message to stderr of either `except` clause (`Fail`).
`Cleanup` is the `finally` clause. Its `rmtree` ignores errors, so that the run
directory is removed or remains in part, and an interrupt may meet it
(`InterruptCleanup`). `printed` is the verdict of the report on stdout, which the
properties compare with the status.

### `FanOut`

The parse of a Dag folder over shard processes: sharding of the sorted files,
spawning, the wait for each shard in order under one deadline, the merge, and in
every other case the kill of what is left and the serial parse of
`_build_dag_corpus`. A file is the set of Dags it defines, or cannot be imported;
of the result only the file each Dag is taken from and the files with errors
matter. Airflow's own parse is external.

### `SmokeCatalog`

The catalog of generated checks and the user's own tests that need a parsed folder:
which items are collected, the xdist group they get, the parse that the first
consumer of a process makes and the others share, what is deselected where, and what
each check reports of a Dag's flaws. `Sessions` is the set of invocations, each with
its options, tests and folder.

### `VersionInflation`

The visitor that looks for arguments that vary from parse to parse in Dag and task
constructors: tainted names, loops, functions, `with` blocks and findings deferred
until a factory's result is used. A program is written line by line as the visitor
reads it, and `owed`, which is not the visitor's, collects what a reader would call
varying. The gaps that `PROVENANCE.md` (31-34) documents are not written.

### Proof and MC modules

Eight modules hold the proofs: `RunCoordination_proofs`, `RunRoot_proofs` (with
`StorageLadder`), `MetadataRows_proofs` (`SeedRows`, `DagMetadata`, `DriveDagRun`),
`WorkerReports_proofs`, `Processes_proofs` (`ApiServer`, `IsolatedBatch`),
`Migration_proofs` (`MigrationLoop`, `MigrationCommand`), `FanOut_proofs` (`FanOut`,
`SmokeCatalog`, `VersionInflation`) and `ProcessState_proofs` (`TaskSupervision`,
`RunEnvironment`, `ComponentSandbox`, `ComponentChecks`). Each extends the modules it is about or takes
an instance of them. The MC modules define constants a .cfg cannot write down.
`RunRootMC`, `MetadataRowsMC`, `ProcessesMC`, `MigrationMC`, `FanOutMC` and
`ProcessStateMC` moreover put components that share no state into one run: a
behaviour is one of them, and the others stay in a state of theirs - an initial one,
or, where something is asked to end, one that has ended. This multiplies nothing,
since the state space is the union. A property such as `DriveSound` is the
conjunction of the component's type invariant and of the safety properties its module
states one by one.

Definitions preceded by `\* Mutant:` are faulty variants of the definition that
follows; no specification uses them. They are there to show that each property would
notice a plausible bug.

## 3. What the runs check

| run | instance | shows |
|---|---|---|
| `run_roots` (`RunRoot.cfg`, `RunRootMC`) | elections: 3 processes, 1 exception, 1 kill; directories of runs: 2 runs, retention count 1; search: 3 directories of every kind | nobody migrates a database once anybody uses it and the schema is complete whenever `ensure_database` has returned (`ReadyForUse`), both elections implement `PublishOnce` (so that all processes hold the same, whole corpus), every call ends; a run's directory is there while needed, its fate follows policy and session and the cleanup completes (`CleanupFollowsOutcome`), retention is bounded and nobody evicts one of the newest directories (`RetentionKeepsNewest`), refinement of `RootLifecycle`; a network mount is used with consent only, an unverified directory only for want of a verified one, and no search fails that some directory would end (`NetworkIsLastResort`) |
| `metadata_rows` (`MetadataRows.cfg`, `MetadataRowsMC`) | seeds: 2 fixtures on one key, a faulty one with 2 keys of its own, 3 ids; Dags: the controller and 2 workers, 2 `dag_id`s, 2 ids; drives: 3 graphs of 4 tasks, 2 map indexes | a cleanup deletes its own seeds, all of them, no other (`NoLeftovers`, `SeedsAreOwned`); the Dag rows of a running test stay, a teardown that reports nothing leaves nothing, healthy tests pass and lose nothing silently; a drive reaches every instance, settles where `update_state` does, keeps each error with its instance, and ends |
| `seed_record` (`SeedRowsRecord.cfg`) | 3 fixtures that share 2 keys, all faulty | finding, see below |
| `processes` (`Processes.cfg`, `ProcessesMC`) | servers: 2 workers, 2 ports, 2 attempts; isolated batches: 3 tests, the two of one batch apart | every process is reaped by its own launch and attempts are spent on lost races only (`LaunchesSound`), every launch ends, a killed worker's server dies; no child is left, passes are real, every test that came due is recorded (`BatchesSound`), the session ends |
| `api_server_shared` (`ApiServerShared.cfg`) | 2 workers, 2 ports, 2 attempts | finding, see below |
| `isolated_cut_short` (`IsolatedBatchExit.cfg`) | the batches, children cut short | finding, see below |
| `worker_reports` (`WorkerReports.cfg`) | 2 workers that hold up to 2 tests each, 2 tests, 1 crash, 1 rerun | refinement of `Recording`; an outcome is the one its reports imply and a report waits only for a test that will still be ended (`ReportsAccounted`; with the refinement, `ReportsSound`); every test is recorded |
| `migration` (`Migration.cfg`, `MigrationMC`) | by hand: 2 tests, one with its own xfail mark; command: 2 invocations, 1 test | a plain run shows exactly its regressions, those that fail in their call stay known until repaired, and repairs are reported (`ComparisonSound`); the command's report is about its own two sessions, its exit status is that of the report unless a write raised, and its run directory is kept or given to `rmtree` as asked, however it ends (`CommandSound`) |
| `migration_status` (`MigrationStatus.cfg`) | 1 invocation, 1 test | finding, see below |
| `migration_errors` (`MigrationLoopErrors.cfg`) | 2 tests, one with its own xfail mark | finding, see below |
| `dag_folder` (`FanOut.cfg`, `FanOutMC`) | fan-out: 4 files, 2 Dags, 3 shards; catalog: 2 tests, 2 Dags, 2 nodes, chosen invocations; source: 5 lines, 3 blocks deep | no shard is left, fan-out and serial parse find the same, the build ends; under `--dist loadgroup` one worker at most holds the corpus and extra parses are announced (`CorpusShared`), every consumer and every flaw is served; no varying argument goes unreported |
| `process_state` (`ProcessState.cfg`, `ProcessStateMC`) | scopes: 3 tasks, 2 values, 2 nested, 2 tests, 2 calls; environment: 1 child; sandbox: 1 failing step, 1 list kind per test; checks: 6 releases, every way to register, listeners and policies of up to 2 hookimpls out of 3 hooks and 2 arguments, each flaw of the other kinds | lookups go to the innermost supervisor and are answered by the values meant for them, scopes leave no trace; the environment is put back, a child works on the run that started it or is refused, a worker is configured as the controller alone; registries hold nothing of a past test and all of the run, teardown restores; the gate admits what works and refuses with reason (`GateSound`) |

Why the bounds are enough to be of interest. Three processes are one that works,
one that waits and one that arrives late or was replaced; a kill and an exception
let the heir of a killed process fail in its turn. Two runs cover every pair of
positions of a pruning run and its victim, and with a count of one the directory
of either may be past it. Three directories are a user's, the memory mount and the
temporary one, which is all the search ever looks at. Two fixtures on one key are a
seeder and its rival; the third, whose ids are handed out again under its record,
covers the cleanup with stale pairs. Of the Dag rows, the controller and the first
worker share a `dag_id`, raise between statements and delete rows of their own; the
second worker keeps apart and is the one that must notice nothing; two ids make
every second row reuse one. The three graphs are a chain through a mapped task,
a diamond whose leaf runs whatever happened, and a mapped task fed by two. Two
workers on two ports with two attempts let a launch lose a race and then win, or
lose its port to the server it was racing for and give up. The theorems of section 5
carry most of the safety properties of these beyond the bounds.

A recorded outcome depends on the reports of one test only, so two tests on two
workers with a crash and a rerun show every way the attempts at one test and the
events of another can mix, and a worker that holds both has something to hand back
when it crashes. Each phase passes or fails there; the skips and expected failures
that make more outcomes go through the same `Outcomes` in `migration`. Two
batches in the order a, b, a make a batch's replay and another batch's child
alternate. Four files over three shards give one shard two files and the others
one, so that a collision may be within a shard, across shards, or both. Two tests
under migration are enough, since tests do not influence each other there; one has
an xfail mark of its own. Two invocations of the command are one that reads what the
other wrote; `MigrationMC` lets exactly those keep their run directory that admit
nothing incomplete, since the two options never meet in the code. The search for a
storage location varies only the directories it looks at: with an explicit
request there is no other candidate.

The invocations of the catalog pair each reason to deselect, group or sample a check
with each distribution mode, two tests of the user and Dags that have the
flaws its checks lean on each other for. Five lines, three blocks deep, suffice for a
name tainted in one scope and used in another, a loop around either, and a finding
deferred by one factory. Two nested scopes cover each pair of
kinds of supervisor, in either order; the third task has a Dag of its own. The six
releases are a certified one with both listener managers, one without the Task SDK's,
two with modules or hookspecs the checks cannot read, one that misses the policies'
module, and a 2.x; three hooks, one per manager alone and one of both, and an argument
only some of them accept, let two hookimpls of a listener disagree in every way.

`process_state` and `migration` use symmetry (over tasks, values, tests); they check
no liveness. Deadlock is checked in `run_roots` and `migration_errors`. It is off in
the other runs, where every run, fixture, launch, session or build ends and does
nothing afterwards.

### Fairness

`CallsEnd` (every call of `ensure_database` or `get_dag_corpus` ends) assumes weak
fairness of each process's own steps: the operating system schedules processes,
a blocked `flock` is granted to some waiter when it is free, and `initdb` and
parsing end. Weak fairness is enough for the lock because a process takes each lock at
most once in its life apart from the bounded faults, so that a waiter cannot be
overtaken for ever. Faults (raises and kills) are not fair: they need not happen.

`DriveEnds` assumes weak fairness of the driver and of the clock its deadlines read.
The workers of an executor are not fair: they may never run a task, never report
one, or report it late.

`LaunchEnds` and `OrphansDie` assume weak fairness of each worker's launch and of
each server process's own steps, which is the operating system's scheduling;
the deadline is what ends a poll loop, and it is part of the model (`MaxPolls`),
not of the fairness. Interrupts, failures, ends of sessions and the obedience of
a process to a signal are not fair.

`EveryTestRecorded` assumes that each worker goes on with the test it runs, that
the controller takes each worker's events, and that tests are handed out: xdist's
main loop and the workers' processes do this. Crashes and reruns are not fair.
`SessionEnds` assumes weak fairness of the parent's steps only; its timeout is one
of them (`Popen.wait(timeout=...)` returns), and the child may hang for ever.
`BuildEnds` assumes that the builder goes on and that time passes until the shared
deadline; shards may hang.

## 4. Findings

* `seed_record`. The docstring of `_persist` (`_compat/seed.py`, 326-328) says
  the recorded pairs are discarded with the session on failure and can never
  disagree with what was committed. The code updates the record after the flush
  (344) and rolls back only the session when the commit raises (347). The
  record's cleanup would then delete the row of another test that seeded the
  same key under the same id. `SeedsAreOwned` (`metadata_rows`) is what holds: the
  records of other fixtures stay right, and no row is lost while tests with faults
  keep to keys of their own.
* `api_server_shared`. The docstring of `fixtures/api.py` (14-17) says a worker
  that loses the bind race retries rather than silently sharing another worker's
  server. Readiness (396) is any answer on the port while the worker's own process
  runs. If two workers probed the same port, the answer may be the other worker's
  while the own process is still starting. `tests/fixtures/test_api.py:517-540`
  covers the case in which the own process has already exited.
* `isolated_cut_short`. The docstring of `_synthesized_failure`
  (`isolated.py:577-580`) says that without a terminal report a test would vanish
  from an artifact stamped complete. `_replay_item` (722) synthesizes a failure only if
  the child reported nothing of the test. If the test calls `pytest.exit` with
  status 0 or 1, its setup report is in the envelope, the exit looks normal, the
  setup report alone is replayed, and the test vanishes. `NothingVanishes` holds
  where no child is cut short this way (`processes`).
* `migration_errors`. The docstring of `_apply_xfail` (`baseline.py:455-458`) says a
  known regression that failed or errored still counts after it was marked. An
  error in setup or teardown under the mark is reported as an expected skip of that
  phase. `_finalize` (`record.py:293`) then records `skipped`, or for a teardown the
  unexpected pass of the call, so that the test is listed as still passing or as
  repaired and loses its mark once the recording is refreshed.
  `CallRegressionsSustain` is what holds: the same for failures in the call.
* `migration_status`. The docstring of `migration/cli.py` (5-9) says that exit status 1
  means regressions were found and 2 that the orchestrator itself failed, and the
  comment at 496-499 that an unexpected exception must never collide with
  `EXIT_REGRESSIONS` through Python's default status of 1. The report is written
  in the `else` clause (502-504), outside both `except` clauses. If the write raises, an
  invocation that found no regressions leaves with 1. `StatusIsReported` (in
  `CommandSound`, `migration`) is what holds: a status of 0 or 1 is that of the report,
  unless a write raised. A flush that fails as the interpreter exits is past `main`
  and not modelled.

### Observations

Differences met while modelling that no run of their own states. A property that
they would break says in its module which case it leaves out.

* Run root. The docstring of `_airflow_home.py` (52-54) says a pruning run never
  removes the directory it has just retained, since that is always the newest marked
  one. The code (445) removes whatever is past the newest `keep` at the time of its
  scan; if another run marks between a run's own `touch` and its scan, that may be
  the run's own. What holds is `EvictsOnlyPastKeep`: nobody removes one of the `keep`
  newest.
* Environment. An `airflow_executor` ini value together with an `airflow_config`
  override of `core.executor` makes `bootstrap.py` (1053-1070) refuse a child although
  nothing drifted. Owned names left unset, such as a secret key, are neither verified
  nor repaired in children. `configure()` in a test's `with` over the same name
  breaks the order of restoration, and an override that does not refresh around one
  that does leaves the settings stale; both are excluded. `fixtures/dagbag.py:89` and
  `dagcorpus.py:416` set `AIRFLOW__CORE__DAGBAG_IMPORT_TIMEOUT` and leave it set.
* Dag metadata. `_cleanup_dag` (`_compat/dag.py:1594`) deletes the shared testing
  bundle row if its record created it; `ensure_shared_bundle` (635-637) says the row
  stays for the whole run. `LiveRowsStay` exempts that row.
* Supervision. With `[secrets] use_cache` on, `run_task` and `task_context` do not
  reset the SDK's cache, so a scope that mixes them with a Dag parse may be answered
  from it (`mixed` excludes it).
* Component sandbox. `plugin()` does not invalidate the lookup caches derived from the
  registries; `listener_manager_restore` may raise after its `clear()`.
* Migration command. After a usage error past the session's start an artifact stamped
  complete and without outcomes is written, so that the command exits with 0. A failure
  after the run directory was made leaves it there (`cli.py:484`), and so may `rmtree(ignore_errors=True)`
  (507), without a word. A session that
  crashed gives a verdict all the same if the artifact path it was given already
  existed, since `run.py:86` asks only whether there is a file.
* Smoke catalog. Deselecting the round trip by `-k` or a baseline leaves
  Dags that do not serialize unreported by the check on schedules, which goes by its
  disabled marker only. Deselecting the grouped anchor by `-k` causes a parse nobody
  announces, and so does a consumer that asks through `getfixturevalue`. A snapshot
  update never deletes stale snapshots.
* Version inflation. `docs/reference/smoke.md:43-44` says a call outside a `with DAG`
  counts as a task by its name; `is_task_constructor` (350-369) uses the name inside
  a block only. The end of an inner `with DAG` closes the outer one, a nested
  function ends the deferral of its outer one, a factory keeps its last finding
  only, and assigning a constant untaints nothing. Those that lose findings are
  excluded from what `owed` collects.

## 5. What is proved

All theorems hold for every value of the constants that the module's named
assumption admits. These assumptions only say that bounds are natural numbers, that
model values which stand for "none" are no ordinary values, and what makes the
constants what they stand for: the set of runs is finite (`RunsAssumption`), every
test has a set of keys or a batch (`SeedAssumption`, `BatchAssumption`), there is a
port and an attempt (`ServerAssumption`), the walk and its sorted form list the files
and there are at most as many shards as files (`FanOutAssumption`), workers author
different Dags, except for a serial run, which has no others beside it
(`DagAssumption`), releases and components are records of their types, a hookspec the
checks read is one the manager has, and a manager without the Task SDK has none
(`ReleasesReal`, `OfferedReal`), a task comes after its upstreams (`DriveAssumption`), tasks that
bring a Dag are tasks, the ranking lists Dags (`CatalogAssumption`). Theorems that
need more of the environment have it as a hypothesis: `SafeSeeding`, `ReportsEnd`,
`ProtocolsAreWhole`.

**Every safety property of a passing run, invariant or action property, is stated by
a theorem**, and so are the three refinements. What follows is the argument of each.

`RunCoordination_proofs`:
`Elections` (the inductive invariant); `MigrationExclusion` and `EnsuredReady`,
together `Ready`, and `CorpusAgreement`, from it; `CorpusImplementsPublishOnce` and
`DatabaseImplementsPublishOnce`, the two refinements. None of the safety properties is
inductive: `EnsuredMeansReady`, say, follows only once one knows that a sentinel
implies a complete schema, that nobody is inside `initdb` while a sentinel or a
caller that was let through exists, and that only the holder of the flock stands
at those places. The invariant has three parts: `LockInv` (the holder of each lock is
the process at its guarded places), `DatabaseInv` and `CorpusInv`.

`RunRoot_proofs`:
`Consistent` (`RunRootInv`, which relates a run's place in the code to its directory,
marker, decision and stashed outcome); `LiveRoots`; `OutcomeGoverns` and
`CleanupCompletes`, together `CleanupSound`; `PruningStaysSound`; `Evictions` and
`Bounded`, together `Retention`; `ImplementsLifecycle`. The argument about evictions
is that marks only get newer: a directory once past the newest `Keep` marks stays past
them until it is removed, which needs a lemma on the cardinality of the set of newer
directories. That no more than `Keep` stay is another matter, since each run removes
only what it saw. Among any runs whose pruning met no trouble there is one that will
leave no more than `Keep` of their directories (`ScanInv`): the last to scan saw all
of them, and the ones it spares are at most `Keep`, since no two have the same number
of directories ahead (`RecentAreFew`, by the pigeonhole principle). Of the ladder,
`Searches` (its place bounds what it has seen and remembers) and `LastResort`, for any
directories, whatever mount table and `statfs` say of them.

`MetadataRows_proofs`, seeded rows:
`Consistent` (`SeedInv`: the write lock makes an open transaction exclusive, both
columns are unique, every live fixture holds the pairs of its rows);
`CleanupLeavesNothing`; `RecordsAgree` (`CarefulRecordsMatch`) and `SeedsAreKept`
(`RowsGoWithTheirSeeder`), together `Owned` (`SeedsAreOwned`), under `SafeSeeding`:
fixtures whose tests share a key are not `Faulty`. That hypothesis is the finding's
other side: without it both are false.

`MetadataRows_proofs`, Dag metadata:
`DagInvariant`, and from it `RegisteredRowsStay` (`LiveRowsStay`),
`TeardownLeavesNothing` (`NoDagLeftovers`) and `TestsStayUndisturbed`. `DagInv` has a
part per worker, of six conjuncts: its records are of its own Dags (`OwnRecords`); it
holds the write lock when and only when a session of its wrote (`OwnLock`); a model of
its Dags is one it persisted (`OwnModels`); a test without faults finds nothing in its
way (`OwnHealth`); what the running test relies on is in the database and in the
records of the fixture (`OwnLive`); and, unless a problem was reported, some record
accounts for whatever the database has of its Dags (`OwnRows`). The proof has
two halves. A step of a worker keeps its own part, one lemma per action
(`CommitRowsKeeps`, `CleanupDagKeeps`, ...). A step leaves every other worker's part
alone, because it touches only rows of Dags of its own (`OthersUntouched`), and a part
speaks of nothing else (`UntouchedKeeps`). Ids are reused all the time; what saves
`LiveRowsStay` is that the code deletes by id *and* `dag_id`.

`MetadataRows_proofs`, the driver:
`DriveInvariant` and `EveryInstanceIsDriven` (`DriveSound`). `DriveInv` says where
the walk stands: which instance is at hand and in which state, what was attempted,
which executor's workers may still be at it, and what may have become of the instances
whose turn is over (`TurnsOver`): they have left `none`, unless an unexpanded task or an
instance parked or in flight excuses it (`Excuse`). That a settled run is a fixed point of
`update_state` is a counting argument (`PassInv`): each pass but the first and the last
takes an instance out of `none`, so that the bound of `Cardinality(Present) + 2` passes is
never what ends them.
`ErrorInv` keeps each event with the instance that raised it, however late it comes.

`WorkerReports_proofs`:
`ImplementsRecording`, the refinement, and `ReportsAreSound` (`ReportsSound`), which
adds `ReportsAccounted`. The channel between a worker and the
controller is what makes the property non-inductive: what the controller knows of a
worker is behind what the worker does. `Lines` states, of each worker, that there is
a way to read its channel as a run of pytest's protocol from where the controller is
to where the worker is (`Line`: a place in the list of tests and a stage per event),
and that the accumulator holds the part of the first test's attempt already taken.
Each kind of event moves one end of that line. A crash cuts it anywhere. The refinement
asks for one fact more, `Begun`: something is accumulated for a test exactly while an
attempt at it is under way. An event's report can then be matched with an action of
`Recording` - a `setup` finds nothing accumulated and begins an attempt, a `call` or
`teardown` finds what its `setup` left (`AttemptOrder`), and a crash ends whatever there
is, or nothing - while events without a report, and what workers do before the
controller hears of it, are stutters (`RecordUntouched`).

`Processes_proofs`, servers:
`Reaped` and `Retried`, together `LaunchesAreSound`, from `ServersSound`. That no
process survives its launch is not inductive alone: a launch that goes back for
another attempt leaves the old process behind its counter, which is harmless only
because the reason it is in the `finally` clause is then a lost race (`EndingInv`).

`Processes_proofs`, isolated batches:
`Consistent`, `ChildrenAreReaped` and `NoTestVanishes` under `ReportsEnd` (what a child
writes of a test includes its end, the other side of the finding
`isolated_cut_short`); `Passes` and `Sound` (`BatchesSound`) under `ProtocolsAreWhole`
as well. The step that needs an argument is the report that ends a test: the
accumulator must be shown to hold exactly what was replayed of this test
(`OnlyDueInv`, `Reflects`), and that to be what a child that exited normally wrote
(`SourceInv`).

`Migration_proofs`:
`ComparesSoundly` (`ComparisonSound`), from `LoopInv`: baseline and live recording
are what the recorder makes of the behaviours at the time, with the marks of the time
(`BaselineInv`, `LiveInv`), and a marked test is one that passed in the baseline
(`KnownInv`). What folding the reports of a test gives is computed behaviour by
behaviour (`OutcomeOf` has a lemma for each kind of test and mark), so that no
induction over reports is needed. For the command, `Invocable` (whose artifacts and
directories are whose at each step) and `VerdictsAreOwn` (`CommandSound`). That a
verdict is the invocation's own must be known from the comparison on (`Judged`), carried
over the write of the report to what is on stdout (`Verdict`), and the status to come
must agree with that through the cleanup (`Told`), whatever other invocations write or
remove in between.

`FanOut_proofs`:
`BuildInvariant`, `NoneLeft` and `FannedOutOrNot` (`FindingsAgree`). A shard that was
awaited must be known to have exited, and while the builder spawns, nothing may have
been reaped and nothing may run past the next shard; `GiveUpInv` uses this for all four
ways of giving up. That merging finds what a serial parse finds needs no induction
over the fold: `Exact` characterises what a set of places in the file list yields, one
merge step adds one shard's places to it, and the places of all shards are all places.
Of the catalog, `CatalogInvariant`, `CorpusIsShared` and `ChecksAreServed`: items of a unit run on one node, and a node's corpus says of a
Dag what the session makes of it, whoever built it. Of the source check,
`SourceInvariant` and `NoVaryingArgumentHides`: what really varies the visitor believes
to vary, through every nesting of scopes, and a function that owes a finding has
reported one or parked it.

`ProcessState_proofs`:
`SupervisionInvariant`, and from it `SupervisionHolds`, `LookupsGetTheirOwn` and
`ScopesGiveBack`; `EnvironmentInvariant`, `EnvironmentGivenBack`,
`ChildrenBelongToTheirRun` and `WorkersStartAlike`; `SandboxInvariant`,
`RegistriesStaySound` and `TeardownPutsBack`; `GateStaysSound`. The first three have the same shape: what is
in force belongs to the innermost open scope, each scope remembers what was there
before it, and undoing the stack from the top therefore ends where it began. For the
environment the remembered values are per name, and a name no open scope overrides has
its value from before the first (`Stacked`). For the sandbox, a restore step that
raises leaves the others to do, so that the invariant is per kind of registry. For the
gate, `ChecksInv` carries its decision through the registration: a gate that found no
blocking problem has read, for each hookimpl, a hookspec that accepts its arguments,
and a listener in the second of two managers has passed the first. Where the checks
could not read a manager's hookspecs, what is left of this is what `HookimplsFire` and
`RefusalsJustified` condition on; that no registration breaks off half way needs no
such condition.

Some properties are only proved, since the runs check something that implies or
covers them: the inductive invariants, `OneCorpus` and `StaleStayPastKeep`.

Model-checked only are the seven liveness properties: `CallsEnd` (an election that is
waited for ends), `DriveEnds`, `EveryTestRecorded`, `LaunchEnds`, `OrphansDie`,
`SessionEnds` and `BuildEnds`. Each is a consequence of weak fairness, which is out of
the prover's reach, as it cannot reason about `ENABLED`. The five
runs that show findings are counterexamples and prove nothing beyond that.


## 6. Not modelled

* What Airflow itself does (`initdb`, parsing, the ORM, scheduling, serialization)
  beyond its success, failure, the rows it writes and the states it computes.
* PostgreSQL as the shared database: its ids are never reused, so the row models take
  the harder case. SQLite's `busy_timeout` is a flush or cleanup that raises.
* A scan of the base that overlaps another run's `touch` within one `glob`.
* Threads of one process: the elections are taken by pytest's main thread.
* Platforms without the parent-death signal, an interrupt between `Popen` and the
  `try`, programs other than the run's own servers that take ports, and children
  of a server process.
* Of the recorder: durations, the gated flag, nested sessions in one process, the
  artifact's format and its refusal when incomplete; `--dist each`, which runs every
  test once per worker. A child's reports of tests outside its batch are dropped by
  the code and not in the model.
* Children and shards whose parent was interrupted or killed: they lead sessions of
  their own and end by themselves. The models say so (`ChildrenReaped` and
  `NoShardLeft` exempt an interrupt) and go no further.
* XComs, which tests of one process keep apart by run, and the text of
  reports and snapshots.
* Of the component checks: how a provider is attributed to its distribution (1679-1770
  of `_compat/components.py`), reads of attributes that raise outside
  `template_fields`, the texts of the problems, and the comparison of a timetable with
  its decoded self that `serialization_round_trip` makes after its registration.
* The logging interceptors, the version probes and the certification matrix, the
  diagnostics, the typed results and user-facing fixtures, and the `piab` aliases:
  they look at Python objects or render text, one call at a time.

## 7. Plan

1. `IsolatedBatch` as an implementation of `Recording`, which takes an account of the
   attempts beside what it replays.
2. An abstract registry of Dags in which everyone removes only what it registered,
   for `DagMetadata`.
3. The logging interceptors, whose restoration follows `ComponentSandbox`.
