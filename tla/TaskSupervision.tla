-------------------------- MODULE TaskSupervision --------------------------
(***************************************************************************)
(* Who answers a Variable lookup in a test process.  run_task,             *)
(* task_context and render_task put a fake supervisor with seeds of their  *)
(* own into the Task SDK for the time of a call or a block                 *)
(* (_compat/in_process.py); a Dag parse and airflow_parse_secrets put one  *)
(* there that reads the metadata database (_compat/parse_time.py), unless  *)
(* one is installed.  Calls nest: a task's body may parse Dags or run      *)
(* another task, and a test may do either in a block it opened.            *)
(*                                                                         *)
(* External: the Task SDK, which asks the installed supervisor and caches  *)
(* what it is told if [secrets] use_cache is set and the cache exists.     *)
(***************************************************************************)
EXTENDS Integers, Sequences, SequencesExt

CONSTANTS
  Tasks,        \* operators, each of which several tests may use
  OwnDag,       \* those the author put into a Dag
  Values,       \* of the one Variable looked up
  MaxDepth, MaxTests, MaxCalls

ASSUME SupervisionBounds == MaxDepth \in Nat /\ MaxTests \in Nat \ {0} /\ MaxCalls \in Nat

ASSUME ValuesAreNot == Values \cap {"off", "empty", "none"} = {}

VARIABLES
  endpoint,     \* SUPERVISOR_COMMS: Absent, Null, or the depth of the scope it belongs to
  environ,      \* environment and working directory of the process
  scopes,       \* the open scopes, innermost last
  cache,        \* SecretCache: "off", "empty" or a value
  filler,       \* history: the kind of scope whose lookup filled it
  useCache,     \* [secrets] use_cache
  rows,         \* the Variable's row in the metadata database, or "none"
  session,      \* the depths whose comms hold a metadata session
  bound,        \* the Dag a task is bound to
  invocations,  \* the counters of the current test's fixtures
  test,
  calls,        \* bounds the scopes a test opens
  answer        \* history: the answer of a lookup just made, the admissible ones, and whether
                \* a task's lookup met one of another scope in the cache

vars == <<endpoint, environ, scopes, cache, filler, useCache, rows, session, bound, invocations,
          test, calls, answer>>

Absent == 0
Null == -1
Top == Last(scopes)
Depth == Len(scopes)

\* A Dag id is <<>> for none, <<"own">> for an author's Dag, and that of a synthetic
\* Dag is what the caller gave or what the fixture derived.
Fixtures == {"run_task", "task_context"}
Given == {<<"given">>}
Derived == {<<n, f, k>> : n \in 1..MaxTests, f \in Fixtures, k \in 1..MaxCalls}
Synthetic == Given \cup Derived

NoAnswer == [got |-> "none", want |-> {"none"}, mixed |-> FALSE]

Init ==
  /\ endpoint \in {Absent, Null}
  /\ environ = 0
  /\ scopes = <<>>
  /\ useCache \in BOOLEAN
  /\ cache \in {"off"} \cup (IF useCache THEN {"empty"} ELSE {})
  /\ rows = "none"
  /\ session = {}
  /\ bound = [t \in Tasks |-> IF t \in OwnDag THEN <<"own">> ELSE <<>>]
  /\ invocations = [f \in Fixtures |-> 0]
  /\ test = 1
  /\ calls = 0
  /\ answer = NoAnswer
  /\ filler = "none"

-----------------------------------------------------------------------------
(* Scopes.  `held` is a history: the rows there were while a scope was open. *)

Scope(kind, seed, owns) ==
  [kind |-> kind, seed |-> seed, owns |-> owns, previous |-> endpoint, environ |-> environ,
   held |-> IF kind = "parse" THEN {rows} ELSE {}]

Push(kind, seed, owns) ==
  /\ Depth < MaxDepth /\ calls < MaxCalls
  /\ scopes' = Append(scopes, Scope(kind, seed, owns))
  /\ endpoint' = IF owns THEN Depth + 1 ELSE endpoint
  /\ calls' = calls + 1

\* The Dag id of a call: the caller's, the task's own, or one derived from the test,
\* the fixture and the call.
ResolvedDagId(t, f, given) ==
  IF given # <<>> THEN given
  ELSE IF bound[t] = <<>> THEN <<test, f, invocations[f] + 1>> ELSE bound[t]

Counted(t, f, given) ==
  IF given = <<>> /\ bound[t] = <<>> THEN [invocations EXCEPT ![f] = @ + 1] ELSE invocations

\* A synthetic Dag is not replaced: the Task SDK forbids rebinding.
Rebinds(t, given) == given # <<>> /\ bound[t] \in Synthetic /\ given # bound[t]

\* The runtime task instance is built and the supervisor installed.
Call(t, f, given, seed) ==
  /\ ~Rebinds(t, given)
  /\ Push(f, seed, TRUE)
  /\ invocations' = Counted(t, f, given)
  /\ bound' = IF bound[t] = <<>> THEN [bound EXCEPT ![t] = ResolvedDagId(t, f, given)] ELSE bound
  /\ answer' = NoAnswer
  /\ UNCHANGED <<environ, cache, filler, useCache, rows, session, test>>

\* run_task_in_process runs the task to its end inside the scope.
RunTask(t, given, seed) == Call(t, "run_task", given, seed)

\* A block of task_context_in_process; render_task is one that ends at once, with a count
\* of its own.
TaskContext(t, given, seed) == Call(t, "task_context", given, seed)

\* The call refuses its arguments or an installed Airflow it does not know, before it
\* installs or binds anything.
CallRefused(t, f, given) ==
  /\ calls < MaxCalls /\ Depth < MaxDepth
  /\ invocations' = Counted(t, f, given)
  /\ calls' = calls + 1
  /\ answer' = NoAnswer
  /\ UNCHANGED <<endpoint, environ, scopes, cache, filler, useCache, rows, session, bound, test>>

\* Mutant: a parse keeps what an earlier one has cached.
ResetCacheKept == cache

\* _reset_secret_cache.
ResetCache == IF useCache THEN "empty" ELSE "off"

\* Mutant: a parse takes the place of a supervisor that is installed.
InstallsAlways(policy) == policy = "metastore"

\* parse_time_supervision leaves an installed supervisor alone, and the policy may be off.
Installs(policy) == policy = "metastore" /\ endpoint \in {Absent, Null}

\* build_dag_bag, collection, the corpus and airflow_parse_secrets enter it.
Parse(policy) ==
  /\ Push("parse", "none", Installs(policy))
  /\ cache' = IF Installs(policy) THEN ResetCache ELSE cache
  /\ answer' = NoAnswer
  /\ UNCHANGED <<environ, filler, useCache, rows, session, bound, invocations, test>>

\* Mutant: a scope leaves no supervisor behind, whatever it found.
RestoredAbsent == IF Top.owns THEN Absent ELSE endpoint

Restored == IF Top.owns THEN Top.previous ELSE endpoint

\* A scope ends, by returning or by raising.  Only a task's process state is isolated.
\* The metadata session of a parse is dropped even if closing it raises.
Pop ==
  /\ scopes # <<>>
  /\ endpoint' = Restored
  /\ environ' = IF Top.kind = "parse" THEN environ ELSE Top.environ
  /\ cache' = IF Top.kind = "parse" /\ Top.owns THEN ResetCache ELSE cache
  /\ session' = session \ {Depth}
  /\ scopes' = Front(scopes)
  /\ answer' = NoAnswer
  /\ UNCHANGED <<filler, useCache, rows, bound, invocations, test, calls>>

-----------------------------------------------------------------------------
(* What runs inside a scope *)

\* The installed supervisor's answer.
Answered ==
  LET s == scopes[endpoint] IN IF s.kind = "parse" THEN rows ELSE s.seed

\* The body of a task or a Dag file looks the Variable up.
Lookup ==
  /\ endpoint > 0
  /\ LET hit == cache \in Values
         got == IF hit THEN cache ELSE Answered
         s == scopes[endpoint]
     IN /\ answer' = [got |-> got, want |-> IF s.kind = "parse" THEN s.held ELSE {s.seed},
                      mixed |-> hit /\ {s.kind, filler} # {"parse"}]
        /\ filler' = IF hit \/ cache = "off" \/ got \notin Values THEN filler ELSE s.kind
        /\ cache' = IF cache # "off" /\ got \in Values THEN got ELSE cache
        /\ session' = IF ~hit /\ s.kind = "parse" THEN session \cup {endpoint} ELSE session
  /\ UNCHANGED <<endpoint, environ, scopes, useCache, rows, bound, invocations, test, calls>>

\* The metadata database cannot be prepared: the failure is logged and the SDK reports
\* it to the Dag as a plain miss.
LookupFails ==
  /\ endpoint > 0 /\ scopes[endpoint].kind = "parse" /\ cache \notin Values
  /\ endpoint \notin session
  /\ answer' = NoAnswer
  /\ UNCHANGED <<endpoint, environ, scopes, cache, filler, useCache, rows, session, bound,
                 invocations, test, calls>>

\* A test, a task or a Dag file changes the environment or the working directory.
Disturb ==
  /\ environ' = 1 - environ
  /\ answer' = NoAnswer
  /\ UNCHANGED <<endpoint, scopes, cache, filler, useCache, rows, session, bound, invocations,
                 test, calls>>

\* A Variable is seeded or its row deleted.
Seed ==
  /\ \E row \in Values \cup {"none"} :
       /\ row # rows
       /\ rows' = row
       /\ scopes' = [d \in 1..Depth |-> 
                      IF scopes[d].kind = "parse" THEN [scopes[d] EXCEPT !.held = @ \cup {row}]
                      ELSE scopes[d]]
  /\ answer' = NoAnswer
  /\ UNCHANGED <<endpoint, environ, cache, filler, useCache, session, bound, invocations, test,
                 calls>>

NextTest ==
  /\ scopes = <<>> /\ test < MaxTests
  /\ test' = test + 1
  /\ invocations' = [f \in Fixtures |-> 0]
  /\ calls' = 0
  /\ answer' = NoAnswer
  /\ UNCHANGED <<endpoint, environ, scopes, cache, filler, useCache, rows, session, bound>>

Next ==
  \/ \E t \in Tasks, given \in Given \cup {<<>>} :
       \/ \E seed \in Values : RunTask(t, given, seed) \/ TaskContext(t, given, seed)
       \/ \E f \in Fixtures : CallRefused(t, f, given)
  \/ \E policy \in {"metastore", "off"} : Parse(policy)
  \/ Pop \/ Lookup \/ LookupFails \/ Disturb \/ Seed \/ NextTest

Spec == Init /\ [][Next]_vars

-----------------------------------------------------------------------------
(* Properties *)

TypeOK ==
  /\ endpoint \in {Null, Absent} \cup 1..MaxDepth
  /\ environ \in 0..1 /\ Depth <= MaxDepth
  /\ cache \in {"off", "empty"} \cup Values
  /\ rows \in Values \cup {"none"}
  /\ session \subseteq 1..MaxDepth
  /\ bound \in [Tasks -> Synthetic \cup {<<>>, <<"own">>}]
  /\ invocations \in [Fixtures -> 0..MaxCalls]

\* The supervisor that answers is that of the innermost scope that brought one, and a
\* parse brings one only where there is none: the task it happens in keeps its seeds
\* (_installed_supervisor_comms, parse_time_supervision).
EndpointInnermost ==
  /\ endpoint > 0 =>
       /\ endpoint <= Depth /\ scopes[endpoint].owns
       /\ \A d \in endpoint + 1 .. Depth : ~scopes[d].owns
  /\ \A d, e \in 1..Depth : d < e /\ scopes[d].owns /\ scopes[e].kind = "parse" => ~scopes[e].owns

\* A task's lookup has its own seed for an answer, and one in a Dag parse a row there
\* was during the parse, whatever earlier parses have cached.  Not so if the cache of the
\* SDK is in use and a task's scope met a parse's or another task's in it, since only
\* parses reset it (parse_time_supervision, FakeSupervisorComms).
LookupsAnswered ==
  ~answer.mixed => answer.got \in answer.want

\* Two tasks never share a Dag a fixture made up for one of them (_default_dag_id, the
\* invocation counters of the fixtures).
DerivedDagsDistinct ==
  \A t, u \in Tasks : bound[t] \in Derived /\ bound[t] = bound[u] => t = u

\* Lookups go to the innermost supervisor, and no Dag made up for a task serves another
\* (parse_time_supervision, _default_dag_id).
SupervisionSound == TypeOK /\ EndpointInnermost /\ DerivedDagsDistinct

\* When a scope ends the process has the supervisor it had when the scope began, the
\* environment too if the scope ran a task, and no session opened for the scope.
ScopesLeaveNoTrace ==
  [][\A d \in 1..Depth : Len(scopes') < d =>
       /\ endpoint' = scopes[d].previous
       /\ scopes[d].kind # "parse" => environ' = scopes[d].environ
       /\ d \notin session']_vars
=============================================================================
