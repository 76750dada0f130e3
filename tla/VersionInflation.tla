-------------------------- MODULE VersionInflation --------------------------
(***************************************************************************)
(* The visitor behind the smoke check test_no_runtime_varying_dag_args     *)
(* (versioninflation.py): it walks a Dag file once, top to bottom, keeps   *)
(* what the names may hold, and reports constructor arguments that differ  *)
(* on every parse.  A step is one statement of the file, chosen freely, as *)
(* the visitor meets it; beside the visitor's state the module keeps what  *)
(* the file really does, scope by scope.                                   *)
(*                                                                         *)
(* A value is a constant, a call of a certified clock, or a name; the      *)
(* shapes an expression nests them in are data.  Not written here is what  *)
(* PROVENANCE.md lists as known gaps of the ported checker and what only   *)
(* Python's late binding brings about: a factory whose result is assigned, *)
(* a loop's name read after the loop, a `with DAG` inside another, a name  *)
(* bound after the function that reads it.                                 *)
(***************************************************************************)
EXTENDS Naturals, Sequences, FiniteSets, SequencesExt

CONSTANTS Names, LoopNames, Functions, Constant, Clock, None, MaxLines, MaxDepth

ASSUME ScopesApart ==
  /\ Names \cap LoopNames = {} /\ None \notin Names /\ None \notin Functions
  /\ MaxLines \in Nat

VARIABLES
  line,       \* the statement the visitor is at
  blocks,     \* the statements whose body it is in, innermost last
  varying,    \* varying_vars
  dags,       \* dag_instances
  inDag,      \* is_in_dag_context
  factory,    \* function_def_context
  deferred,   \* varying_functions: the line found in each, or 0
  findings,   \* the lines reported
  moving,     \* really: the names that hold another value on every parse
  owing,      \* really: the functions with an argument that varies
  built,      \* really: the lines of the constructors in each function
  owed        \* really: sets of lines one of which ought to be reported now

sourceVars == <<line, blocks, varying, dags, inDag, factory, deferred, findings,
          moving, owing, built, owed>>

Block(kind, name, outer) == [kind |-> kind, name |-> name, outer |-> outer]
Open(kind) == \E i \in DOMAIN blocks : blocks[i].kind = kind
Readable ==
  {Constant, Clock} \cup Names
    \cup {blocks[i].name : i \in {j \in DOMAIN blocks : blocks[j].kind = "for"}}

-----------------------------------------------------------------------------
\* What the visitor concludes.

CallsClock(x) == x = Clock
Varies(x) == CallsClock(x) \/ x \in varying

\* is_task_constructor: by its name in a `with DAG` block, by a Dag argument anywhere.
IsTask(named, dag) == (inDag /\ named) \/ dag \in dags

\* _check_and_record: inside a function the finding waits for a call; the last one stays.
Record(x) ==
  /\ findings' = IF Varies(x) /\ factory = None THEN findings \cup {line} ELSE findings
  /\ deferred' = IF Varies(x) /\ factory # None
                 THEN [deferred EXCEPT ![factory] = line] ELSE deferred

RecordNothing == UNCHANGED <<findings, deferred>>

\* What is so.

Moves(x) == x = Clock \/ x \in moving

\* The function whose body this is, or None for the module.
Function ==
  LET defs == {i \in DOMAIN blocks : blocks[i].kind = "def"}
  IN  IF defs = {} THEN None ELSE blocks[CHOOSE i \in defs : \A j \in defs : j <= i].name

Built(lines, varies) ==
  IF Function = None
  THEN /\ owed' = IF varies THEN owed \cup {lines} ELSE owed
       /\ UNCHANGED <<owing, built>>
  ELSE /\ built' = [built EXCEPT ![Function] = @ \cup lines]
       /\ owing' = IF varies THEN owing \cup {Function} ELSE owing
       /\ UNCHANGED owed

-----------------------------------------------------------------------------
SourceInit ==
  /\ line = 1 /\ blocks = <<>>
  /\ varying = {} /\ dags = {} /\ inDag = FALSE /\ factory = None
  /\ deferred = [f \in Functions |-> 0] /\ findings = {}
  /\ moving = {} /\ owing = {} /\ built = [f \in Functions |-> {}] /\ owed = {}

Statement == line <= MaxLines /\ line' = line + 1
Enter(kind, name, outer) ==
  Len(blocks) < MaxDepth /\ blocks' = Append(blocks, Block(kind, name, outer))
Leave(kind) ==
  /\ blocks # <<>> /\ Last(blocks).kind = kind
  /\ blocks' = Front(blocks)
  /\ UNCHANGED <<line, deferred, findings, owing, built, owed>>

\* name = value.  A name once tainted stays so, whatever it is bound to later.
Assign(n, x) ==
  /\ Statement
  /\ varying' = IF Varies(x) THEN varying \cup {n} ELSE varying
  /\ moving' = IF Moves(x) THEN moving \cup {n} ELSE moving \ {n}
  /\ UNCHANGED <<blocks, dags, inDag, factory, deferred, findings, owing, built, owed>>

\* name = DAG(..., value)
BuildDag(n, x) ==
  /\ Statement
  /\ dags' = dags \cup {n}
  /\ Record(x) /\ Built({line}, Moves(x))
  /\ moving' = moving \ {n}
  /\ UNCHANGED <<blocks, varying, inDag, factory>>

\* Operator(..., value), perhaps with dag=name, alone or assigned.
BuildTask(named, dag, x) ==
  /\ Statement
  /\ IF IsTask(named, dag) THEN Record(x) ELSE RecordNothing
  /\ IF dag # None \/ (named /\ Open("with")) THEN Built({line}, Moves(x))
     ELSE UNCHANGED <<owing, built, owed>>
  /\ UNCHANGED <<blocks, varying, dags, inDag, factory, moving>>

\* A bare call surfaces what was found in the function.
CallFactory(f) ==
  /\ Statement
  /\ findings' = IF deferred[f] = 0 THEN findings ELSE findings \cup {deferred[f]}
  /\ Built(built[f], f \in owing)
  /\ UNCHANGED <<blocks, varying, dags, inDag, factory, deferred, moving>>

\* for name in [value]:
Loop(n, x) ==
  /\ Statement
  /\ \A i \in DOMAIN blocks : blocks[i].name # n
  /\ Enter("for", n, Varies(x))
  /\ varying' = IF Varies(x) THEN varying \cup {n} ELSE varying
  /\ moving' = IF Moves(x) THEN moving \cup {n} ELSE moving \ {n}
  /\ UNCHANGED <<dags, inDag, factory, deferred, findings, owing, built, owed>>

EndLoop ==
  /\ Leave("for")
  /\ varying' = IF Last(blocks).outer THEN varying \ {Last(blocks).name} ELSE varying
  /\ moving' = moving \ {Last(blocks).name}
  /\ UNCHANGED <<dags, inDag, factory>>

\* with DAG(..., value) as name:
WithDag(n, x) ==
  /\ Statement /\ ~Open("with")
  /\ Enter("with", n, FALSE)
  /\ Record(x) /\ Built({line}, Moves(x))
  /\ dags' = dags \cup {n}
  /\ inDag' = TRUE
  /\ moving' = moving \ {n}
  /\ UNCHANGED <<varying, factory>>

EndWith ==
  /\ Leave("with")
  /\ inDag' = FALSE
  /\ UNCHANGED <<varying, dags, factory, moving>>

\* A decorator that is no task's is visited before the body's scope begins: @dag(value).
Define(f, x) ==
  /\ Statement
  /\ \A i \in DOMAIN blocks : blocks[i].name # f
  /\ Enter("def", f, moving)
  /\ Record(x)
  /\ factory' = f
  /\ LET starts == [built EXCEPT ![f] = {}] IN
     IF Function = None
     THEN /\ owed' = IF Moves(x) THEN owed \cup {{line}} ELSE owed
          /\ owing' = owing \ {f} /\ built' = starts
     ELSE /\ built' = [starts EXCEPT ![Function] = @ \cup {line}]
          /\ owing' = IF Moves(x) THEN (owing \ {f}) \cup {Function} ELSE owing \ {f}
          /\ UNCHANGED owed
  /\ UNCHANGED <<varying, dags, inDag, moving>>

\* Mutant: the context of the function outlives it.
EndDefineInContext ==
  /\ Leave("def")
  /\ moving' = Last(blocks).outer
  /\ UNCHANGED <<varying, dags, inDag, factory>>

\* What the function bound was its own; the visitor's names are everybody's.
EndDefine ==
  /\ Leave("def")
  /\ factory' = None
  /\ moving' = Last(blocks).outer
  /\ UNCHANGED <<varying, dags, inDag>>

\* @task(value): the decorated function's body is the task's, and is not visited.
DefineTask(x) ==
  /\ Statement
  /\ Record(x) /\ Built({line}, Moves(x))
  /\ UNCHANGED <<blocks, varying, dags, inDag, factory, moving>>

SourceNext ==
  \/ \E x \in Readable :
       \/ \E n \in Names : Assign(n, x) \/ BuildDag(n, x) \/ WithDag(n, x)
       \/ \E n \in LoopNames : Loop(n, x)
       \/ \E named \in BOOLEAN, d \in dags \cup {None} : BuildTask(named, d, x)
       \/ \E f \in Functions : Define(f, x)
       \/ DefineTask(x)
  \/ \E f \in Functions : CallFactory(f)
  \/ EndLoop \/ EndWith \/ EndDefine

SourceSpec == SourceInit /\ [][SourceNext]_sourceVars

-----------------------------------------------------------------------------
SourceTypeOK ==
  /\ varying \subseteq Names \cup LoopNames /\ dags \subseteq Names
  /\ inDag \in BOOLEAN /\ factory \in Functions \cup {None}
  /\ deferred \in [Functions -> 0..MaxLines] /\ findings \subseteq 1..MaxLines

\* A Dag file that passes the check has no constructor argument that varies, in the module
\* itself or behind a call of a factory; where a factory holds several, one is reported,
\* and the next when that one is gone (find_runtime_varying_dag_args).
VaryingIsReported == SourceTypeOK /\ \A lines \in owed : lines \cap findings # {}
=============================================================================
