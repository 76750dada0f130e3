----------------------------- MODULE ApiServer -----------------------------
(***************************************************************************)
(* The session-scoped Airflow API server each xdist worker may launch      *)
(* (_launch_api_server in fixtures/api.py and its exec shim _api_server.py)*)
(*                                                                         *)
(* A port is probed and let go before the server binds it, so workers can  *)
(* end up with one port.  A server that loses is retried; readiness is any *)
(* HTTP answer on the port; every launch ends by reaping its own process,  *)
(* and a killed worker takes its server along through the kernel's         *)
(* parent-death signal.                                                    *)
(***************************************************************************)
EXTENDS Naturals

CONSTANTS
  Workers,
  Ports,
  Retries,    \* API_SERVER_BIND_RETRIES
  MaxPolls    \* polls that fit in the startup timeout

ASSUME ServerAssumption ==
  Ports # {} /\ Retries \in Nat \ {0} /\ MaxPolls \in Nat

VARIABLES
  pc,        \* where each worker's launch stands
  attempt,   \* its current attempt
  polls,     \* the polls of that attempt
  ending,    \* why the launch, once in its finally clause, got there
  port,      \* the port of each attempt
  server     \* the process of each attempt

vars == <<pc, attempt, polls, ending, port, server>>
launchVars == <<attempt, polls, ending>>

Attempts == 1..Retries
Running == {"unarmed", "starting", "listening"}
Exited == {"none", "lost", "failed", "dead"}
Stopped == {"stopped", "raised", "killed"}
Steps == {"probe", "spawn", "poll", "ask", "wait", "serving", "reap"}

TypeOK ==
  /\ pc \in [Workers -> Steps \cup Stopped]
  /\ attempt \in [Workers -> Attempts]
  /\ polls \in [Workers -> 0..MaxPolls]
  /\ ending \in [Workers -> {"none", "retry", "raise", "done"}]
  /\ port \in [Workers -> [Attempts -> Ports]]
  /\ server \in [Workers -> [Attempts -> Running \cup Exited]]

Init ==
  /\ pc = [w \in Workers |-> "probe"]
  /\ attempt = [w \in Workers |-> 1]
  /\ polls = [w \in Workers |-> 0]
  /\ ending = [w \in Workers |-> "none"]
  /\ port = [w \in Workers |-> [a \in Attempts |-> CHOOSE p \in Ports : TRUE]]
  /\ server = [w \in Workers |-> [a \in Attempts |-> "none"]]

Goto(w, from, to) ==
  /\ pc[w] = from
  /\ pc' = [pc EXCEPT ![w] = to]

\* The process of the current attempt.
Own(w) == server[w][attempt[w]]
OwnPort(w) == port[w][attempt[w]]

Taken(p) == \E w \in Workers : \E a \in Attempts : server[w][a] = "listening" /\ port[w][a] = p

-----------------------------------------------------------------------------
(* The launch *)

\* _free_port: nobody listens on the port now, and nobody keeps it.
Probe(w) ==
  /\ Goto(w, "probe", "spawn")
  /\ \E p \in Ports : ~Taken(p) /\ port' = [port EXCEPT ![w][attempt[w]] = p]
  /\ UNCHANGED <<launchVars, server>>

Spawn(w) ==
  /\ Goto(w, "spawn", "poll")
  /\ server' = [server EXCEPT ![w][attempt[w]] = "unarmed"]
  /\ polls' = [polls EXCEPT ![w] = 0]
  /\ UNCHANGED <<attempt, ending, port>>

\* The worker's own process is alive: only then is an answer worth anything.
PollRunning(w) ==
  /\ Goto(w, "poll", "ask")
  /\ Own(w) \in Running
  /\ UNCHANGED <<launchVars, port, server>>

\* Mutant: whatever made the process exit.
PollLostAnyhow(w) ==
  /\ Goto(w, "poll", "reap")
  /\ Own(w) \in {"lost", "failed"}
  /\ attempt[w] < Retries
  /\ ending' = [ending EXCEPT ![w] = "retry"]
  /\ UNCHANGED <<attempt, polls, port, server>>

\* Its log names a bind conflict: another attempt.
PollLost(w) ==
  /\ Goto(w, "poll", "reap")
  /\ Own(w) = "lost"
  /\ attempt[w] < Retries
  /\ ending' = [ending EXCEPT ![w] = "retry"]
  /\ UNCHANGED <<attempt, polls, port, server>>

PollExited(w) ==
  /\ Goto(w, "poll", "reap")
  /\ Own(w) = "failed" \/ (Own(w) = "lost" /\ attempt[w] = Retries)
  /\ ending' = [ending EXCEPT ![w] = "raise"]
  /\ UNCHANGED <<attempt, polls, port, server>>

\* _server_responds: something answers on the port.
Answered(w) ==
  /\ Goto(w, "ask", "serving")
  /\ Taken(OwnPort(w))
  /\ UNCHANGED <<launchVars, port, server>>

Unanswered(w) ==
  /\ Goto(w, "ask", "wait")
  /\ UNCHANGED <<launchVars, port, server>>

\* Mutant: the deadline starts over with every poll.
SleepForever(w) ==
  /\ Goto(w, "wait", "poll")
  /\ UNCHANGED <<launchVars, port, server>>

Sleep(w) ==
  /\ Goto(w, "wait", "poll")
  /\ polls[w] < MaxPolls
  /\ polls' = [polls EXCEPT ![w] = @ + 1]
  /\ UNCHANGED <<attempt, ending, port, server>>

DeadlinePasses(w) ==
  /\ Goto(w, "wait", "reap")
  /\ ending' = [ending EXCEPT ![w] = "raise"]
  /\ UNCHANGED <<attempt, polls, port, server>>

\* KeyboardInterrupt or a pytest-timeout failure inside the try.
InterruptLaunch(w) ==
  /\ \E step \in {"poll", "ask", "wait"} : Goto(w, step, "reap")
  /\ ending' = [ending EXCEPT ![w] = "raise"]
  /\ UNCHANGED <<attempt, polls, port, server>>

\* The session ends and the fixture's generator is resumed.
EndSession(w) ==
  /\ Goto(w, "serving", "reap")
  /\ ending' = [ending EXCEPT ![w] = "done"]
  /\ UNCHANGED <<attempt, polls, port, server>>

-----------------------------------------------------------------------------
(* The finally clause *)

AfterFinally(w) ==
  CASE ending[w] = "retry" -> "probe"
    [] ending[w] = "raise" -> "raised"
    [] ending[w] = "done" -> "stopped"

Killed(state) == IF state \in Running THEN "dead" ELSE state

\* The group got a SIGTERM, which the process may obey (ObeySignal) before the
\* wait ends or times out; SIGKILL reaps whatever is left.
Reap(w) ==
  /\ Goto(w, "reap", AfterFinally(w))
  /\ server' = [server EXCEPT ![w][attempt[w]] = Killed(@)]
  /\ attempt' = [attempt EXCEPT ![w] = IF ending[w] = "retry" THEN @ + 1 ELSE @]
  /\ UNCHANGED <<polls, ending, port>>

-----------------------------------------------------------------------------
(* The server processes and the kernel *)

Become(w, a, from, to) ==
  /\ server[w][a] = from
  /\ server' = [server EXCEPT ![w][a] = to]
  /\ UNCHANGED <<pc, launchVars, port>>

\* Mutant: the shim arms the signal and does not look whether it came too late.
ArmUnchecked(w, a) == Become(w, a, "unarmed", "starting")

\* _api_server.main: prctl, then the check that the parent is still there.
Arm(w, a) == Become(w, a, "unarmed", IF pc[w] = "killed" THEN "dead" ELSE "starting")

Bind(w, a) ==
  /\ ~Taken(port[w][a])
  /\ Become(w, a, "starting", "listening")

LoseBind(w, a) ==
  /\ Taken(port[w][a])
  /\ Become(w, a, "starting", "lost")

\* The server exits for a reason of its own.
Fail(w, a) == \E state \in Running : Become(w, a, state, "failed")

ObeySignal(w, a) ==
  /\ pc[w] = "reap" /\ a = attempt[w]
  /\ \E state \in Running : Become(w, a, state, "dead")

\* A killed worker: the kernel kills every process that has armed the signal.
KillWorker(w) ==
  /\ pc[w] \notin Stopped
  /\ pc' = [pc EXCEPT ![w] = "killed"]
  /\ server' = [server EXCEPT ![w] = [a \in Attempts |->
       IF @[a] = "unarmed" THEN "unarmed" ELSE Killed(@[a])]]
  /\ UNCHANGED <<launchVars, port>>

-----------------------------------------------------------------------------
Launch(w) ==
  \/ Probe(w) \/ Spawn(w) \/ PollRunning(w) \/ PollLost(w) \/ PollExited(w)
  \/ Answered(w) \/ Unanswered(w) \/ Sleep(w) \/ DeadlinePasses(w)
  \/ Reap(w)

Process(w, a) == Arm(w, a) \/ Bind(w, a) \/ LoseBind(w, a)

Next ==
  \E w \in Workers :
    \/ Launch(w) \/ InterruptLaunch(w) \/ EndSession(w) \/ KillWorker(w)
    \/ \E a \in Attempts : Process(w, a) \/ Fail(w, a) \/ ObeySignal(w, a)

Spec == Init /\ [][Next]_vars

\* Workers and processes are scheduled; sessions, faults and signals are not
\* bound to happen.
FairSpec ==
  /\ Spec
  /\ \A w \in Workers : WF_vars(Launch(w))
  /\ \A w \in Workers : \A a \in Attempts : WF_vars(Process(w, a))

-----------------------------------------------------------------------------
(* Properties *)

\* A launch runs one process at a time, the one of its current attempt, and one
\* that was stopped, that raised, or that is about to probe anew runs none
\* (the finally clause of _launch_api_server).
ServersReaped ==
  \A w \in Workers : \A a \in Attempts : server[w][a] \in Running =>
    \/ pc[w] = "killed"
    \/ a = attempt[w] /\ pc[w] \in Steps \ {"probe", "spawn"}

\* A launch is in its finally clause for a reason, and goes back for another
\* attempt only if it has one left and its own process is out of the race.
EndingInv ==
  \A w \in Workers : pc[w] = "reap" =>
    /\ ending[w] # "none"
    /\ ending[w] = "retry" => Own(w) = "lost" /\ attempt[w] < Retries

\* The inductive invariant behind RetriesLostRaces and ServersReaped.
ServerInv == ServersReaped /\ EndingInv

\* A launch that was asked for ends with a server handed over, an error or the
\* worker's death, whoever takes its ports meanwhile.
LaunchEnds ==
  \A w \in Workers : pc[w] = "probe" ~> pc[w] \in {"serving"} \cup Stopped

\* The server of a killed worker dies too, even if the worker died before the
\* server could ask the kernel for that (_api_server.main).
OrphansDie ==
  \A w \in Workers : pc[w] = "killed" ~> \A a \in Attempts : server[w][a] \notin Running

\* A launch gives up a port only because its own process lost the race for it,
\* and goes on with that process reaped.
RetriesLostRaces ==
  [][\A w \in Workers : attempt'[w] # attempt[w] =>
       /\ Own(w) = "lost"
       /\ pc'[w] = "probe"]_vars

\* However a launch goes on, it leaves no process behind and no other failure than a lost
\* port is taken for one (_launch_api_server).
LaunchesSound == []ServersReaped /\ RetriesLostRaces

\* "a worker that loses the resulting bind race retries with a freshly probed
\* port [...] rather than silently sharing another worker's server" (module
\* docstring of fixtures/api.py): whoever is handed a server owns it.
HandedOwnServer ==
  [][\A w \in Workers : pc[w] # "serving" /\ pc'[w] = "serving" =>
       \A v \in Workers \ {w} : \A a \in Attempts :
         ~(server[v][a] = "listening" /\ port[v][a] = OwnPort(w))]_vars
=============================================================================
