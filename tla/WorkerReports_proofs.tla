------------------------ MODULE WorkerReports_proofs ------------------------
EXTENDS WorkerReports, TLAPS

Stages == {"setup", "call", "teardown", "complete"}

\* What the controller knows of an attempt whose next phase is s.
Attempt(node, reports, s) ==
  /\ s \in {"setup", "complete"} => node = NoAccumulator
  /\ s = "call" => \E r \in Reports :
       /\ r.when = "setup" /\ r.result = "passed"
       /\ reports = {r} /\ node = Accumulate(NoAccumulator, r)
  /\ s = "teardown" => \E r \in Reports :
       /\ r.when = "setup"
       /\ \/ reports = {r} /\ node = Accumulate(NoAccumulator, r)
          \/ \E c \in Reports :
               /\ r.result = "passed" /\ c.when = "call" /\ reports = {r, c}
               /\ node = Accumulate(Accumulate(NoAccumulator, r), c)

\* An event of an attempt at phase s, after which it is at phase next.
Step(event, s, next) ==
  \/ /\ event.kind = "report" /\ next = NextPhase(event.report)
     /\ event.report.when \in {"setup", "call", "teardown"}
     /\ event.report.when = s \/ (s = "complete" /\ event.report.when = "setup")
  \/ event.kind = "complete" /\ s = "complete" /\ next = "setup"

\* A worker's events lead through the controller's list of its tests to the worker's
\* own list: the event at i is of the test at place[i], which is at stage[i].
Line(P, Q, ph, C, place, stage) ==
  /\ place \in [1..Len(C) + 1 -> Nat \ {0}] /\ stage \in [1..Len(C) + 1 -> Stages]
  /\ place[1] = 1
  /\ \A i, j \in 1..Len(C) + 1 : i <= j => place[i] <= place[j]
  /\ \A i \in 1..Len(C) :
       \/ C[i] = Down /\ i = Len(C) /\ ph = "dead"
       \/ /\ C[i] \in Events /\ place[i] <= Len(P) /\ C[i].test = P[place[i]]
          /\ place[i + 1] = IF C[i].kind = "complete" THEN place[i] + 1 ELSE place[i]
          /\ Step(C[i], stage[i], stage[i + 1])
  /\ ph = "dead" => Q = <<>> /\ C # <<>> /\ C[Len(C)] = Down
  /\ ph # "dead" =>
       /\ place[Len(C) + 1] + Len(Q) = Len(P) + 1
       /\ \A k \in 1..Len(Q) : Q[k] = P[place[Len(C) + 1] + k - 1]
       /\ ph = stage[Len(C) + 1] \/ (ph = "setup" /\ stage[Len(C) + 1] = "complete")
       /\ Q = <<>> => stage[Len(C) + 1] = "setup"

Typed(P, Q, ph, C) ==
  /\ P \in Seq(Tests) /\ Q \in Seq(Tests) /\ C \in Seq(Events \cup {Down})
  /\ ph \in Stages \cup {"dead"}

LEMMA LineAssign ==
  ASSUME NEW P, NEW Q, NEW ph, NEW C, NEW place, NEW stage, NEW t \in Tests,
         Typed(P, Q, ph, C), Line(P, Q, ph, C, place, stage), ph # "dead"
  PROVE  Line(Append(P, t), Append(Q, t), ph, C, place, stage)
<1>. DEFINE P2 == Append(P, t)
            Q2 == Append(Q, t)
            n == Len(C)
<1>1. n \in Nat /\ Len(P) \in Nat /\ Len(Q) \in Nat BY DEF Typed
<1>2. Len(P2) = Len(P) + 1 /\ P2[Len(P) + 1] = t /\ \A i \in 1..Len(P) : P2[i] = P[i]
  BY DEF Typed
<1>3. Len(Q2) = Len(Q) + 1 /\ Q2[Len(Q) + 1] = t /\ \A i \in 1..Len(Q) : Q2[i] = Q[i]
  BY DEF Typed
<1>4. place \in [1..n + 1 -> Nat \ {0}] /\ place[n + 1] \in Nat \ {0} BY <1>1 DEF Line
<1>5. place[n + 1] + Len(Q2) = Len(P2) + 1 BY <1>1, <1>2, <1>3, <1>4 DEF Line
<1>6. ASSUME NEW k \in 1..Len(Q2) PROVE Q2[k] = P2[place[n + 1] + k - 1]
  <2>1. CASE k = Len(Q) + 1 BY <1>1, <1>2, <1>3, <1>4, <1>5, <2>1
  <2>2. CASE k # Len(Q) + 1
    <3>1. k \in 1..Len(Q) /\ place[n + 1] + k - 1 \in 1..Len(P)
      BY <1>1, <1>2, <1>3, <1>4, <1>5, <2>2
    <3>2. Q2[k] = Q[k] /\ P2[place[n + 1] + k - 1] = P[place[n + 1] + k - 1] BY <1>2, <1>3, <3>1
    <3>3. Q[k] = P[place[n + 1] + k - 1] BY <3>1 DEF Line
    <3>. QED BY <3>2, <3>3
  <2>. QED BY <2>1, <2>2
<1>7. ASSUME NEW i \in 1..n, place[i] <= Len(P)
      PROVE  place[i] <= Len(P2) /\ P2[place[i]] = P[place[i]]
  <2>1. place[i] \in Nat \ {0}
    BY <1>1, <1>4
  <2>2. place[i] \in 1..Len(P)
    BY <1>1, <1>7, <2>1
  <2>. QED BY <1>1, <1>2, <2>1, <2>2
<1>. HIDE DEF P2, Q2
<1>8. Q2 # <<>>
  <2>1. Len(Q2) # 0 BY <1>1, <1>3
  <2>2. Len(<<>>) = 0 OBVIOUS
  <2>. QED BY <2>1, <2>2
<1>9. Line(P2, Q2, ph, C, place, stage)
  BY <1>1, <1>4, <1>5, <1>6, <1>7, <1>8 DEF Line
<1>. QED BY <1>9 DEF P2, Q2

LEMMA LineRun ==
  ASSUME NEW P, NEW Q, NEW C, NEW place, NEW stage, NEW r \in Reports,
         Typed(P, Q, r.when, C), Line(P, Q, r.when, C, place, stage), Q # <<>>
  PROVE  \E p, s : s[1] = stage[1] /\ Line(P, Q, NextPhase(r), Append(C, Event("report", Head(Q), r)), p, s)
<1>. DEFINE n == Len(C)
            e == Event("report", Head(Q), r)
            D == Append(C, e)
            p == [i \in 1..n + 2 |-> IF i = n + 2 THEN place[n + 1] ELSE place[i]]
            s == [i \in 1..n + 2 |-> IF i = n + 2 THEN NextPhase(r) ELSE stage[i]]
<1>1. /\ n \in Nat /\ r.when # "dead" /\ NextPhase(r) \in Stages /\ NextPhase(r) # "setup"
      /\ r.when # "crash"
  BY DEF Typed, Reports, NextPhase, Stages
<1>2. e \in Events /\ e.kind = "report" /\ e.test = Q[1] /\ e.report = r
  BY DEF Event, Events, Typed
<1>. HIDE DEF e
<1>3. Len(D) = n + 1 /\ D[n + 1] = e /\ \A i \in 1..n : D[i] = C[i]
  BY <1>2 DEF Typed
<1>4. s[1] = stage[1] BY <1>1
<1>5. p \in [1..n + 2 -> Nat \ {0}] /\ s \in [1..n + 2 -> Stages] /\ p[1] = 1
  BY <1>1 DEF Line
<1>6. \A i, j \in 1..n + 2 : i <= j => p[i] <= p[j]
  <2>0. /\ place \in [1..n + 1 -> Nat \ {0}]
        /\ \A i, j \in 1..n + 1 : i <= j => place[i] <= place[j]
    BY DEF Line
  <2>1. \A i \in 1..n + 1 : p[i] = place[i] /\ place[i] \in Nat /\ place[i] <= place[n + 1]
    BY <1>1, <2>0
  <2>2. p[n + 2] = place[n + 1] BY <1>1
  <2>. QED BY <1>1, <2>0, <2>1, <2>2
<1>7. Len(Q) \in Nat \ {0} /\ Len(P) \in Nat BY DEF Typed
<1>8. place[n + 1] <= Len(P) /\ Q[1] = P[place[n + 1]]
  <2>1. /\ place[n + 1] \in Nat \ {0} /\ place[n + 1] + Len(Q) = Len(P) + 1
        /\ \A k \in 1..Len(Q) : Q[k] = P[place[n + 1] + k - 1]
    BY <1>1 DEF Line
  <2>2. place[n + 1] + 1 - 1 = place[n + 1] /\ 1 \in 1..Len(Q)
    BY <1>7, <2>1
  <2>3. Q[1] = P[place[n + 1] + 1 - 1]
    BY <2>1, <2>2
  <2>4. place[n + 1] <= Len(P)
    BY <1>7, <2>1
  <2>. QED BY <2>2, <2>3, <2>4
<1>9. Step(e, s[n + 1], s[n + 2])
  BY <1>1, <1>2 DEF Step, Line, Reports
<1>10. ASSUME NEW i \in 1..n + 1
       PROVE  /\ D[i] \in Events /\ p[i] <= Len(P) /\ D[i].test = P[p[i]]
              /\ p[i + 1] = IF D[i].kind = "complete" THEN p[i] + 1 ELSE p[i]
              /\ Step(D[i], s[i], s[i + 1])
  <2>1. CASE i = n + 1 BY <1>1, <1>2, <1>3, <1>8, <1>9, <2>1
  <2>2. CASE i # n + 1
    <3>1. i \in 1..n /\ D[i] = C[i] BY <1>1, <1>3, <2>2
    <3>2. p[i] = place[i] /\ p[i + 1] = place[i + 1] /\ s[i] = stage[i] /\ s[i + 1] = stage[i + 1]
      BY <1>1, <3>1
    <3>. QED BY <1>1, <3>1, <3>2 DEF Line
  <2>. QED BY <2>1, <2>2
<1>11. /\ p[n + 2] + Len(Q) = Len(P) + 1 /\ s[n + 2] = NextPhase(r)
       /\ \A k \in 1..Len(Q) : Q[k] = P[p[n + 2] + k - 1]
  BY <1>1, <1>7 DEF Line
<1>. HIDE DEF p, s, D
<1>12. Line(P, Q, NextPhase(r), D, p, s)
  BY <1>1, <1>3, <1>5, <1>6, <1>10, <1>11 DEF Line, Stages
<1>. QED BY <1>4, <1>12 DEF D, e

LEMMA LineComplete ==
  ASSUME NEW P, NEW Q, NEW C, NEW place, NEW stage,
         Typed(P, Q, "complete", C), Line(P, Q, "complete", C, place, stage), Q # <<>>
  PROVE  \E p, s : /\ s[1] = stage[1]
                  /\ Line(P, Tail(Q), "setup", Append(C, Event("complete", Head(Q), CrashReport)), p, s)
<1>. DEFINE n == Len(C)
            e == Event("complete", Head(Q), CrashReport)
            D == Append(C, e)
            R == Tail(Q)
            p == [i \in 1..n + 2 |-> IF i = n + 2 THEN place[n + 1] + 1 ELSE place[i]]
            s == [i \in 1..n + 2 |-> IF i = n + 2 THEN "setup" ELSE stage[i]]
<1>1. n \in Nat /\ stage[n + 1] = "complete"
  BY DEF Typed, Line
<1>2. e \in Events /\ e.kind = "complete" /\ e.test = Q[1]
  <2>1. CrashReport \in Reports BY DEF CrashReport, Report, Reports, Results
  <2>. QED BY <2>1 DEF Event, Events, Typed
<1>. HIDE DEF e
<1>3. Len(D) = n + 1 /\ D[n + 1] = e /\ \A i \in 1..n : D[i] = C[i]
  BY <1>2 DEF Typed
<1>4. s[1] = stage[1] BY <1>1
<1>0. /\ place \in [1..n + 1 -> Nat \ {0}] /\ stage \in [1..n + 1 -> Stages] /\ place[1] = 1
      /\ \A i, j \in 1..n + 1 : i <= j => place[i] <= place[j]
  BY DEF Line
<1>5. p \in [1..n + 2 -> Nat \ {0}] /\ s \in [1..n + 2 -> Stages] /\ p[1] = 1
  <2>1. "setup" \in Stages /\ place[n + 1] + 1 \in Nat \ {0} BY <1>0, <1>1 DEF Stages
  <2>. QED BY <1>0, <1>1, <2>1
<1>6. \A i, j \in 1..n + 2 : i <= j => p[i] <= p[j]
  <2>1. \A i \in 1..n + 1 : p[i] = place[i] /\ place[i] \in Nat /\ place[i] <= place[n + 1]
    BY <1>0, <1>1
  <2>2. p[n + 2] = place[n + 1] + 1 BY <1>1
  <2>. QED BY <1>0, <1>1, <2>1, <2>2
<1>7. Len(Q) \in Nat \ {0} /\ Len(P) \in Nat BY DEF Typed
<1>17. /\ place[n + 1] \in Nat \ {0} /\ place[n + 1] + Len(Q) = Len(P) + 1
       /\ \A k \in 1..Len(Q) : Q[k] = P[place[n + 1] + k - 1]
  BY <1>1 DEF Line
<1>8. place[n + 1] <= Len(P) /\ Q[1] = P[place[n + 1]]
  <2>1. place[n + 1] + 1 - 1 = place[n + 1] /\ 1 \in 1..Len(Q)
    BY <1>7, <1>17
  <2>2. Q[1] = P[place[n + 1] + 1 - 1]
    BY <1>17, <2>1
  <2>3. place[n + 1] <= Len(P)
    BY <1>7, <1>17
  <2>. QED BY <2>1, <2>2, <2>3
<1>9. Step(e, s[n + 1], s[n + 2]) BY <1>1, <1>2 DEF Step
<1>10. ASSUME NEW i \in 1..n + 1
       PROVE  /\ D[i] \in Events /\ p[i] <= Len(P) /\ D[i].test = P[p[i]]
              /\ p[i + 1] = IF D[i].kind = "complete" THEN p[i] + 1 ELSE p[i]
              /\ Step(D[i], s[i], s[i + 1])
  <2>1. CASE i = n + 1 BY <1>1, <1>2, <1>3, <1>8, <1>9, <2>1
  <2>2. CASE i # n + 1
    <3>1. i \in 1..n /\ D[i] = C[i] BY <1>1, <1>3, <2>2
    <3>2. p[i] = place[i] /\ p[i + 1] = place[i + 1] /\ s[i] = stage[i] /\ s[i + 1] = stage[i + 1]
      BY <1>1, <3>1
    <3>. QED BY <1>1, <3>1, <3>2 DEF Line
  <2>. QED BY <2>1, <2>2
<1>11. Len(R) = Len(Q) - 1 /\ \A k \in 1..Len(R) : R[k] = Q[k + 1]
  BY <1>7 DEF Typed
<1>12. place[n + 1] \in Nat \ {0} /\ place[n + 1] + Len(Q) = Len(P) + 1
  BY <1>1 DEF Line
<1>13. p[n + 2] = place[n + 1] + 1 /\ s[n + 2] = "setup" BY <1>1
<1>14. p[n + 2] + Len(R) = Len(P) + 1 BY <1>7, <1>11, <1>12, <1>13
<1>15. ASSUME NEW k \in 1..Len(R) PROVE R[k] = P[p[n + 2] + k - 1]
  <2>1. k + 1 \in 1..Len(Q) /\ place[n + 1] + (k + 1) - 1 = p[n + 2] + k - 1
    BY <1>7, <1>11, <1>12, <1>13
  <2>2. Q[k + 1] = P[place[n + 1] + (k + 1) - 1] BY <2>1 DEF Line
  <2>. QED BY <1>11, <2>1, <2>2
<1>. HIDE DEF p, s, D, R
<1>16. Line(P, R, "setup", D, p, s)
  BY <1>1, <1>3, <1>5, <1>6, <1>10, <1>13, <1>14, <1>15 DEF Line
<1>. QED BY <1>4, <1>16 DEF D, e, R

LEMMA LineRerun ==
  ASSUME NEW P, NEW Q, NEW C, NEW place, NEW stage,
         Typed(P, Q, "complete", C), Line(P, Q, "complete", C, place, stage)
  PROVE  Line(P, Q, "setup", C, place, stage)
BY DEF Line, Typed

LEMMA LineCrash ==
  ASSUME NEW P, NEW Q, NEW ph, NEW C, NEW place, NEW stage, NEW sent \in 0..Len(C),
         Typed(P, Q, ph, C), Line(P, Q, ph, C, place, stage), ph # "dead"
  PROVE  \E p, s : /\ s[1] = stage[1]
                  /\ Line(P, <<>>, "dead", Append(SubSeq(C, 1, sent), Down), p, s)
<1>. DEFINE S == SubSeq(C, 1, sent)
            D == Append(S, Down)
            p == [i \in 1..sent + 2 |-> IF i = sent + 2 THEN place[sent + 1] ELSE place[i]]
            s == [i \in 1..sent + 2 |-> IF i = sent + 2 THEN "setup" ELSE stage[i]]
<1>1. Len(C) \in Nat /\ sent \in Nat BY DEF Typed
<1>2. Len(S) = sent /\ S \in Seq(Events \cup {Down}) /\ \A i \in 1..sent : S[i] = C[i]
  BY <1>1 DEF Typed
<1>. HIDE DEF S
<1>3. Len(D) = sent + 1 /\ D[sent + 1] = Down /\ \A i \in 1..sent : D[i] = C[i]
  BY <1>1, <1>2
<1>4. s[1] = stage[1] BY <1>1
<1>5. p \in [1..sent + 2 -> Nat \ {0}] /\ s \in [1..sent + 2 -> Stages] /\ p[1] = 1
  <2>1. "setup" \in Stages BY DEF Stages
  <2>2. place \in [1..Len(C) + 1 -> Nat \ {0}] /\ stage \in [1..Len(C) + 1 -> Stages] /\ place[1] = 1
    BY DEF Line
  <2>. QED BY <1>1, <2>1, <2>2
<1>6. \A i, j \in 1..sent + 2 : i <= j => p[i] <= p[j] BY <1>1 DEF Line
<1>7. ASSUME NEW i \in 1..sent
      PROVE  /\ D[i] \in Events /\ p[i] <= Len(P) /\ D[i].test = P[p[i]]
             /\ p[i + 1] = IF D[i].kind = "complete" THEN p[i] + 1 ELSE p[i]
             /\ Step(D[i], s[i], s[i + 1])
  <2>1. i \in 1..Len(C) /\ D[i] = C[i] BY <1>1, <1>3
  <2>2. p[i] = place[i] /\ p[i + 1] = place[i + 1] /\ s[i] = stage[i] /\ s[i + 1] = stage[i + 1]
    BY <1>1
  <2>. QED BY <2>1, <2>2 DEF Line
<1>8. D # <<>> BY <1>2
<1>10. \A i \in 1..Len(D) : i \in 1..sent \/ (i = sent + 1 /\ D[i] = Down /\ i = Len(D)) BY <1>1, <1>3
<1>11. Len(D) + 1 = sent + 2 BY <1>1, <1>3
<1>. HIDE DEF p, s, D
<1>9. Line(P, <<>>, "dead", D, p, s) BY <1>1, <1>3, <1>5, <1>6, <1>7, <1>8, <1>10, <1>11 DEF Line
<1>. QED BY <1>4, <1>9 DEF D, S

\* The controller takes the first event.
LEMMA LineReport ==
  ASSUME NEW P, NEW Q, NEW ph, NEW C, NEW place, NEW stage,
         Typed(P, Q, ph, C), Line(P, Q, ph, C, place, stage), C # <<>>, Head(C).kind = "report"
  PROVE  \E p, s : /\ P # <<>> /\ Head(C) \in Events /\ Head(C).test = Head(P)
                  /\ Step(Head(C), stage[1], s[1])
                  /\ Line(P, Q, ph, Tail(C), p, s)
<1>. DEFINE n == Len(C)
            D == Tail(C)
            p == [i \in 1..n |-> place[i + 1]]
            s == [i \in 1..n |-> stage[i + 1]]
<1>1. n \in Nat \ {0} /\ Head(C) = C[1] /\ Len(P) \in Nat BY DEF Typed
<1>2. C[1] # Down BY <1>1 DEF Down
<1>0. /\ place \in [1..n + 1 -> Nat \ {0}] /\ stage \in [1..n + 1 -> Stages] /\ place[1] = 1
      /\ \A i, j \in 1..n + 1 : i <= j => place[i] <= place[j]
  BY DEF Line
<1>3. /\ C[1] \in Events /\ place[1] <= Len(P) /\ C[1].test = P[place[1]]
      /\ place[2] = place[1] /\ Step(C[1], stage[1], stage[2])
  BY <1>1, <1>2 DEF Line
<1>4. P # <<>> /\ P[1] = Head(P) BY <1>0, <1>1, <1>3 DEF Typed
<1>5. Len(D) = n - 1 /\ \A i \in 1..n - 1 : D[i] = C[i + 1] BY <1>1 DEF Typed
<1>6. p \in [1..n -> Nat \ {0}] /\ s \in [1..n -> Stages] /\ p[1] = 1 /\ s[1] = stage[2]
  BY <1>0, <1>1, <1>3
<1>7. \A i, j \in 1..n : i <= j => p[i] <= p[j] BY <1>0, <1>1
<1>8. ASSUME NEW i \in 1..n - 1
      PROVE  \/ D[i] = Down /\ i = n - 1 /\ ph = "dead"
             \/ /\ D[i] \in Events /\ p[i] <= Len(P) /\ D[i].test = P[p[i]]
                /\ p[i + 1] = IF D[i].kind = "complete" THEN p[i] + 1 ELSE p[i]
                /\ Step(D[i], s[i], s[i + 1])
  <2>. n \in Nat /\ i \in Nat /\ i >= 1 /\ i <= n - 1 BY <1>1
  <2>0. D[i] = C[i + 1] BY <1>5
  <2>1. i + 1 \in 1..n /\ (i + 1 = n => i = n - 1) /\ D[i] = C[i + 1] BY <2>0
  <2>2. /\ p[i] = place[i + 1] /\ p[i + 1] = place[(i + 1) + 1]
        /\ s[i] = stage[i + 1] /\ s[i + 1] = stage[(i + 1) + 1]
    BY <1>1
  <2>. QED BY <2>1, <2>2 DEF Line
<1>9. ph = "dead" => Q = <<>> /\ D # <<>> /\ D[n - 1] = Down
  <2>. SUFFICES ASSUME ph = "dead" PROVE Q = <<>> /\ D # <<>> /\ D[n - 1] = Down OBVIOUS
  <2>1. Q = <<>> /\ C[n] = Down BY DEF Line
  <2>2. n # 1 BY <1>2, <2>1
  <2>3. n - 1 \in 1..n - 1 /\ D[n - 1] = C[(n - 1) + 1] BY <1>1, <1>5, <2>2
  <2>4. D # <<>> BY <1>1, <1>5, <2>2
  <2>. QED BY <1>1, <2>1, <2>3, <2>4
<1>10. p[n] = place[n + 1] /\ s[n] = stage[n + 1] BY <1>1
<1>11. (n - 1) + 1 = n BY <1>1
<1>. HIDE DEF p, s, D
<1>12. Line(P, Q, ph, D, p, s)
  BY <1>1, <1>5, <1>6, <1>7, <1>8, <1>9, <1>10, <1>11 DEF Line
<1>. QED BY <1>1, <1>3, <1>4, <1>0, <1>6, <1>12 DEF D

LEMMA LineTakeComplete ==
  ASSUME NEW P, NEW Q, NEW ph, NEW C, NEW place, NEW stage,
         Typed(P, Q, ph, C), Line(P, Q, ph, C, place, stage), C # <<>>, Head(C).kind = "complete"
  PROVE  \E p, s : /\ P # <<>> /\ stage[1] = "complete" /\ s[1] = "setup"
                  /\ Line(Tail(P), Q, ph, Tail(C), p, s)
<1>. DEFINE n == Len(C)
            D == Tail(C)
            R == Tail(P)
            p == [i \in 1..n |-> place[i + 1] - 1]
            s == [i \in 1..n |-> stage[i + 1]]
<1>1. n \in Nat \ {0} /\ Head(C) = C[1] /\ Len(P) \in Nat BY DEF Typed
<1>2. C[1] # Down BY <1>1 DEF Down
<1>0. /\ place \in [1..n + 1 -> Nat \ {0}] /\ stage \in [1..n + 1 -> Stages] /\ place[1] = 1
      /\ \A i, j \in 1..n + 1 : i <= j => place[i] <= place[j]
  BY DEF Line
<1>3. /\ C[1] \in Events /\ place[1] <= Len(P)
      /\ place[2] = place[1] + 1 /\ Step(C[1], stage[1], stage[2])
  BY <1>1, <1>2 DEF Line
<1>4. P # <<>> BY <1>0, <1>1, <1>3 DEF Typed
<1>5. Len(D) = n - 1 /\ \A i \in 1..n - 1 : D[i] = C[i + 1] BY <1>1 DEF Typed
<1>13. Len(R) = Len(P) - 1 /\ \A i \in 1..Len(P) - 1 : R[i] = P[i + 1] BY <1>4 DEF Typed
<1>14. \A i \in 1..n : place[i + 1] \in Nat /\ place[i + 1] >= 2 BY <1>0, <1>1, <1>3
<1>6. p \in [1..n -> Nat \ {0}] /\ s \in [1..n -> Stages] /\ p[1] = 1
  <2>1. \A i \in 1..n : place[i + 1] - 1 \in Nat \ {0} BY <1>14
  <2>2. \A i \in 1..n : i + 1 \in 1..n + 1 BY <1>1
  <2>3. \A i \in 1..n : stage[i + 1] \in Stages BY <1>0, <2>2
  <2>4. p[1] = 1 BY <1>0, <1>1, <1>3
  <2>. QED BY <2>1, <2>3, <2>4
<1>15. stage[1] = "complete" /\ s[1] = "setup" BY <1>1, <1>3 DEF Step
<1>18. \A i \in 1..n : p[i] = place[i + 1] - 1 /\ s[i] = stage[i + 1] BY <1>1
<1>7. ASSUME NEW i \in 1..n, NEW j \in 1..n, i <= j PROVE p[i] <= p[j]
  <2>1. i + 1 \in 1..n + 1 /\ j + 1 \in 1..n + 1 /\ i + 1 <= j + 1 BY <1>1, <1>7
  <2>2. place[i + 1] <= place[j + 1] BY <1>0, <2>1
  <2>. QED BY <1>14, <1>18, <2>2
<1>8. ASSUME NEW i \in 1..n - 1
      PROVE  \/ D[i] = Down /\ i = n - 1 /\ ph = "dead"
             \/ /\ D[i] \in Events /\ p[i] <= Len(R) /\ D[i].test = R[p[i]]
                /\ p[i + 1] = IF D[i].kind = "complete" THEN p[i] + 1 ELSE p[i]
                /\ Step(D[i], s[i], s[i + 1])
  <2>. n \in Nat /\ i \in Nat /\ i >= 1 /\ i <= n - 1 BY <1>1
  <2>0. D[i] = C[i + 1] BY <1>5
  <2>1. i + 1 \in 1..n /\ (i + 1 = n => i = n - 1) /\ D[i] = C[i + 1] BY <2>0
  <2>2. /\ p[i] = place[i + 1] - 1 /\ p[i + 1] = place[(i + 1) + 1] - 1
        /\ s[i] = stage[i + 1] /\ s[i + 1] = stage[(i + 1) + 1]
    BY <1>18, <2>1
  <2>3. place[i + 1] \in Nat /\ place[i + 1] >= 2 /\ place[(i + 1) + 1] \in Nat
    <3>1. i \in 1..n OBVIOUS
    <3>. QED BY <1>14, <2>1, <3>1
  <2>4. CASE C[i + 1] = Down /\ i + 1 = n /\ ph = "dead" BY <2>1, <2>4
  <2>5. CASE /\ C[i + 1] \in Events /\ place[i + 1] <= Len(P) /\ C[i + 1].test = P[place[i + 1]]
             /\ place[(i + 1) + 1] = IF C[i + 1].kind = "complete" THEN place[i + 1] + 1 ELSE place[i + 1]
             /\ Step(C[i + 1], stage[i + 1], stage[(i + 1) + 1])
    <3>0. ASSUME NEW x \in Nat, x >= 2, x <= Len(P) PROVE x - 1 \in 1..Len(P) - 1 /\ (x - 1) + 1 = x
      BY <1>1, <3>0
    <3>1. p[i] \in 1..Len(P) - 1 /\ p[i] + 1 = place[i + 1] BY <2>2, <2>3, <2>5, <3>0
    <3>2. R[p[i]] = P[place[i + 1]] BY <1>13, <3>1
    <3>3. p[i + 1] = IF D[i].kind = "complete" THEN p[i] + 1 ELSE p[i]
      <4>1. CASE D[i].kind = "complete" BY <2>0, <2>2, <2>3, <2>5, <4>1
      <4>2. CASE D[i].kind # "complete" BY <2>0, <2>2, <2>3, <2>5, <4>2
      <4>. QED BY <4>1, <4>2
    <3>. QED BY <1>13, <2>1, <2>2, <2>5, <3>1, <3>2, <3>3
  <2>. QED BY <2>1, <2>4, <2>5 DEF Line
<1>9. ph = "dead" => Q = <<>> /\ D # <<>> /\ D[n - 1] = Down
  <2>. SUFFICES ASSUME ph = "dead" PROVE Q = <<>> /\ D # <<>> /\ D[n - 1] = Down OBVIOUS
  <2>1. Q = <<>> /\ C[n] = Down BY DEF Line
  <2>2. n # 1 BY <1>2, <2>1
  <2>3. n - 1 \in 1..n - 1 /\ D[n - 1] = C[(n - 1) + 1] BY <1>1, <1>5, <2>2
  <2>4. D # <<>> BY <1>1, <1>5, <2>2
  <2>. QED BY <1>1, <2>1, <2>3, <2>4
<1>10. p[n] = place[n + 1] - 1 /\ s[n] = stage[n + 1] BY <1>1, <1>18
<1>11. (n - 1) + 1 = n BY <1>1
<1>16. ASSUME ph # "dead"
       PROVE  /\ p[n] + Len(Q) = Len(R) + 1
              /\ \A k \in 1..Len(Q) : Q[k] = R[p[n] + k - 1]
  <2>1. /\ place[n + 1] + Len(Q) = Len(P) + 1
        /\ \A k \in 1..Len(Q) : Q[k] = P[place[n + 1] + k - 1]
    BY <1>16 DEF Line
  <2>2. Len(Q) \in Nat /\ place[n + 1] \in Nat /\ place[n + 1] >= 2
    <3>1. n \in 1..n BY <1>1
    <3>. QED BY <1>14, <3>1 DEF Typed
  <2>4. p[n] = place[n + 1] - 1 BY <1>10
  <2>. HIDE DEF p
  <2>3. ASSUME NEW k \in 1..Len(Q) PROVE Q[k] = R[p[n] + k - 1]
    <3>0. ASSUME NEW x \in Nat, x >= 2, x + Len(Q) = Len(P) + 1
          PROVE  /\ (x - 1) + k - 1 \in 1..Len(P) - 1
                 /\ ((x - 1) + k - 1) + 1 = x + k - 1
      BY <1>1, <2>2, <3>0
    <3>1. p[n] + k - 1 \in 1..Len(P) - 1 /\ (p[n] + k - 1) + 1 = place[n + 1] + k - 1
      BY <2>1, <2>2, <2>4, <3>0
    <3>. QED BY <1>13, <2>1, <3>1
  <2>5. ASSUME NEW x \in Nat, x >= 2, x + Len(Q) = Len(P) + 1
        PROVE  (x - 1) + Len(Q) = (Len(P) - 1) + 1
    BY <1>1, <2>2, <2>5
  <2>6. p[n] + Len(Q) = Len(R) + 1 BY <1>13, <2>1, <2>2, <2>4, <2>5
  <2>. QED BY <2>3, <2>6
<1>. HIDE DEF p, s, D, R
<1>12. Line(R, Q, ph, D, p, s)
  BY <1>1, <1>5, <1>6, <1>7, <1>8, <1>9, <1>10, <1>11, <1>16 DEF Line
<1>. QED BY <1>4, <1>15, <1>12 DEF D, R

LEMMA LineDown ==
  ASSUME NEW P, NEW Q, NEW ph, NEW C, NEW place, NEW stage,
         Typed(P, Q, ph, C), Line(P, Q, ph, C, place, stage), C # <<>>, Head(C).kind = "down"
  PROVE  \E p, s : Q = <<>> /\ Line(<<>>, Q, "setup", Tail(C), p, s)
<1>1. Len(C) \in Nat \ {0} /\ Head(C) = C[1] BY DEF Typed
<1>2. C[1] = Down /\ Len(C) = 1 /\ ph = "dead"
  <2>1. C[1] \notin Events BY <1>1 DEF Events
  <2>2. 1 \in 1..Len(C) BY <1>1
  <2>. QED BY <1>1, <2>1, <2>2 DEF Line
<1>3. Q = <<>> BY <1>2 DEF Line
<1>4. Len(Tail(C)) = 0 BY <1>1, <1>2 DEF Typed
<1>. DEFINE p == [i \in 1..1 |-> 1]
            s == [i \in 1..1 |-> "setup"]
<1>5. p \in [1..1 -> Nat \ {0}] /\ s \in [1..1 -> Stages] /\ p[1] = 1 /\ s[1] = "setup" BY DEF Stages
<1>. HIDE DEF p, s
<1>6. Line(<<>>, Q, "setup", Tail(C), p, s)
  <2>1. Len(Q) = 0 /\ Len(<<>>) = 0 BY <1>3
  <2>2. 1..0 = {} /\ 1..0 + 1 = {1} /\ 0 + 1 = 1 OBVIOUS
  <2>3. \A i, j \in {1} : p[i] <= p[j] BY <1>5
  <2>. DEFINE T == Tail(C)
  <2>4. Len(T) = 0 BY <1>4
  <2>. HIDE DEF T
  <2>5. p[Len(T) + 1] = 1 /\ s[Len(T) + 1] = "setup" /\ 1..Len(T) + 1 = {1} /\ 1..Len(T) = {} /\ 1..Len(Q) = {}
    BY <1>5, <2>1, <2>4
  <2>6. p[Len(T) + 1] + Len(Q) = Len(<<>>) + 1 BY <2>1, <2>5
  <2>7. Line(<<>>, Q, "setup", T, p, s) BY <1>5, <2>3, <2>5, <2>6 DEF Line
  <2>. QED BY <2>7 DEF T
<1>. QED BY <1>3, <1>6

-----------------------------------------------------------------------------
(* A worker's line with what the controller knows of the test it is at *)

Coherent(P, Q, ph, C, acc, sn) ==
  \E place, stage :
    /\ Line(P, Q, ph, C, place, stage)
    /\ P # <<>> => Attempt(acc[Head(P)], sn[Head(P)], stage[1])

LEMMA CoherentFrame ==
  ASSUME NEW P, NEW Q, NEW ph, NEW C, NEW acc, NEW sn, NEW acc2, NEW sn2,
         Coherent(P, Q, ph, C, acc, sn),
         P # <<>> => acc2[Head(P)] = acc[Head(P)] /\ sn2[Head(P)] = sn[Head(P)]
  PROVE  Coherent(P, Q, ph, C, acc2, sn2)
BY DEF Coherent

LEMMA CoherentAssign ==
  ASSUME NEW P, NEW Q, NEW ph, NEW C, NEW acc, NEW sn, NEW t \in Tests,
         Typed(P, Q, ph, C), Coherent(P, Q, ph, C, acc, sn), ph # "dead",
         acc[t] = NoAccumulator
  PROVE  Coherent(Append(P, t), Append(Q, t), ph, C, acc, sn)
<1>1. PICK place, stage :
        /\ Line(P, Q, ph, C, place, stage)
        /\ P # <<>> => Attempt(acc[Head(P)], sn[Head(P)], stage[1])
  BY DEF Coherent
<1>2. Line(Append(P, t), Append(Q, t), ph, C, place, stage) BY <1>1, LineAssign
<1>3. CASE P # <<>>
  <2>1. Head(Append(P, t)) = Head(P) BY <1>3 DEF Typed
  <2>. QED BY <1>1, <1>2, <1>3, <2>1 DEF Coherent
<1>4. CASE P = <<>>
  <2>1. Head(Append(P, t)) = t BY <1>4
  <2>2. Len(P) = 0 /\ Len(Q) \in Nat /\ Len(C) \in Nat BY <1>4 DEF Typed
  <2>3. Len(C) = 0
    <3>. SUFFICES ASSUME Len(C) # 0 PROVE FALSE OBVIOUS
    <3>1. 1 \in 1..Len(C) BY <2>2
    <3>2. place[1] <= Len(P) /\ place[1] = 1 BY <1>1, <3>1 DEF Line
    <3>. QED BY <2>2, <3>2
  <2>4. place[1] = 1 /\ place[Len(C) + 1] + Len(Q) = Len(P) + 1 BY <1>1 DEF Line
  <2>5. Len(Q) = 0 BY <2>2, <2>3, <2>4
  <2>6. Q = <<>> BY <2>5 DEF Typed
  <2>7. stage[1] = "setup" BY <1>1, <2>3, <2>6 DEF Line
  <2>8. Attempt(acc[t], sn[t], stage[1]) BY <2>7 DEF Attempt
  <2>. QED BY <1>2, <2>1, <2>8 DEF Coherent
<1>. QED BY <1>3, <1>4

LEMMA CoherentRun ==
  ASSUME NEW P, NEW Q, NEW C, NEW acc, NEW sn, NEW r \in Reports,
         Typed(P, Q, r.when, C), Coherent(P, Q, r.when, C, acc, sn), Q # <<>>
  PROVE  Coherent(P, Q, NextPhase(r), Append(C, Event("report", Head(Q), r)), acc, sn)
<1>1. PICK place, stage :
        /\ Line(P, Q, r.when, C, place, stage)
        /\ P # <<>> => Attempt(acc[Head(P)], sn[Head(P)], stage[1])
  BY DEF Coherent
<1>2. PICK p, s :
        /\ s[1] = stage[1]
        /\ Line(P, Q, NextPhase(r), Append(C, Event("report", Head(Q), r)), p, s)
  BY <1>1, LineRun
<1>. QED BY <1>1, <1>2 DEF Coherent

LEMMA CoherentComplete ==
  ASSUME NEW P, NEW Q, NEW C, NEW acc, NEW sn,
         Typed(P, Q, "complete", C), Coherent(P, Q, "complete", C, acc, sn)
  PROVE  /\ Q # <<>>
         /\ Coherent(P, Tail(Q), "setup", Append(C, Event("complete", Head(Q), CrashReport)),
                     acc, sn)
<1>1. PICK place, stage :
        /\ Line(P, Q, "complete", C, place, stage)
        /\ P # <<>> => Attempt(acc[Head(P)], sn[Head(P)], stage[1])
  BY DEF Coherent
<1>2. Q # <<>> BY <1>1 DEF Line
<1>3. PICK p, s :
        /\ s[1] = stage[1]
        /\ Line(P, Tail(Q), "setup", Append(C, Event("complete", Head(Q), CrashReport)), p, s)
  BY <1>1, <1>2, LineComplete
<1>. QED BY <1>1, <1>2, <1>3 DEF Coherent

LEMMA CoherentRerun ==
  ASSUME NEW P, NEW Q, NEW C, NEW acc, NEW sn,
         Typed(P, Q, "complete", C), Coherent(P, Q, "complete", C, acc, sn)
  PROVE  Coherent(P, Q, "setup", C, acc, sn)
BY LineRerun DEF Coherent

LEMMA CoherentCrash ==
  ASSUME NEW P, NEW Q, NEW ph, NEW C, NEW acc, NEW sn, NEW sent \in 0..Len(C),
         Typed(P, Q, ph, C), Coherent(P, Q, ph, C, acc, sn), ph # "dead"
  PROVE  Coherent(P, <<>>, "dead", Append(SubSeq(C, 1, sent), Down), acc, sn)
<1>1. PICK place, stage :
        /\ Line(P, Q, ph, C, place, stage)
        /\ P # <<>> => Attempt(acc[Head(P)], sn[Head(P)], stage[1])
  BY DEF Coherent
<1>2. PICK p, s :
        s[1] = stage[1] /\ Line(P, <<>>, "dead", Append(SubSeq(C, 1, sent), Down), p, s)
  BY <1>1, LineCrash
<1>. QED BY <1>1, <1>2 DEF Coherent

LEMMA CoherentReport ==
  ASSUME NEW P, NEW Q, NEW ph, NEW C, NEW acc, NEW sn,
         Typed(P, Q, ph, C), Coherent(P, Q, ph, C, acc, sn), C # <<>>,
         Head(C).kind = "report"
  PROVE  /\ P # <<>> /\ Head(C) \in Events /\ Head(C).test = Head(P)
         /\ \E s1, s2 :
              /\ Attempt(acc[Head(P)], sn[Head(P)], s1) /\ Step(Head(C), s1, s2)
              /\ \A acc2, sn2 : Attempt(acc2[Head(P)], sn2[Head(P)], s2) =>
                   Coherent(P, Q, ph, Tail(C), acc2, sn2)
<1>1. PICK place, stage :
        /\ Line(P, Q, ph, C, place, stage)
        /\ P # <<>> => Attempt(acc[Head(P)], sn[Head(P)], stage[1])
  BY DEF Coherent
<1>2. PICK p, s : /\ P # <<>> /\ Head(C) \in Events /\ Head(C).test = Head(P)
                  /\ Step(Head(C), stage[1], s[1])
                  /\ Line(P, Q, ph, Tail(C), p, s)
  BY <1>1, LineReport
<1>3. ASSUME NEW acc2, NEW sn2, Attempt(acc2[Head(P)], sn2[Head(P)], s[1])
      PROVE  Coherent(P, Q, ph, Tail(C), acc2, sn2)
  BY <1>2, <1>3 DEF Coherent
<1>. QED BY <1>1, <1>2, <1>3

LEMMA CoherentTakeComplete ==
  ASSUME NEW P, NEW Q, NEW ph, NEW C, NEW acc, NEW sn,
         Typed(P, Q, ph, C), Coherent(P, Q, ph, C, acc, sn), C # <<>>,
         Head(C).kind = "complete"
  PROVE  /\ P # <<>> /\ acc[Head(P)] = NoAccumulator
         /\ (Tail(P) # <<>> => acc[Head(Tail(P))] = NoAccumulator) =>
              Coherent(Tail(P), Q, ph, Tail(C), acc, sn)
<1>1. PICK place, stage :
        /\ Line(P, Q, ph, C, place, stage)
        /\ P # <<>> => Attempt(acc[Head(P)], sn[Head(P)], stage[1])
  BY DEF Coherent
<1>2. PICK p, s : /\ P # <<>> /\ stage[1] = "complete" /\ s[1] = "setup"
                  /\ Line(Tail(P), Q, ph, Tail(C), p, s)
  BY <1>1, LineTakeComplete
<1>3. acc[Head(P)] = NoAccumulator BY <1>1, <1>2 DEF Attempt
<1>4. ASSUME Tail(P) # <<>> => acc[Head(Tail(P))] = NoAccumulator
      PROVE  Coherent(Tail(P), Q, ph, Tail(C), acc, sn)
  <2>1. Tail(P) # <<>> => Attempt(acc[Head(Tail(P))], sn[Head(Tail(P))], s[1])
    BY <1>2, <1>4 DEF Attempt
  <2>. QED BY <1>2, <2>1 DEF Coherent
<1>. QED BY <1>2, <1>3, <1>4

LEMMA CoherentDown ==
  ASSUME NEW P, NEW Q, NEW ph, NEW C, NEW acc, NEW sn, NEW acc2, NEW sn2,
         Typed(P, Q, ph, C), Coherent(P, Q, ph, C, acc, sn), C # <<>>,
         Head(C).kind = "down"
  PROVE  Q = <<>> /\ Coherent(<<>>, Q, "setup", Tail(C), acc2, sn2)
<1>1. PICK place, stage : Line(P, Q, ph, C, place, stage) BY DEF Coherent
<1>2. PICK p, s : Q = <<>> /\ Line(<<>>, Q, "setup", Tail(C), p, s)
  BY <1>1, LineDown
<1>3. Coherent(<<>>, Q, "setup", Tail(C), acc2, sn2) BY <1>2 DEF Coherent
<1>. QED BY <1>2, <1>3

-----------------------------------------------------------------------------
(* The recorder *)

LEMMA AccumulatorTyped ==
  ASSUME NEW node \in Accumulator, NEW r \in Reports
  PROVE  Accumulate(node, r) \in Accumulator /\ Finalize(node) \in OutcomeValues
<1>1. Accumulate(node, r) \in Accumulator
  BY DEF Accumulator, Accumulate, Reports, Results
<1>2. Finalize(node) \in OutcomeValues
  BY DEF Accumulator, Results, Finalize, OutcomeValues
<1>. QED BY <1>1, <1>2

\* A report of a phase takes an attempt to the phase that follows, and that of its
\* teardown leads to the outcome the reports imply.
LEMMA AttemptStep ==
  ASSUME NEW node \in Accumulator, NEW reports, NEW s, NEW next, NEW event \in Events,
         Attempt(node, reports, s), event.kind = "report", Step(event, s, next),
         NEW node2, NEW reports2,
         node2 = IF event.report.when \in {"setup", "call"}
                 THEN Accumulate(node, event.report) ELSE NoAccumulator,
         reports2 = IF event.report.when = "setup" THEN {event.report}
                    ELSE reports \cup {event.report}
  PROVE  /\ Attempt(node2, reports2, next)
         /\ event.report.when \in {"setup", "call"} =>
              ~ \E x \in reports2 : x.when \in {"teardown", "crash"}
         /\ event.report.when \notin {"setup", "call"} =>
              Finalize(Accumulate(node, event.report)) = Recording!Verdict(reports2)
<1>. DEFINE r == event.report
<1>1. r \in Reports /\ next = NextPhase(r) /\ (r.when = s \/ (s = "complete" /\ r.when = "setup"))
      /\ r.when \in {"setup", "call", "teardown"}
  BY DEF Events, Step
<1>2. CASE r.when = "setup"
  <2>1. node = NoAccumulator BY <1>1, <1>2 DEF Attempt
  <2>2. node2 = Accumulate(NoAccumulator, r) /\ reports2 = {r} BY <1>2, <2>1
  <2>3. next = IF r.result = "passed" THEN "call" ELSE "teardown" BY <1>1, <1>2 DEF NextPhase
  <2>4. Attempt(node2, reports2, next) BY <1>1, <1>2, <2>2, <2>3 DEF Attempt
  <2>. QED BY <1>2, <2>2, <2>4
<1>3. CASE r.when = "call"
  <2>1. PICK u \in Reports :
          /\ u.when = "setup" /\ u.result = "passed"
          /\ reports = {u} /\ node = Accumulate(NoAccumulator, u)
    BY <1>1, <1>3 DEF Attempt
  <2>2. node2 = Accumulate(Accumulate(NoAccumulator, u), r) /\ reports2 = {u, r} BY <1>3, <2>1
  <2>3. next = "teardown" BY <1>1, <1>3 DEF NextPhase
  <2>4. Attempt(node2, reports2, next) BY <1>1, <1>3, <2>1, <2>2, <2>3 DEF Attempt
  <2>. QED BY <1>3, <2>1, <2>2, <2>4
<1>4. CASE r.when = "teardown"
  <2>1. next = "complete" /\ node2 = NoAccumulator /\ reports2 = reports \cup {r}
    BY <1>1, <1>4 DEF NextPhase
  <2>2. Attempt(node2, reports2, next) BY <2>1 DEF Attempt
  <2>3. PICK u \in Reports :
          /\ u.when = "setup"
          /\ \/ reports = {u} /\ node = Accumulate(NoAccumulator, u)
             \/ \E c \in Reports :
                  /\ u.result = "passed" /\ c.when = "call" /\ reports = {u, c}
                  /\ node = Accumulate(Accumulate(NoAccumulator, u), c)
    BY <1>1, <1>4 DEF Attempt
  <2>4. CASE reports = {u} /\ node = Accumulate(NoAccumulator, u)
    <3>1. reports2 = {u, r} BY <2>1, <2>4
    <3>2. Finalize(Accumulate(node, r)) = Recording!Verdict({u, r})
      BY <1>1, <1>4, <2>3, <2>4 DEF Finalize, Accumulate, NoAccumulator, Recording!Verdict, Reports, Results
    <3>. QED BY <1>4, <2>2, <3>1, <3>2
  <2>5. ASSUME NEW c \in Reports, c.when = "call", reports = {u, c}, u.result = "passed",
               node = Accumulate(Accumulate(NoAccumulator, u), c)
        PROVE  Finalize(Accumulate(node, r)) = Recording!Verdict({u, c, r})
    <3>. DEFINE N == Accumulate(node, r)
    <3>1. /\ ~N.crashed
          /\ N.teardownFailed <=> (r.result = "failed")
          /\ N.setupFailed <=> (u.result = "failed")
          /\ N.call = c.result
          /\ N.xfail <=> c.xfail
      BY <1>4, <2>3, <2>5 DEF Accumulate, NoAccumulator
    <3>2. c.result \in Results /\ u.when = "setup" /\ u.result = "passed" BY <2>3, <2>5 DEF Reports
    <3>. HIDE DEF N
    <3>3. CASE r.result = "failed"
      <4>1. Finalize(N) = "teardown error" BY <3>1, <3>3 DEF Finalize
      <4>2. Recording!Verdict({u, c, r}) = "teardown error" BY <1>4, <2>5, <3>2, <3>3 DEF Recording!Verdict
      <4>. QED BY <4>1, <4>2 DEF N
    <3>5. CASE r.result # "failed" /\ c.result = "failed"
      <4>1. Finalize(N) = "failed" BY <3>1, <3>2, <3>5 DEF Finalize
      <4>2. Recording!Verdict({u, c, r}) = "failed" BY <1>4, <2>5, <3>2, <3>5 DEF Recording!Verdict
      <4>. QED BY <4>1, <4>2 DEF N
    <3>6. CASE r.result # "failed" /\ c.result = "passed"
      <4>1. Finalize(N) = IF c.xfail THEN "xpassed" ELSE "passed" BY <3>1, <3>2, <3>6 DEF Finalize
      <4>2. Recording!Verdict({u, c, r}) = IF c.xfail THEN "xpassed" ELSE "passed"
        BY <1>4, <2>5, <3>2, <3>6 DEF Recording!Verdict
      <4>. QED BY <4>1, <4>2 DEF N
    <3>7. CASE r.result # "failed" /\ c.result = "skipped"
      <4>1. Finalize(N) = IF c.xfail THEN "xfailed" ELSE "skipped" BY <3>1, <3>2, <3>7 DEF Finalize
      <4>2. Recording!Verdict({u, c, r}) = IF c.xfail THEN "xfailed" ELSE "skipped"
        BY <1>4, <2>5, <3>2, <3>7 DEF Recording!Verdict
      <4>. QED BY <4>1, <4>2 DEF N
    <3>. QED BY <3>2, <3>3, <3>5, <3>6, <3>7 DEF Results
  <2>. QED BY <1>4, <2>1, <2>2, <2>3, <2>4, <2>5
<1>. QED BY <1>1, <1>2, <1>3, <1>4

\* A crash is failed, whatever was reported before it.
LEMMA AttemptCrash ==
  ASSUME NEW node \in Accumulator, NEW reports
  PROVE  Finalize(Accumulate(node, CrashReport)) = Recording!Verdict(reports \cup {CrashReport})
<1>1. /\ CrashReport.when = "crash" /\ CrashReport.result = "failed"
      /\ CrashReport \in reports \cup {CrashReport}
  BY DEF CrashReport, Report
<1>2. Accumulate(node, CrashReport).crashed
  BY <1>1 DEF Accumulate, Accumulator
<1>3. Finalize(Accumulate(node, CrashReport)) = "failed" BY <1>2 DEF Finalize
<1>4. Recording!Verdict(reports \cup {CrashReport}) = "failed" BY <1>1 DEF Recording!Verdict
<1>. QED BY <1>3, <1>4

-----------------------------------------------------------------------------
(* The inductive invariant *)

\* A test has one place: it is unassigned or once in one worker's list.
OnePlace ==
  /\ \A w \in Workers : \A i \in 1..Len(pending[w]) : pending[w][i] \notin todo
  /\ \A v, w \in Workers : \A i \in 1..Len(pending[v]), j \in 1..Len(pending[w]) :
       pending[v][i] = pending[w][j] => v = w /\ i = j

\* Only the test at the head of a worker's list has anything accumulated.
OnlyHeads ==
  \A t \in Tests : accumulators[t] # NoAccumulator =>
    \E w \in Workers : pending[w] # <<>> /\ Head(pending[w]) = t

Lines ==
  \A w \in Workers :
    Coherent(pending[w], queue[w], phase[w], channel[w], accumulators, seen)

Inv == TypeOK /\ OnePlace /\ OnlyHeads /\ OutcomeFollowsReports /\ Lines

LEMMA InvTyped ==
  ASSUME Inv, NEW w \in Workers
  PROVE  Typed(pending[w], queue[w], phase[w], channel[w])
BY DEF Inv, TypeOK, Typed, Stages

LEMMA InvReports == Inv => ReportsAccounted
<1>1. NoAccumulator.open = FALSE BY DEF NoAccumulator
<1>. QED BY <1>1 DEF Inv, ReportsAccounted, OnlyHeads, OpenIsRunning

LEMMA InvInit == Init => Inv
<1>. SUFFICES ASSUME Init PROVE Inv OBVIOUS
<1>1. NoAccumulator \in Accumulator BY DEF NoAccumulator, Accumulator, Results
<1>2. TypeOK
  BY <1>1, WorkersAssumption DEF Init, TypeOK, RecordInit, RecordTypeOK
<1>3. OnePlace /\ OnlyHeads BY DEF Init, OnePlace, OnlyHeads, RecordInit
<1>4. OutcomeFollowsReports BY DEF Init, OutcomeFollowsReports, Ended
<1>5. ASSUME NEW w \in Workers
      PROVE  Coherent(pending[w], queue[w], phase[w], channel[w], accumulators, seen)
  <2>. DEFINE p == [i \in 1..1 |-> 1]
              s == [i \in 1..1 |-> "setup"]
  <2>1. /\ p \in [1..1 -> Nat \ {0}] /\ s \in [1..1 -> Stages] /\ p[1] = 1 /\ s[1] = "setup"
        /\ \A i, j \in {1} : p[i] <= p[j]
    BY DEF Stages
  <2>. HIDE DEF p, s
  <2>2. /\ pending[w] = <<>> /\ queue[w] = <<>> /\ phase[w] = "setup" /\ channel[w] = <<>>
    BY DEF Init
  <2>3. Len(<<>>) = 0 /\ 1..0 = {} /\ 1..0 + 1 = {1} /\ 0 + 1 = 1 /\ 1 + 0 = 1 OBVIOUS
  <2>4. p[0 + 1] = 1 /\ s[0 + 1] = "setup" BY <2>1, <2>3
  <2>5. Line(<<>>, <<>>, "setup", <<>>, p, s) BY <2>1, <2>3, <2>4 DEF Line
  <2>. QED BY <2>2, <2>5 DEF Coherent
<1>. QED BY <1>2, <1>3, <1>4, <1>5 DEF Inv, Lines

-----------------------------------------------------------------------------
(* Steps of a worker that the controller does not see *)

LEMMA WorkerStep ==
  ASSUME Inv, TypeOK', UNCHANGED <<recordVars, todo, pending, seen>>, NEW w \in Workers,
         \A v \in Workers \ {w} :
           queue'[v] = queue[v] /\ phase'[v] = phase[v] /\ channel'[v] = channel[v],
         Coherent(pending[w], queue'[w], phase'[w], channel'[w], accumulators, seen)
  PROVE  Inv'
<1>1. OnePlace' BY DEF Inv, OnePlace
<1>2. OnlyHeads' BY DEF Inv, OnlyHeads, recordVars
<1>3. OutcomeFollowsReports' BY DEF Inv, OutcomeFollowsReports, recordVars, Ended
<1>4. ASSUME NEW v \in Workers
      PROVE  Coherent(pending[v], queue'[v], phase'[v], channel'[v], accumulators, seen)
  BY DEF Inv, Lines
<1>5. Lines' BY <1>4 DEF Lines, recordVars
<1>. QED BY <1>1, <1>2, <1>3, <1>5 DEF Inv

LEMMA StepRunPhase == ASSUME Inv, NEW w \in Workers, RunPhase(w) PROVE Inv'
<1>1. PICK r \in PhaseReports :
        /\ r.when = phase[w]
        /\ channel' = [channel EXCEPT ![w] = Append(@, Event("report", Head(queue[w]), r))]
        /\ phase' = [phase EXCEPT ![w] = NextPhase(r)]
  BY DEF RunPhase
<1>2. r \in Reports BY WorkersAssumption
<1>3. TypeOK BY DEF Inv
<1>4. Typed(pending[w], queue[w], phase[w], channel[w]) BY InvTyped
<1>5. queue[w] # <<>> /\ UNCHANGED <<recordVars, todo, pending, queue, crashes, reruns, seen>>
  BY DEF RunPhase
<1>6. Coherent(pending[w], queue[w], NextPhase(r),
               Append(channel[w], Event("report", Head(queue[w]), r)), accumulators, seen)
  <2>1. Coherent(pending[w], queue[w], r.when, channel[w], accumulators, seen)
    BY <1>1 DEF Inv, Lines
  <2>2. Typed(pending[w], queue[w], r.when, channel[w]) BY <1>1, <1>4
  <2>. QED BY <1>2, <1>5, <2>1, <2>2, CoherentRun
<1>7. Event("report", Head(queue[w]), r) \in Events
  BY <1>2, <1>4, <1>5 DEF Typed, Event, Events
<1>8. NextPhase(r) \in {"setup", "call", "teardown", "complete", "dead"}
  <2>1. r.when \in {"setup", "call", "teardown"} BY <1>1, <1>2, <1>3 DEF TypeOK, Reports
  <2>. QED BY <2>1 DEF NextPhase
<1>9. TypeOK'
  <2>1. channel' \in [Workers -> Seq(Events \cup {Down})] BY <1>1, <1>3, <1>7 DEF TypeOK
  <2>2. phase' \in [Workers -> {"setup", "call", "teardown", "complete", "dead"}]
    BY <1>1, <1>3, <1>8 DEF TypeOK
  <2>. QED BY <1>3, <1>5, <2>1, <2>2 DEF TypeOK, RecordTypeOK, recordVars
<1>10. /\ channel'[w] = Append(channel[w], Event("report", Head(queue[w]), r))
       /\ phase'[w] = NextPhase(r) /\ queue'[w] = queue[w]
       /\ \A v \in Workers \ {w} :
            queue'[v] = queue[v] /\ phase'[v] = phase[v] /\ channel'[v] = channel[v]
  BY <1>1, <1>3, <1>5 DEF TypeOK
<1>. QED BY <1>5, <1>6, <1>9, <1>10, WorkerStep

LEMMA StepComplete == ASSUME Inv, NEW w \in Workers, Complete(w) PROVE Inv'
<1>1. /\ phase[w] = "complete"
      /\ phase' = [phase EXCEPT ![w] = "setup"]
      /\ queue' = [queue EXCEPT ![w] = Tail(@)]
      /\ channel' = [channel EXCEPT ![w] =
                       Append(@, Event("complete", Head(queue[w]), CrashReport))]
      /\ UNCHANGED <<recordVars, todo, pending, crashes, reruns, seen>>
  BY DEF Complete
<1>2. TypeOK BY DEF Inv
<1>3. Typed(pending[w], queue[w], "complete", channel[w]) BY <1>1, InvTyped
<1>4. Coherent(pending[w], queue[w], "complete", channel[w], accumulators, seen)
  BY <1>1 DEF Inv, Lines
<1>5. /\ queue[w] # <<>>
      /\ Coherent(pending[w], Tail(queue[w]), "setup",
                  Append(channel[w], Event("complete", Head(queue[w]), CrashReport)),
                  accumulators, seen)
  BY <1>3, <1>4, CoherentComplete
<1>6. Event("complete", Head(queue[w]), CrashReport) \in Events /\ Tail(queue[w]) \in Seq(Tests)
  <2>1. CrashReport \in Reports BY DEF CrashReport, Report, Reports, Results
  <2>. QED BY <1>3, <1>5, <2>1 DEF Typed, Event, Events
<1>7. TypeOK'
  <2>1. channel' \in [Workers -> Seq(Events \cup {Down})] BY <1>1, <1>2, <1>6 DEF TypeOK
  <2>2. phase' \in [Workers -> {"setup", "call", "teardown", "complete", "dead"}]
    BY <1>1, <1>2 DEF TypeOK
  <2>3. queue' \in [Workers -> Seq(Tests)] BY <1>1, <1>2, <1>6 DEF TypeOK
  <2>. QED BY <1>1, <1>2, <2>1, <2>2, <2>3 DEF TypeOK, RecordTypeOK, recordVars
<1>8. /\ channel'[w] = Append(channel[w], Event("complete", Head(queue[w]), CrashReport))
      /\ phase'[w] = "setup" /\ queue'[w] = Tail(queue[w])
      /\ \A v \in Workers \ {w} :
           queue'[v] = queue[v] /\ phase'[v] = phase[v] /\ channel'[v] = channel[v]
  BY <1>1, <1>2 DEF TypeOK
<1>. QED BY <1>1, <1>5, <1>7, <1>8, WorkerStep

LEMMA StepRerun == ASSUME Inv, NEW w \in Workers, Rerun(w) PROVE Inv'
<1>1. /\ phase[w] = "complete" /\ reruns < MaxReruns /\ reruns' = reruns + 1
      /\ phase' = [phase EXCEPT ![w] = "setup"]
      /\ UNCHANGED <<recordVars, todo, pending, queue, channel, crashes, seen>>
  BY DEF Rerun
<1>2. TypeOK BY DEF Inv
<1>3. Typed(pending[w], queue[w], "complete", channel[w]) BY <1>1, InvTyped
<1>4. Coherent(pending[w], queue[w], "complete", channel[w], accumulators, seen)
  BY <1>1 DEF Inv, Lines
<1>5. Coherent(pending[w], queue[w], "setup", channel[w], accumulators, seen)
  BY <1>3, <1>4, CoherentRerun
<1>6. TypeOK'
  <2>1. phase' \in [Workers -> {"setup", "call", "teardown", "complete", "dead"}]
    BY <1>1, <1>2 DEF TypeOK
  <2>2. reruns' \in 0..MaxReruns BY <1>1, <1>2, WorkersAssumption DEF TypeOK
  <2>. QED BY <1>1, <1>2, <2>1, <2>2 DEF TypeOK, RecordTypeOK, recordVars
<1>7. /\ channel'[w] = channel[w] /\ phase'[w] = "setup" /\ queue'[w] = queue[w]
      /\ \A v \in Workers \ {w} :
           queue'[v] = queue[v] /\ phase'[v] = phase[v] /\ channel'[v] = channel[v]
  BY <1>1, <1>2 DEF TypeOK
<1>. QED BY <1>1, <1>5, <1>6, <1>7, WorkerStep

LEMMA StepCrash == ASSUME Inv, NEW w \in Workers, Crash(w) PROVE Inv'
<1>1. /\ phase[w] # "dead" /\ crashes < MaxCrashes /\ crashes' = crashes + 1
      /\ phase' = [phase EXCEPT ![w] = "dead"]
      /\ queue' = [queue EXCEPT ![w] = <<>>]
      /\ UNCHANGED <<recordVars, todo, pending, reruns, seen>>
  BY DEF Crash
<1>2. PICK sent \in 0..Len(channel[w]) :
        channel' = [channel EXCEPT ![w] = Append(SubSeq(@, 1, sent), Down)]
  BY DEF Crash
<1>3. TypeOK BY DEF Inv
<1>4. Typed(pending[w], queue[w], phase[w], channel[w]) BY InvTyped
<1>5. Coherent(pending[w], queue[w], phase[w], channel[w], accumulators, seen)
  BY DEF Inv, Lines
<1>6. Coherent(pending[w], <<>>, "dead", Append(SubSeq(channel[w], 1, sent), Down),
               accumulators, seen)
  BY <1>1, <1>4, <1>5, CoherentCrash
<1>7. Append(SubSeq(channel[w], 1, sent), Down) \in Seq(Events \cup {Down})
  BY <1>4 DEF Typed
<1>8. TypeOK'
  <2>1. channel' \in [Workers -> Seq(Events \cup {Down})] BY <1>2, <1>3, <1>7 DEF TypeOK
  <2>2. phase' \in [Workers -> {"setup", "call", "teardown", "complete", "dead"}]
    BY <1>1, <1>3 DEF TypeOK
  <2>3. queue' \in [Workers -> Seq(Tests)] BY <1>1, <1>3 DEF TypeOK
  <2>4. crashes' \in 0..MaxCrashes BY <1>1, <1>3, WorkersAssumption DEF TypeOK
  <2>. QED BY <1>1, <1>3, <2>1, <2>2, <2>3, <2>4 DEF TypeOK, RecordTypeOK, recordVars
<1>9. /\ channel'[w] = Append(SubSeq(channel[w], 1, sent), Down)
      /\ phase'[w] = "dead" /\ queue'[w] = <<>>
      /\ \A v \in Workers \ {w} :
           queue'[v] = queue[v] /\ phase'[v] = phase[v] /\ channel'[v] = channel[v]
  BY <1>1, <1>2, <1>3 DEF TypeOK
<1>. QED BY <1>1, <1>6, <1>8, <1>9, WorkerStep

-----------------------------------------------------------------------------
(* Steps that hand tests out and take events *)

LEMMA StepAssign == ASSUME Inv, NEW w \in Workers, Assign(w) PROVE Inv'
<1>1. PICK t \in todo :
        /\ todo' = todo \ {t}
        /\ pending' = [pending EXCEPT ![w] = Append(@, t)]
        /\ queue' = [queue EXCEPT ![w] = Append(@, t)]
  BY DEF Assign
<1>2. phase[w] # "dead" /\ UNCHANGED <<recordVars, phase, channel, crashes, reruns, seen>>
  BY DEF Assign
<1>3. TypeOK /\ OnePlace /\ t \in Tests BY <1>1 DEF Inv, TypeOK
<1>4. Typed(pending[w], queue[w], phase[w], channel[w]) BY InvTyped
<1>5. /\ pending'[w] = Append(pending[w], t) /\ queue'[w] = Append(queue[w], t)
      /\ \A v \in Workers \ {w} : pending'[v] = pending[v] /\ queue'[v] = queue[v]
  BY <1>1, <1>3 DEF TypeOK
<1>6. TypeOK'
  <2>1. pending' \in [Workers -> Seq(Tests)] BY <1>1, <1>3 DEF TypeOK
  <2>2. queue' \in [Workers -> Seq(Tests)] BY <1>1, <1>3 DEF TypeOK
  <2>. QED BY <1>1, <1>2, <1>3, <2>1, <2>2 DEF TypeOK, RecordTypeOK, recordVars
<1>7. /\ Len(pending'[w]) = Len(pending[w]) + 1 /\ Len(pending[w]) \in Nat
      /\ pending'[w][Len(pending[w]) + 1] = t
      /\ \A i \in 1..Len(pending[w]) : pending'[w][i] = pending[w][i]
  BY <1>3, <1>4, <1>5 DEF Typed
<1>8. \A v \in Workers : \A i \in 1..Len(pending'[v]) :
        \/ i \in 1..Len(pending[v]) /\ pending'[v][i] = pending[v][i]
        \/ v = w /\ i = Len(pending[w]) + 1 /\ pending'[v][i] = t
  <2>1. ASSUME NEW i \in 1..Len(pending'[w]), i # Len(pending[w]) + 1
        PROVE  i \in 1..Len(pending[w]) /\ pending'[w][i] = pending[w][i]
    BY <1>7, <2>1
  <2>. QED BY <1>5, <1>7, <2>1
<1>9. \A v \in Workers : \A i \in 1..Len(pending[v]) : pending[v][i] # t
  BY <1>1, <1>3 DEF OnePlace
<1>10. OnePlace'
  <2>1. ASSUME NEW v \in Workers, NEW i \in 1..Len(pending'[v]) PROVE pending'[v][i] \notin todo'
    BY <1>1, <1>3, <1>8 DEF OnePlace
  <2>2. ASSUME NEW u \in Workers, NEW v \in Workers, NEW i \in 1..Len(pending'[u]),
               NEW j \in 1..Len(pending'[v]), pending'[u][i] = pending'[v][j]
        PROVE  u = v /\ i = j
    <3>1. CASE i \in 1..Len(pending[u]) /\ pending'[u][i] = pending[u][i]
      <4>1. pending[u][i] # t
        BY <3>1, <1>9
      <4>2. j \in 1..Len(pending[v]) /\ pending'[v][j] = pending[v][j]
        BY <4>1, <3>1, <2>2, <1>8
      <4>3. pending[u][i] = pending[v][j]
        BY <3>1, <4>2, <2>2
      <4>. QED BY <3>1, <4>2, <4>3, <1>3 DEF OnePlace
    <3>2. CASE u = w /\ i = Len(pending[w]) + 1 /\ pending'[u][i] = t
      <4>1. v = w /\ j = Len(pending[w]) + 1
        BY <3>2, <2>2, <1>8, <1>9
      <4>. QED BY <3>2, <4>1
    <3>. QED BY <2>2, <1>8, <3>1, <3>2
  <2>. QED BY <2>1, <2>2 DEF OnePlace
<1>11. OnlyHeads'
  <2>1. \A v \in Workers : pending[v] # <<>> =>
          pending'[v] # <<>> /\ Head(pending'[v]) = Head(pending[v])
    <3>1. pending[w] # <<>> => Append(pending[w], t) # <<>> /\ Head(Append(pending[w], t)) = Head(pending[w])
      BY <1>4 DEF Typed
    <3>. QED BY <1>5, <3>1
  <2>. QED BY <1>2, <2>1 DEF Inv, OnlyHeads, recordVars
<1>12. OutcomeFollowsReports' BY <1>2 DEF Inv, OutcomeFollowsReports, recordVars, Ended
<1>13. accumulators[t] = NoAccumulator
  <2>1. \A v \in Workers : pending[v] # <<>> => 1 \in 1..Len(pending[v]) /\ Head(pending[v]) = pending[v][1]
    BY <1>3 DEF TypeOK
  <2>. QED BY <1>3, <1>9, <2>1 DEF Inv, OnlyHeads
<1>14. ASSUME NEW v \in Workers
       PROVE  Coherent(pending'[v], queue'[v], phase[v], channel[v], accumulators, seen)
  <2>1. CASE v = w
    <3>1. Coherent(pending[w], queue[w], phase[w], channel[w], accumulators, seen)
      BY DEF Inv, Lines
    <3>2. Coherent(Append(pending[w], t), Append(queue[w], t), phase[w], channel[w],
                   accumulators, seen)
      BY <1>2, <1>3, <1>4, <1>13, <3>1, CoherentAssign
    <3>. QED BY <1>5, <2>1, <3>2
  <2>2. CASE v # w BY <1>5, <2>2 DEF Inv, Lines
  <2>. QED BY <2>1, <2>2
<1>15. Lines' BY <1>2, <1>14 DEF Lines, recordVars
<1>. QED BY <1>6, <1>10, <1>11, <1>12, <1>15 DEF Inv

\* The first tests of two workers differ.
LEMMA HeadsDiffer ==
  ASSUME TypeOK, OnePlace, NEW v \in Workers, NEW w \in Workers, v # w,
         pending[v] # <<>>, pending[w] # <<>>
  PROVE  Head(pending[v]) # Head(pending[w])
<1>1. /\ 1 \in 1..Len(pending[v]) /\ Head(pending[v]) = pending[v][1]
      /\ 1 \in 1..Len(pending[w]) /\ Head(pending[w]) = pending[w][1]
  BY DEF TypeOK
<1>. QED BY <1>1 DEF OnePlace

LEMMA StepTakeReport == ASSUME Inv, NEW w \in Workers, TakeReport(w) PROVE Inv'
<1>. DEFINE e == Head(channel[w])
            t == Head(pending[w])
<1>1. /\ channel[w] # <<>> /\ e.kind = "report"
      /\ HandleLogreport(e.test, e.report)
      /\ seen' = [seen EXCEPT ![e.test] =
                    IF e.report.when = "setup" THEN {e.report} ELSE @ \cup {e.report}]
      /\ channel' = [channel EXCEPT ![w] = Tail(@)]
      /\ UNCHANGED <<todo, pending, queue, phase, crashes, reruns>>
  BY DEF TakeReport, Take
<1>2. TypeOK /\ OnePlace BY DEF Inv
<1>3. Typed(pending[w], queue[w], phase[w], channel[w]) BY InvTyped
<1>4. Coherent(pending[w], queue[w], phase[w], channel[w], accumulators, seen)
  BY DEF Inv, Lines
<1>. HIDE DEF e, t
<1>5. /\ pending[w] # <<>> /\ e \in Events /\ e.test = t
      /\ \E s1, s2 :
           /\ Attempt(accumulators[t], seen[t], s1) /\ Step(e, s1, s2)
           /\ \A acc2, sn2 : Attempt(acc2[t], sn2[t], s2) =>
                Coherent(pending[w], queue[w], phase[w], Tail(channel[w]), acc2, sn2)
  BY <1>1, <1>3, <1>4, CoherentReport DEF e, t
<1>6. PICK s1, s2 :
        /\ Attempt(accumulators[t], seen[t], s1) /\ Step(e, s1, s2)
        /\ \A acc2, sn2 : Attempt(acc2[t], sn2[t], s2) =>
             Coherent(pending[w], queue[w], phase[w], Tail(channel[w]), acc2, sn2)
  BY <1>5
<1>7. t \in Tests /\ e.report \in Reports BY <1>3, <1>5 DEF Typed, Events, t
<1>8. accumulators[t] \in Accumulator /\ seen[t] \in SUBSET Reports
  BY <1>2, <1>7 DEF TypeOK, RecordTypeOK
<1>9. PICK node \in Accumulator : node = accumulators[t] BY <1>8
<1>10. PICK report \in Reports : report = e.report BY <1>7
<1>11. Accumulate(node, report) \in Accumulator /\ NoAccumulator \in Accumulator
  BY AccumulatorTyped DEF NoAccumulator, Accumulator, Results
<1>12. Finalize(Accumulate(node, report)) \in OutcomeValues BY <1>11, AccumulatorTyped
<1>. DEFINE node2 == IF report.when \in {"setup", "call"} THEN Accumulate(node, report)
                     ELSE NoAccumulator
            reports2 == IF report.when = "setup" THEN {report} ELSE seen[t] \cup {report}
            ending == report.when \notin {"setup", "call"}
<1>13. /\ Attempt(node2, reports2, s2)
       /\ ~ending => ~ \E x \in reports2 : x.when \in {"teardown", "crash"}
       /\ ending => Finalize(Accumulate(node, report)) = Recording!Verdict(reports2)
  <2>1. PICK event \in Events : event = e BY <1>5
  <2>2. PICK reports : reports = seen[t] OBVIOUS
  <2>3. PICK n2 : n2 = IF event.report.when \in {"setup", "call"}
                       THEN Accumulate(node, event.report) ELSE NoAccumulator
    OBVIOUS
  <2>4. PICK r2 : r2 = IF event.report.when = "setup" THEN {event.report}
                       ELSE reports \cup {event.report}
    OBVIOUS
  <2>5. Attempt(node, reports, s1) /\ Step(event, s1, s2) /\ event.kind = "report"
    BY <1>1, <1>6, <1>9, <2>1, <2>2
  <2>6. /\ Attempt(n2, r2, s2)
        /\ event.report.when \in {"setup", "call"} =>
             ~ \E x \in r2 : x.when \in {"teardown", "crash"}
        /\ event.report.when \notin {"setup", "call"} =>
             Finalize(Accumulate(node, event.report)) = Recording!Verdict(r2)
    BY <2>3, <2>4, <2>5, AttemptStep
  <2>7. n2 = node2 /\ r2 = reports2 /\ event.report = report
    BY <1>10, <2>1, <2>2, <2>3, <2>4
  <2>. QED BY <2>6, <2>7
<1>14. /\ accumulators' = [accumulators EXCEPT ![t] = node2]
       /\ outcomes' = IF ending THEN [outcomes EXCEPT ![t] = Finalize(Accumulate(node, report))]
                      ELSE outcomes
       /\ seen' = [seen EXCEPT ![t] = reports2]
  BY <1>1, <1>2, <1>5, <1>9, <1>10 DEF HandleLogreport, TypeOK
<1>15. node2 \in Accumulator /\ reports2 \in SUBSET Reports BY <1>8, <1>11
<1>. HIDE DEF node2, reports2
<1>16. /\ accumulators'[t] = node2 /\ seen'[t] = reports2
       /\ \A u \in Tests \ {t} :
            accumulators'[u] = accumulators[u] /\ seen'[u] = seen[u] /\ outcomes'[u] = outcomes[u]
       /\ outcomes'[t] = IF ending THEN Finalize(Accumulate(node, report)) ELSE outcomes[t]
  BY <1>2, <1>7, <1>14 DEF TypeOK, RecordTypeOK
<1>17. TypeOK'
  <2>1. channel' \in [Workers -> Seq(Events \cup {Down})]
    <3>1. Tail(channel[w]) \in Seq(Events \cup {Down}) BY <1>1, <1>3 DEF Typed
    <3>. QED BY <1>1, <1>2, <3>1 DEF TypeOK
  <2>2. RecordTypeOK' BY <1>2, <1>7, <1>12, <1>14, <1>15 DEF TypeOK, RecordTypeOK
  <2>3. seen' \in [Tests -> SUBSET Reports] BY <1>2, <1>7, <1>14, <1>15 DEF TypeOK
  <2>. QED BY <1>1, <1>2, <2>1, <2>2, <2>3 DEF TypeOK
<1>18. OnePlace' BY <1>1, <1>2 DEF OnePlace
<1>19. OnlyHeads'
  <2>. SUFFICES ASSUME NEW u \in Tests, accumulators'[u] # NoAccumulator
                PROVE  \E v \in Workers : pending[v] # <<>> /\ Head(pending[v]) = u
    BY <1>1 DEF OnlyHeads
  <2>1. CASE u = t BY <1>5, <2>1 DEF t
  <2>2. CASE u # t BY <1>16, <2>2 DEF Inv, OnlyHeads
  <2>. QED BY <2>1, <2>2
<1>20. OutcomeFollowsReports'
  <2>. SUFFICES ASSUME NEW u \in Tests, NEW x \in seen'[u], x.when \in {"teardown", "crash"}
                PROVE  outcomes'[u] = Recording!Verdict(seen'[u])
    BY DEF OutcomeFollowsReports, Ended
  <2>1. CASE u = t BY <1>13, <1>16, <2>1
  <2>2. CASE u # t BY <1>16, <2>2 DEF Inv, OutcomeFollowsReports, Ended
  <2>. QED BY <2>1, <2>2
<1>21. PICK acc2, sn2 : acc2 = accumulators' /\ sn2 = seen' OBVIOUS
<1>22. ASSUME NEW v \in Workers
       PROVE  Coherent(pending[v], queue[v], phase[v], channel'[v], acc2, sn2)
  <2>1. CASE v = w
    <3>1. Attempt(acc2[t], sn2[t], s2) BY <1>13, <1>16, <1>21
    <3>2. Coherent(pending[w], queue[w], phase[w], Tail(channel[w]), acc2, sn2) BY <1>6, <3>1
    <3>. QED BY <1>1, <1>2, <2>1, <3>2 DEF TypeOK
  <2>2. CASE v # w
    <3>1. channel'[v] = channel[v] BY <1>1, <1>2, <2>2 DEF TypeOK
    <3>2. Coherent(pending[v], queue[v], phase[v], channel[v], accumulators, seen)
      BY DEF Inv, Lines
    <3>3. ASSUME pending[v] # <<>>
          PROVE  acc2[Head(pending[v])] = accumulators[Head(pending[v])]
                 /\ sn2[Head(pending[v])] = seen[Head(pending[v])]
      <4>1. Head(pending[v]) \in Tests \ {t}
        BY <1>2, <1>5, <2>2, <3>3, HeadsDiffer DEF TypeOK, t
      <4>. QED BY <1>16, <1>21, <4>1
    <3>4. Coherent(pending[v], queue[v], phase[v], channel[v], acc2, sn2)
      BY <3>2, <3>3, CoherentFrame
    <3>. QED BY <3>1, <3>4
  <2>. QED BY <2>1, <2>2
<1>23. Lines' BY <1>1, <1>21, <1>22 DEF Lines
<1>. QED BY <1>17, <1>18, <1>19, <1>20, <1>23 DEF Inv

LEMMA StepTakeComplete == ASSUME Inv, NEW w \in Workers, TakeComplete(w) PROVE Inv'
<1>. DEFINE R == Tail(pending[w])
<1>1. /\ channel[w] # <<>> /\ Head(channel[w]).kind = "complete"
      /\ pending' = [pending EXCEPT ![w] = Tail(@)]
      /\ channel' = [channel EXCEPT ![w] = Tail(@)]
      /\ UNCHANGED <<recordVars, todo, queue, phase, crashes, reruns, seen>>
  BY DEF TakeComplete, Take
<1>2. TypeOK /\ OnePlace BY DEF Inv
<1>3. Typed(pending[w], queue[w], phase[w], channel[w]) BY InvTyped
<1>4. Coherent(pending[w], queue[w], phase[w], channel[w], accumulators, seen)
  BY DEF Inv, Lines
<1>5. /\ pending[w] # <<>> /\ accumulators[Head(pending[w])] = NoAccumulator
      /\ (R # <<>> => accumulators[Head(R)] = NoAccumulator) =>
           Coherent(R, queue[w], phase[w], Tail(channel[w]), accumulators, seen)
  BY <1>1, <1>3, <1>4, CoherentTakeComplete
<1>6. /\ R \in Seq(Tests) /\ Len(R) = Len(pending[w]) - 1 /\ Len(pending[w]) \in Nat \ {0}
      /\ \A i \in 1..Len(R) : R[i] = pending[w][i + 1]
  BY <1>3, <1>5 DEF Typed
<1>7. /\ pending'[w] = R /\ channel'[w] = Tail(channel[w])
      /\ \A v \in Workers \ {w} : pending'[v] = pending[v] /\ channel'[v] = channel[v]
  BY <1>1, <1>2 DEF TypeOK
<1>. HIDE DEF R
<1>8. TypeOK'
  <2>1. Tail(channel[w]) \in Seq(Events \cup {Down}) BY <1>1, <1>3 DEF Typed
  <2>2. channel' \in [Workers -> Seq(Events \cup {Down})] BY <1>1, <1>2, <2>1 DEF TypeOK
  <2>3. pending' \in [Workers -> Seq(Tests)] BY <1>1, <1>2, <1>6 DEF TypeOK, R
  <2>. QED BY <1>1, <1>2, <2>2, <2>3 DEF TypeOK, RecordTypeOK, recordVars
<1>9. \A i \in 1..Len(R) : i + 1 \in 1..Len(pending[w]) /\ R[i] = pending[w][i + 1]
  BY <1>6
<1>10. \A v \in Workers : v # w => pending'[v] = pending[v] BY <1>7
<1>11. OnePlace'
  <2>1. ASSUME NEW v \in Workers, NEW i \in 1..Len(pending'[v]) PROVE pending'[v][i] \notin todo'
    BY <1>1, <1>2, <1>7, <1>9 DEF OnePlace
  <2>2. ASSUME NEW u \in Workers, NEW v \in Workers, NEW i \in 1..Len(pending'[u]),
               NEW j \in 1..Len(pending'[v]), pending'[u][i] = pending'[v][j]
        PROVE  u = v /\ i = j
    <3>1. CASE u = w /\ v = w
      <4>1. i \in 1..Len(R) /\ j \in 1..Len(R) /\ R[i] = R[j] BY <1>7, <2>2, <3>1
      <4>2. i + 1 = j + 1 BY <1>2, <1>9, <4>1 DEF OnePlace
      <4>3. i \in Nat /\ j \in Nat BY <1>6, <4>1
      <4>4. \A x, y \in Nat : x + 1 = y + 1 => x = y OBVIOUS
      <4>5. i = j BY <4>2, <4>3, <4>4
      <4>. QED BY <3>1, <4>5
    <3>2. CASE u = w /\ v # w
      <4>1. i \in 1..Len(R) /\ j \in 1..Len(pending[v]) /\ R[i] = pending[v][j]
        BY <1>7, <2>2, <3>2
      <4>2. i + 1 \in 1..Len(pending[w]) /\ pending[w][i + 1] = pending[v][j] BY <1>9, <4>1
      <4>3. w = v BY <1>2, <4>1, <4>2 DEF OnePlace
      <4>. QED BY <3>2, <4>3
    <3>3. CASE u # w /\ v = w
      <4>1. i \in 1..Len(pending[u]) /\ j \in 1..Len(R) /\ pending[u][i] = R[j]
        BY <1>7, <2>2, <3>3
      <4>2. j + 1 \in 1..Len(pending[w]) /\ pending[u][i] = pending[w][j + 1] BY <1>9, <4>1
      <4>3. u = w BY <1>2, <4>1, <4>2 DEF OnePlace
      <4>. QED BY <3>3, <4>3
    <3>4. CASE u # w /\ v # w BY <1>2, <1>7, <2>2, <3>4 DEF OnePlace
    <3>. QED BY <3>1, <3>2, <3>3, <3>4
  <2>. QED BY <2>1, <2>2 DEF OnePlace
<1>12. OnlyHeads'
  <2>. SUFFICES ASSUME NEW u \in Tests, accumulators[u] # NoAccumulator
                PROVE  \E v \in Workers : pending'[v] # <<>> /\ Head(pending'[v]) = u
    BY <1>1 DEF OnlyHeads, recordVars
  <2>1. PICK v \in Workers : pending[v] # <<>> /\ Head(pending[v]) = u BY DEF Inv, OnlyHeads
  <2>2. v # w BY <1>5, <2>1
  <2>. QED BY <1>7, <2>1, <2>2
<1>13. OutcomeFollowsReports' BY <1>1 DEF Inv, OutcomeFollowsReports, recordVars, Ended
<1>14. R # <<>> => accumulators[Head(R)] = NoAccumulator
  <2>. SUFFICES ASSUME R # <<>>, accumulators[Head(R)] # NoAccumulator PROVE FALSE OBVIOUS
  <2>1. 1 \in 1..Len(R) /\ Head(R) = R[1] /\ Head(R) \in Tests BY <1>6
  <2>2. 2 \in 1..Len(pending[w]) /\ Head(R) = pending[w][2] BY <1>9, <2>1
  <2>3. PICK v \in Workers : pending[v] # <<>> /\ Head(pending[v]) = Head(R)
    BY <2>1 DEF Inv, OnlyHeads
  <2>4. 1 \in 1..Len(pending[v]) /\ Head(pending[v]) = pending[v][1] BY <1>2, <2>3 DEF TypeOK
  <2>5. v = w /\ 1 = 2 BY <1>2, <2>2, <2>3, <2>4 DEF OnePlace
  <2>. QED BY <2>5
<1>15. ASSUME NEW v \in Workers
       PROVE  Coherent(pending'[v], queue[v], phase[v], channel'[v], accumulators, seen)
  <2>1. CASE v = w BY <1>5, <1>7, <1>14, <2>1
  <2>2. CASE v # w BY <1>7, <2>2 DEF Inv, Lines
  <2>. QED BY <2>1, <2>2
<1>16. Lines' BY <1>1, <1>15 DEF Lines, recordVars
<1>. QED BY <1>8, <1>11, <1>12, <1>13, <1>16 DEF Inv

LEMMA StepTakeDown == ASSUME Inv, NEW w \in Workers, TakeDown(w) PROVE Inv'
<1>. DEFINE t == Head(pending[w])
            R == Tail(pending[w])
<1>1. /\ channel[w] # <<>> /\ Head(channel[w]).kind = "down"
      /\ pending' = [pending EXCEPT ![w] = <<>>]
      /\ phase' = [phase EXCEPT ![w] = "setup"]
      /\ channel' = [channel EXCEPT ![w] = Tail(@)]
      /\ UNCHANGED <<queue, crashes, reruns>>
  BY DEF TakeDown, Take
<1>2. TypeOK /\ OnePlace BY DEF Inv
<1>3. Typed(pending[w], queue[w], phase[w], channel[w]) BY InvTyped
<1>4. Coherent(pending[w], queue[w], phase[w], channel[w], accumulators, seen)
  BY DEF Inv, Lines
<1>5. /\ pending'[w] = <<>> /\ phase'[w] = "setup" /\ channel'[w] = Tail(channel[w])
      /\ \A v \in Workers \ {w} :
           pending'[v] = pending[v] /\ phase'[v] = phase[v] /\ channel'[v] = channel[v]
  BY <1>1, <1>2 DEF TypeOK
<1>6. pending' \in [Workers -> Seq(Tests)] BY <1>1, <1>2 DEF TypeOK
<1>7. channel' \in [Workers -> Seq(Events \cup {Down})]
  <2>1. Tail(channel[w]) \in Seq(Events \cup {Down}) BY <1>1, <1>3 DEF Typed
  <2>. QED BY <1>1, <1>2, <2>1 DEF TypeOK
<1>8. phase' \in [Workers -> {"setup", "call", "teardown", "complete", "dead"}]
  BY <1>1, <1>2 DEF TypeOK
<1>9. PICK acc2, sn2 : acc2 = accumulators' /\ sn2 = seen' OBVIOUS
<1>10. Coherent(<<>>, queue[w], "setup", Tail(channel[w]), acc2, sn2)
  BY <1>1, <1>3, <1>4, CoherentDown
\* What is left to show, once it is known what the crash changed.
<1>11. ASSUME RecordTypeOK', todo' \subseteq Tests, seen' \in [Tests -> SUBSET Reports],
              \A v \in Workers \ {w} : \A i \in 1..Len(pending[v]) : pending[v][i] \notin todo',
              \A u \in Tests :
                \/ accumulators'[u] = accumulators[u] /\ seen'[u] = seen[u]
                \/ pending[w] # <<>> /\ u = t,
              \A u \in Tests : accumulators'[u] # NoAccumulator =>
                accumulators'[u] = accumulators[u] /\ ~ (pending[w] # <<>> /\ u = t),
              OutcomeFollowsReports'
       PROVE  Inv'
  <2>1. TypeOK' BY <1>1, <1>2, <1>6, <1>7, <1>8, <1>11 DEF TypeOK
  <2>2. Len(<<>>) = 0 /\ 1..0 = {} OBVIOUS
  <2>3. OnePlace' BY <1>2, <1>5, <1>11, <2>2 DEF OnePlace
  <2>4. OnlyHeads'
    <3>. SUFFICES ASSUME NEW u \in Tests, accumulators'[u] # NoAccumulator
                  PROVE  \E v \in Workers : pending'[v] # <<>> /\ Head(pending'[v]) = u
      BY DEF OnlyHeads
    <3>1. accumulators[u] # NoAccumulator /\ ~ (pending[w] # <<>> /\ u = t) BY <1>11
    <3>2. PICK v \in Workers : pending[v] # <<>> /\ Head(pending[v]) = u
      BY <3>1 DEF Inv, OnlyHeads
    <3>3. v # w BY <3>1, <3>2
    <3>. QED BY <1>5, <3>2, <3>3
  <2>5. ASSUME NEW v \in Workers
        PROVE  Coherent(pending'[v], queue[v], phase'[v], channel'[v], acc2, sn2)
    <3>1. CASE v = w BY <1>5, <1>10, <3>1
    <3>2. CASE v # w
      <4>1. Coherent(pending[v], queue[v], phase[v], channel[v], accumulators, seen)
        BY DEF Inv, Lines
      <4>2. ASSUME pending[v] # <<>>
            PROVE  acc2[Head(pending[v])] = accumulators[Head(pending[v])]
                   /\ sn2[Head(pending[v])] = seen[Head(pending[v])]
        <5>1. Head(pending[v]) \in Tests /\ ~ (pending[w] # <<>> /\ Head(pending[v]) = t)
          BY <1>2, <3>2, <4>2, HeadsDiffer DEF TypeOK
        <5>. QED BY <1>9, <1>11, <5>1
      <4>3. Coherent(pending[v], queue[v], phase[v], channel[v], acc2, sn2)
        BY <4>1, <4>2, CoherentFrame
      <4>. QED BY <1>5, <3>2, <4>3
    <3>. QED BY <3>1, <3>2
  <2>6. Lines' BY <1>1, <1>9, <2>5 DEF Lines
  <2>. QED BY <1>11, <2>1, <2>3, <2>4, <2>6 DEF Inv
<1>12. CASE pending[w] = <<>>
  <2>1. UNCHANGED <<recordVars, todo, seen>> BY <1>12 DEF TakeDown
  <2>2. RecordTypeOK' /\ todo' \subseteq Tests /\ seen' \in [Tests -> SUBSET Reports]
    BY <1>2, <2>1 DEF TypeOK, RecordTypeOK, recordVars
  <2>3. \A v \in Workers \ {w} : \A i \in 1..Len(pending[v]) : pending[v][i] \notin todo'
    BY <1>2, <2>1 DEF OnePlace
  <2>4. OutcomeFollowsReports' BY <2>1 DEF Inv, OutcomeFollowsReports, recordVars, Ended
  <2>. QED BY <1>11, <1>12, <2>1, <2>2, <2>3, <2>4 DEF recordVars
<1>13. CASE pending[w] # <<>>
  <2>1. /\ HandleLogreport(t, CrashReport)
        /\ seen' = [seen EXCEPT ![t] = @ \cup {CrashReport}]
        /\ todo' = todo \cup ToSet(R)
    BY <1>13 DEF TakeDown
  <2>2. t \in Tests /\ R \in Seq(Tests) BY <1>3, <1>13 DEF Typed
  <2>3. CrashReport \in Reports /\ CrashReport.when = "crash"
    BY DEF CrashReport, Report, Reports, Results
  <2>. HIDE DEF t
  <2>4. /\ accumulators' = [accumulators EXCEPT ![t] = NoAccumulator]
        /\ outcomes' = [outcomes EXCEPT ![t] = Finalize(Accumulate(accumulators[t], CrashReport))]
    BY <2>1, <2>3 DEF HandleLogreport
  <2>5. PICK node \in Accumulator : node = accumulators[t]
    BY <1>2, <2>2 DEF TypeOK, RecordTypeOK
  <2>6. Accumulate(node, CrashReport) \in Accumulator /\ NoAccumulator \in Accumulator
    BY <2>3, AccumulatorTyped DEF NoAccumulator, Accumulator, Results
  <2>7. Finalize(Accumulate(node, CrashReport)) \in OutcomeValues
    BY <2>3, <2>6, AccumulatorTyped
  <2>8. PICK reports : reports = seen[t] OBVIOUS
  <2>9. Finalize(Accumulate(node, CrashReport)) = Recording!Verdict(reports \cup {CrashReport})
    BY AttemptCrash
  <2>10. /\ accumulators'[t] = NoAccumulator /\ seen'[t] = reports \cup {CrashReport}
         /\ outcomes'[t] = Recording!Verdict(reports \cup {CrashReport})
         /\ \A u \in Tests \ {t} :
              accumulators'[u] = accumulators[u] /\ seen'[u] = seen[u] /\ outcomes'[u] = outcomes[u]
    BY <1>2, <2>1, <2>2, <2>4, <2>5, <2>8, <2>9 DEF TypeOK, RecordTypeOK
  <2>11. RecordTypeOK' BY <1>2, <2>4, <2>5, <2>6, <2>7 DEF TypeOK, RecordTypeOK
  <2>12. seen' \in [Tests -> SUBSET Reports] BY <1>2, <2>1, <2>3 DEF TypeOK
  <2>13. /\ ToSet(R) = {R[i] : i \in 1..Len(R)} /\ Len(R) = Len(pending[w]) - 1
         /\ Len(pending[w]) \in Nat \ {0}
         /\ \A i \in 1..Len(R) : R[i] = pending[w][i + 1]
    <3>1. PICK P \in Seq(Tests) : P = pending[w] BY <1>3 DEF Typed
    <3>2. /\ Len(Tail(P)) = Len(P) - 1 /\ Len(P) \in Nat \ {0}
          /\ \A i \in 1..Len(Tail(P)) : Tail(P)[i] = P[i + 1]
      BY <1>13, <3>1
    <3>3. ToSet(Tail(P)) = {Tail(P)[i] : i \in 1..Len(Tail(P))}
      <4>1. DOMAIN Tail(P) = 1..Len(Tail(P)) BY <2>2, <3>1
      <4>. QED BY <4>1 DEF ToSet
    <3>. QED BY <3>1, <3>2, <3>3
  <2>. HIDE DEF R
  <2>14. todo' \subseteq Tests BY <1>2, <2>1, <2>2, <2>13 DEF TypeOK
  <2>15. ASSUME NEW v \in Workers \ {w}, NEW i \in 1..Len(pending[v])
         PROVE  pending[v][i] \notin todo'
    <3>1. \A j \in 1..Len(R) : j + 1 \in 1..Len(pending[w]) /\ R[j] = pending[w][j + 1]
      BY <2>13
    <3>. QED BY <1>2, <2>1, <2>13, <3>1 DEF OnePlace
  <2>16. OutcomeFollowsReports'
    <3>. SUFFICES ASSUME NEW u \in Tests, NEW x \in seen'[u], x.when \in {"teardown", "crash"}
                  PROVE  outcomes'[u] = Recording!Verdict(seen'[u])
      BY DEF OutcomeFollowsReports, Ended
    <3>1. CASE u = t BY <2>10, <3>1
    <3>2. CASE u # t BY <2>10, <3>2 DEF Inv, OutcomeFollowsReports, Ended
    <3>. QED BY <3>1, <3>2
  <2>17. \A u \in Tests :
           \/ accumulators'[u] = accumulators[u] /\ seen'[u] = seen[u]
           \/ pending[w] # <<>> /\ u = t
    BY <1>13, <2>10
  <2>18. \A u \in Tests : accumulators'[u] # NoAccumulator =>
           accumulators'[u] = accumulators[u] /\ ~ (pending[w] # <<>> /\ u = t)
    BY <2>10
  <2>. QED BY <1>11, <2>11, <2>12, <2>14, <2>15, <2>16, <2>17, <2>18
<1>. QED BY <1>12, <1>13

LEMMA StepNext == Inv /\ [Next]_vars => Inv'
<1>. SUFFICES ASSUME Inv, [Next]_vars PROVE Inv' OBVIOUS
<1>1. CASE UNCHANGED vars
  BY <1>1 DEF Inv, TypeOK, RecordTypeOK, OnePlace, OnlyHeads, OutcomeFollowsReports, Ended, Lines,
              vars, recordVars, workVars
<1>2. CASE Next
  BY <1>2, StepAssign, StepRunPhase, StepComplete, StepRerun, StepCrash, StepTakeReport,
     StepTakeComplete, StepTakeDown DEF Next, Work, Control
<1>. QED BY <1>1, <1>2

\* Whatever the number of workers and of tests, however their events interleave and
\* wherever workers crash or rerun, a test that ended has the outcome its reports imply
\* and only a test at the head of a worker's list has reports accumulated
\* (handle_logreport, _accumulate and _finalize in record.py).
THEOREM WorkerReportsAccounted == Spec => []ReportsAccounted
<1>1. Spec => []Inv BY InvInit, StepNext, PTL DEF Spec
<1>. QED BY <1>1, InvReports, PTL

-----------------------------------------------------------------------------
(* The promise of Recording *)

\* What is accumulated stands for an attempt under way, and only for one.
Begun == \A t \in Tests : accumulators[t] = NoAccumulator <=> ~Recording!Underway(t)

\* The report of a phase belongs to its attempt.
LEMMA AttemptOrder ==
  ASSUME NEW node, NEW reports, NEW s, NEW next, NEW event,
         Attempt(node, reports, s), event.kind = "report", Step(event, s, next)
  PROVE  /\ event.report.when = "setup" => node = NoAccumulator
         /\ event.report.when \in {"call", "teardown"} =>
              reports # {} /\ ~ \E x \in reports : x.when \in {"teardown", "crash"}
<1>1. /\ event.report.when = s \/ (s = "complete" /\ event.report.when = "setup")
      /\ event.report.when \in {"setup", "call", "teardown"}
  BY DEF Step
<1>2. CASE event.report.when = "setup"
  BY <1>1, <1>2 DEF Attempt
<1>3. CASE event.report.when = "call"
  BY <1>1, <1>3 DEF Attempt
<1>4. CASE event.report.when = "teardown"
  BY <1>1, <1>4 DEF Attempt
<1>. QED BY <1>1, <1>2, <1>3, <1>4

\* What is accumulated of a report is something.
LEMMA AccumulateOpens ==
  ASSUME NEW node \in Accumulator, NEW r \in Reports
  PROVE  Accumulate(node, r) # NoAccumulator
<1>1. Accumulate(node, r).open
  BY DEF Accumulate, Accumulator
<1>2. ~NoAccumulator.open
  BY DEF NoAccumulator
<1>. QED BY <1>1, <1>2

\* A step that changes what is recorded of one test.
LEMMA BegunElsewhere ==
  ASSUME Begun, NEW t \in Tests,
         \A u \in Tests \ {t} : accumulators'[u] = accumulators[u] /\ seen'[u] = seen[u],
         accumulators'[t] = NoAccumulator
           <=> seen'[t] = {} \/ \E x \in seen'[t] : x.when \in {"teardown", "crash"}
  PROVE  Begun'
<1>. SUFFICES ASSUME NEW u \in Tests
              PROVE  accumulators'[u] = NoAccumulator <=> ~Recording!Underway(u)'
  BY DEF Begun
<1>1. CASE u = t
  BY <1>1 DEF Recording!Underway, Recording!Over
<1>2. CASE u # t
  <2>1. accumulators'[u] = accumulators[u] /\ seen'[u] = seen[u]
    BY <1>2
  <2>2. accumulators[u] = NoAccumulator <=> ~Recording!Underway(u)
    BY DEF Begun
  <2>3. Recording!Underway(u)' <=> Recording!Underway(u)
    BY <2>1 DEF Recording!Underway, Recording!Over
  <2>. QED BY <2>1, <2>2, <2>3
<1>. QED BY <1>1, <1>2

\* The end of an attempt records what its reports imply.
LEMMA EndRecorded ==
  ASSUME Inv, Inv', Begun, NEW t \in Tests, NEW r \in Reports,
         r.when = "crash" \/ (r.when = "teardown" /\ Recording!Underway(t)),
         HandleLogreport(t, r), seen' = [seen EXCEPT ![t] = @ \cup {r}]
  PROVE  Recording!End(t, r) /\ Begun'
<1>. DEFINE n == Finalize(Accumulate(accumulators[t], r))
<1>1. accumulators' = [accumulators EXCEPT ![t] = NoAccumulator] /\ outcomes' = [outcomes EXCEPT ![t] = n]
  BY DEF HandleLogreport
<1>. HIDE DEF n
<1>2. /\ accumulators \in [Tests -> Accumulator] /\ outcomes \in [Tests -> OutcomeValues \cup {"none"}]
      /\ seen \in [Tests -> SUBSET Reports]
  BY DEF Inv, TypeOK, RecordTypeOK
<1>3. /\ accumulators'[t] = NoAccumulator /\ outcomes'[t] = n /\ seen'[t] = seen[t] \cup {r}
      /\ \A u \in Tests \ {t} : accumulators'[u] = accumulators[u] /\ seen'[u] = seen[u]
  BY <1>1, <1>2
<1>4. r \in seen'[t] /\ r.when \in {"teardown", "crash"}
  BY <1>3
<1>5. n = Recording!Verdict(seen[t] \cup {r})
  <2>1. Ended(t)'
    BY <1>4 DEF Ended
  <2>2. outcomes'[t] = Recording!Verdict(seen'[t])
    <3>1. OutcomeFollowsReports'
      BY DEF Inv
    <3>. QED BY <3>1, <2>1 DEF OutcomeFollowsReports
  <2>3. Recording!Verdict(seen'[t]) = Recording!Verdict(seen[t] \cup {r})
    BY <1>3
  <2>. QED BY <1>3, <2>2, <2>3
<1>6. Recording!End(t, r)
  BY <1>1, <1>5 DEF Recording!End
<1>7. Begun'
  BY <1>3, <1>4, BegunElsewhere
<1>. QED BY <1>6, <1>7

\* A report of a phase that does not end the attempt is only accumulated.
LEMMA PhaseAccumulated ==
  ASSUME Inv, Begun, NEW t \in Tests, NEW r \in Reports, r.when \in {"setup", "call"},
         HandleLogreport(t, r),
         NEW reports, seen' = [seen EXCEPT ![t] = reports], r \in reports,
         ~ \E x \in reports : x.when \in {"teardown", "crash"}
  PROVE  outcomes' = outcomes /\ Begun'
<1>1. accumulators' = [accumulators EXCEPT ![t] = Accumulate(accumulators[t], r)] /\ outcomes' = outcomes
  BY DEF HandleLogreport
<1>2. accumulators \in [Tests -> Accumulator] /\ seen \in [Tests -> SUBSET Reports]
  BY DEF Inv, TypeOK, RecordTypeOK
<1>3. /\ accumulators'[t] = Accumulate(accumulators[t], r) /\ seen'[t] = reports
      /\ \A u \in Tests \ {t} : accumulators'[u] = accumulators[u] /\ seen'[u] = seen[u]
  BY <1>1, <1>2
<1>4. accumulators'[t] # NoAccumulator
  BY <1>2, <1>3, AccumulateOpens
<1>5. seen'[t] # {} /\ ~ \E x \in seen'[t] : x.when \in {"teardown", "crash"}
  BY <1>3
<1>6. Begun'
  BY <1>3, <1>4, <1>5, BegunElsewhere
<1>. QED BY <1>1, <1>6

LEMMA ReportRecorded ==
  ASSUME Inv, Begun, NEW w \in Workers, TakeReport(w)
  PROVE  Recording!Next /\ Begun'
<1>. DEFINE e == Head(channel[w])
            t == Head(pending[w])
<1>1. /\ channel[w] # <<>> /\ e.kind = "report" /\ HandleLogreport(e.test, e.report)
      /\ seen' = [seen EXCEPT ![e.test] =
                    IF e.report.when = "setup" THEN {e.report} ELSE @ \cup {e.report}]
  BY DEF TakeReport
<1>2. Typed(pending[w], queue[w], phase[w], channel[w]) BY InvTyped
<1>3. Coherent(pending[w], queue[w], phase[w], channel[w], accumulators, seen)
  BY DEF Inv, Lines
<1>4. Inv' BY StepTakeReport
<1>. HIDE DEF e, t
<1>5. /\ pending[w] # <<>> /\ e \in Events /\ e.test = t
      /\ \E s1, s2 : Attempt(accumulators[t], seen[t], s1) /\ Step(e, s1, s2)
  BY <1>1, <1>2, <1>3, CoherentReport DEF e, t
<1>6. t \in Tests /\ e.report \in Reports BY <1>2, <1>5 DEF Typed, Events, t
<1>7. /\ e.report.when \in {"setup", "call", "teardown"}
      /\ e.report.when = "setup" => accumulators[t] = NoAccumulator
      /\ e.report.when \in {"call", "teardown"} =>
           seen[t] # {} /\ ~ \E x \in seen[t] : x.when \in {"teardown", "crash"}
  <2>1. PICK s1, s2 : Attempt(accumulators[t], seen[t], s1) /\ Step(e, s1, s2)
    BY <1>5
  <2>2. e.report.when \in {"setup", "call", "teardown"}
    BY <1>1, <2>1 DEF Step
  <2>. QED BY <1>1, <2>1, <2>2, AttemptOrder
<1>8. PICK r \in Reports : r = e.report BY <1>6
<1>9. /\ HandleLogreport(t, r) /\ r.when \in {"setup", "call", "teardown"}
      /\ seen' = [seen EXCEPT ![t] = IF r.when = "setup" THEN {r} ELSE @ \cup {r}]
  BY <1>1, <1>5, <1>7, <1>8
<1>10. r.when \in {"call", "teardown"} => Recording!Underway(t)
  BY <1>7, <1>8 DEF Recording!Underway, Recording!Over
<1>11. CASE r.when = "setup"
  <2>1. seen' = [seen EXCEPT ![t] = {r}] BY <1>9, <1>11
  <2>2. ~Recording!Underway(t) BY <1>6, <1>7, <1>8, <1>11 DEF Begun
  <2>3. r \in {r} /\ ~ \E x \in {r} : x.when \in {"teardown", "crash"} BY <1>11
  <2>4. outcomes' = outcomes /\ Begun' BY <1>6, <1>9, <1>11, <2>1, <2>3, PhaseAccumulated
  <2>5. Recording!Begin(t, r) BY <1>11, <2>1, <2>2, <2>4 DEF Recording!Begin
  <2>. QED BY <1>6, <2>4, <2>5 DEF Recording!Next
<1>12. CASE r.when = "call"
  <2>. DEFINE reports == seen[t] \cup {r}
  <2>1. seen' = [seen EXCEPT ![t] = reports] BY <1>9, <1>12
  <2>2. Recording!Underway(t) BY <1>10, <1>12
  <2>3. r \in reports /\ ~ \E x \in reports : x.when \in {"teardown", "crash"}
    BY <1>12, <2>2 DEF Recording!Underway, Recording!Over
  <2>. HIDE DEF reports
  <2>4. outcomes' = outcomes /\ Begun' BY <1>6, <1>9, <1>12, <2>1, <2>3, PhaseAccumulated
  <2>5. Recording!Continue(t, r) BY <1>12, <2>1, <2>2, <2>4 DEF Recording!Continue, reports
  <2>. QED BY <1>6, <2>4, <2>5 DEF Recording!Next
<1>13. CASE r.when = "teardown"
  <2>1. seen' = [seen EXCEPT ![t] = @ \cup {r}] BY <1>9, <1>13
  <2>2. Recording!End(t, r) /\ Begun' BY <1>4, <1>6, <1>9, <1>10, <1>13, <2>1, EndRecorded
  <2>. QED BY <1>6, <2>2 DEF Recording!Next
<1>. QED BY <1>9, <1>11, <1>12, <1>13

LEMMA CrashRecorded ==
  ASSUME Inv, Begun, NEW w \in Workers, TakeDown(w), pending[w] # <<>>
  PROVE  Recording!Next /\ Begun'
<1>. DEFINE t == Head(pending[w])
<1>1. Inv' BY StepTakeDown
<1>2. t \in Tests
  <2>1. pending[w] \in Seq(Tests) BY DEF Inv, TypeOK
  <2>. QED BY <2>1
<1>3. HandleLogreport(t, CrashReport) /\ seen' = [seen EXCEPT ![t] = @ \cup {CrashReport}]
  BY DEF TakeDown
<1>4. CrashReport \in Reports /\ CrashReport.when = "crash"
  BY DEF CrashReport, Report, Reports, Results
<1>. HIDE DEF t
<1>5. Recording!End(t, CrashReport) /\ Begun'
  BY <1>1, <1>2, <1>3, <1>4, EndRecorded
<1>. QED BY <1>2, <1>4, <1>5 DEF Recording!Next

\* Nothing else changes what is recorded.
LEMMA RecordUntouched ==
  ASSUME Begun, UNCHANGED <<recordVars, seen>>
  PROVE  UNCHANGED Recording!recordingVars /\ Begun'
<1>1. accumulators' = accumulators /\ outcomes' = outcomes /\ seen' = seen
  BY DEF recordVars
<1>2. Begun'
  BY <1>1 DEF Begun, Recording!Underway, Recording!Over
<1>. QED BY <1>1, <1>2 DEF Recording!recordingVars

LEMMA RecordingStep ==
  ASSUME Inv, Begun, [Next]_vars
  PROVE  Begun' /\ [Recording!Next]_Recording!recordingVars
<1>1. CASE UNCHANGED vars
  BY <1>1, RecordUntouched DEF vars
<1>2. ASSUME NEW w \in Workers, Assign(w) \/ Work(w) \/ Rerun(w) \/ Crash(w)
      PROVE  UNCHANGED <<recordVars, seen>>
  BY <1>2 DEF Assign, Work, RunPhase, Complete, Rerun, Crash
<1>3. ASSUME NEW w \in Workers, Control(w)
      PROVE  Begun' /\ [Recording!Next]_Recording!recordingVars
  <2>1. CASE TakeReport(w)
    BY <2>1, ReportRecorded
  <2>2. CASE TakeComplete(w)
    BY <2>2, RecordUntouched DEF TakeComplete
  <2>3. CASE TakeDown(w) /\ pending[w] = <<>>
    BY <2>3, RecordUntouched DEF TakeDown
  <2>4. CASE TakeDown(w) /\ pending[w] # <<>>
    BY <2>4, CrashRecorded
  <2>. QED BY <1>3, <2>1, <2>2, <2>3, <2>4 DEF Control
<1>. QED BY <1>1, <1>2, <1>3, RecordUntouched DEF Next

\* For every number of workers and tests, wherever workers crash or rerun: attempts
\* follow each other, and an outcome is replaced at the end of an attempt only, by what
\* its reports imply, though the recorder keeps no report.
THEOREM ImplementsRecording == Spec => RecordingSpec
<1>1. Init => Recording!Init
  BY DEF Init, RecordInit, Recording!Init
<1>2. Init => Begun
  BY DEF Init, RecordInit, Begun, Recording!Underway
<1>3. Spec => []Inv
  BY InvInit, StepNext, PTL DEF Spec
<1>4. Inv /\ Begun /\ [Next]_vars => Begun' /\ [Recording!Next]_Recording!recordingVars
  BY RecordingStep
<1>. QED BY <1>1, <1>2, <1>3, <1>4, PTL DEF Spec, RecordingSpec, Recording!Spec

\* The recorder keeps its promise, and whatever ends the list of a worker finalizes
\* what is accumulated.
THEOREM ReportsAreSound == Spec => ReportsSound
BY WorkerReportsAccounted, ImplementsRecording, PTL DEF ReportsSound
=============================================================================
