------------------------ MODULE ProcessState_proofs -------------------------
(***************************************************************************)
(* Proofs about what a test borrows from its process and gives back: the   *)
(* supervisor (TaskSupervision), the environment (RunEnvironment) and      *)
(* Airflow's registries (ComponentSandbox), with the gate in front of them *)
(* (ComponentChecks).                                                      *)
(***************************************************************************)
EXTENDS TaskSupervision, RunEnvironment, ComponentSandbox, ComponentChecks, FiniteSetTheorems, TLAPS

-----------------------------------------------------------------------------
(***************************************************************************)
(* TaskSupervision                                                         *)
(*                                                                         *)
(* Everything a scope changes is recorded in the scope that changed it, so *)
(* the last scope to end leaves nothing behind, and a lookup is answered by *)
(* the seed in force, for every number of tasks, values, scopes and calls. *)
(***************************************************************************)

ScopeRecords ==
  [kind : Fixtures \cup {"parse"}, seed : Values \cup {"none"}, owns : BOOLEAN,
   previous : {Null, Absent} \cup 1..MaxDepth, environ : 0..1, held : SUBSET (Values \cup {"none"})]

\* The supervisor after n scopes is that of the innermost one that brought one.
Innermost(s, n, x) ==
  \/ x \in {Null, Absent} /\ \A d \in 1..n : ~s[d].owns
  \/ x \in 1..n /\ s[x].owns /\ \A d \in (x + 1)..n : ~s[d].owns

\* What a scope found is what the one before it left.
Chained(s, e) ==
  /\ Innermost(s, Len(s), e)
  /\ \A d \in 1..Len(s) :
       /\ Innermost(s, d - 1, s[d].previous)
       /\ (IF s[d].owns THEN d ELSE s[d].previous) = IF d = Len(s) THEN e ELSE s[d + 1].previous
       /\ s[d].owns /\ s[d].kind = "parse" => s[d].previous \in {Null, Absent}

\* A parse knows the rows there were, and its cache holds one of them.
Witnessed(s, row, cached, by) ==
  \A d \in 1..Len(s) :
    s[d].kind = "parse" =>
      /\ row \in s[d].held
      /\ s[d].owns /\ by = "parse" /\ cached \in Values => cached \in s[d].held

\* Derived ids come from this test's calls or from earlier tests.
Issued(b, n, inv) ==
  \A t \in Tasks :
    b[t] \in Derived => b[t][1] <= n /\ (b[t][1] = n => b[t][3] <= inv[b[t][2]])

SupervisionInv ==
  /\ TypeOK
  /\ scopes \in Seq(ScopeRecords)
  /\ useCache \in BOOLEAN /\ test \in 1..MaxTests /\ calls \in 0..MaxCalls
  /\ \A f \in Fixtures : invocations[f] <= calls
  /\ Chained(scopes, endpoint)
  /\ Witnessed(scopes, rows, cache, filler)
  /\ Issued(bound, test, invocations)
  /\ DerivedDagsDistinct
  /\ LookupsAnswered

LEMMA ChainPushed ==
  ASSUME NEW s \in Seq(ScopeRecords), NEW e, NEW r \in ScopeRecords, Chained(s, e), r.previous = e,
         r.owns /\ r.kind = "parse" => e \in {Null, Absent}
  PROVE  Chained(Append(s, r), IF r.owns THEN Len(s) + 1 ELSE e)
<1>. DEFINE t == Append(s, r)
            f == IF r.owns THEN Len(s) + 1 ELSE e
<1>1. /\ Len(s) \in Nat /\ Len(t) = Len(s) + 1
      /\ \A d \in 1..Len(s) : t[d] = s[d] /\ d \in 1..Len(t) /\ d # Len(t)
      /\ t[Len(s) + 1] = r /\ t[Len(t)] = r
      /\ \A d \in 1..Len(t) : d \in 1..Len(s) \/ d = Len(t)
  OBVIOUS
<1>. HIDE DEF t
<1>2. \A n \in 0..Len(s) : \A x : Innermost(s, n, x) <=> Innermost(t, n, x)
  <2>. SUFFICES ASSUME NEW n \in 0..Len(s), NEW x PROVE Innermost(s, n, x) <=> Innermost(t, n, x)
    OBVIOUS
  <2>1. \A d \in 1..n : t[d] = s[d]
    BY <1>1
  <2>2. x \in 1..n => s[x] = t[x]
    BY <2>1
  <2>3. \A d \in (x + 1)..n : x \in 1..n => s[d] = t[d]
    BY <2>1
  <2>. QED BY <2>1, <2>2, <2>3 DEF Innermost
<1>3. Innermost(s, Len(s), e) /\ Innermost(t, Len(s), e)
  BY <1>1, <1>2 DEF Chained
<1>4. Innermost(t, Len(t), f)
  <2>1. CASE r.owns
    BY <2>1, <1>1 DEF Innermost
  <2>2. CASE ~r.owns
    <3>1. \A d \in 1..Len(t) : d # Len(t) => d \in 1..Len(s)
      BY <1>1
    <3>. QED BY <3>1, <2>2, <1>1, <1>3 DEF Innermost
  <2>. QED BY <2>1, <2>2
<1>5. ASSUME NEW d \in 1..Len(t)
      PROVE  /\ Innermost(t, d - 1, t[d].previous)
             /\ (IF t[d].owns THEN d ELSE t[d].previous) = IF d = Len(t) THEN f ELSE t[d + 1].previous
             /\ t[d].owns /\ t[d].kind = "parse" => t[d].previous \in {Null, Absent}
  <2>1. CASE d = Len(t)
    <3>1. d - 1 = Len(s) /\ t[d] = r
      BY <2>1, <1>1
    <3>. QED BY <3>1, <2>1, <1>1, <1>3
  <2>2. CASE d \in 1..Len(s)
    <3>1. /\ d - 1 \in 0..Len(s) /\ t[d] = s[d] /\ d # Len(t)
          /\ t[d + 1].previous = IF d = Len(s) THEN e ELSE s[d + 1].previous
      <4>1. d - 1 \in 0..Len(s) /\ t[d] = s[d] /\ d # Len(t)
        BY <2>2, <1>1
      <4>2. CASE d = Len(s)
        BY <4>1, <4>2, <1>1
      <4>3. CASE d # Len(s)
        <5>1. d + 1 \in 1..Len(s)
          BY <4>3, <2>2, <1>1
        <5>. QED BY <4>1, <4>3, <5>1, <1>1
      <4>. QED BY <4>1, <4>2, <4>3
    <3>2. /\ Innermost(s, d - 1, s[d].previous)
          /\ (IF s[d].owns THEN d ELSE s[d].previous) = IF d = Len(s) THEN e ELSE s[d + 1].previous
          /\ s[d].owns /\ s[d].kind = "parse" => s[d].previous \in {Null, Absent}
      BY <2>2 DEF Chained
    <3>3. Innermost(t, d - 1, t[d].previous)
      BY <3>1, <3>2, <1>2
    <3>. QED BY <3>1, <3>2, <3>3
  <2>. QED BY <2>1, <2>2, <1>1
<1>. QED BY <1>4, <1>5 DEF Chained, t

LEMMA FrontOf ==
  ASSUME NEW S, NEW s \in Seq(S), s # <<>>
  PROVE  /\ Len(s) \in Nat /\ Len(s) >= 1
         /\ Front(s) \in Seq(S) /\ Len(Front(s)) = Len(s) - 1
         /\ \A d \in 1..(Len(s) - 1) : Front(s)[d] = s[d]
<1>1. Len(s) \in Nat /\ Len(s) >= 1
  OBVIOUS
<1>2. PICK n \in Nat : n = Len(s) - 1
  BY <1>1
<1>3. Front(s) = SubSeq(s, 1, n)
  BY <1>2 DEF Front
<1>4. SubSeq(s, 1, n) \in Seq(S) /\ Len(SubSeq(s, 1, n)) = n /\ \A d \in 1..n : SubSeq(s, 1, n)[d] = s[d]
  BY <1>1, <1>2
<1>. QED BY <1>1, <1>2, <1>3, <1>4

LEMMA ChainPopped ==
  ASSUME NEW s \in Seq(ScopeRecords), NEW e, Chained(s, e), s # <<>>
  PROVE  /\ Chained(Front(s), s[Len(s)].previous)
         /\ (IF s[Len(s)].owns THEN s[Len(s)].previous ELSE e) = s[Len(s)].previous
<1>. DEFINE t == Front(s)
            f == s[Len(s)].previous
<1>1. /\ Len(s) \in Nat /\ Len(s) >= 1 /\ Len(t) = Len(s) - 1
      /\ \A d \in 1..Len(t) : t[d] = s[d]
  BY FrontOf
<1>. HIDE DEF t
<1>2. \A n \in 0..Len(t) : \A x : Innermost(s, n, x) <=> Innermost(t, n, x)
  <2>. SUFFICES ASSUME NEW n \in 0..Len(t), NEW x PROVE Innermost(s, n, x) <=> Innermost(t, n, x)
    OBVIOUS
  <2>1. \A d \in 1..n : t[d] = s[d]
    BY <1>1
  <2>. QED BY <2>1, <1>1 DEF Innermost
<1>3. /\ Innermost(s, Len(s) - 1, f)
      /\ (IF s[Len(s)].owns THEN Len(s) ELSE f) = e
  BY <1>1 DEF Chained
<1>4. Innermost(t, Len(t), f)
  BY <1>1, <1>2, <1>3
<1>5. ASSUME NEW d \in 1..Len(t)
      PROVE  /\ Innermost(t, d - 1, t[d].previous)
             /\ (IF t[d].owns THEN d ELSE t[d].previous) = IF d = Len(t) THEN f ELSE t[d + 1].previous
             /\ t[d].owns /\ t[d].kind = "parse" => t[d].previous \in {Null, Absent}
  <2>1. /\ d \in 1..Len(s) /\ d # Len(s) /\ d - 1 \in 0..Len(t) /\ t[d] = s[d]
        /\ s[d + 1].previous = IF d = Len(t) THEN f ELSE t[d + 1].previous
    <3>1. d \in 1..Len(s) /\ d # Len(s) /\ d - 1 \in 0..Len(t) /\ t[d] = s[d]
      BY <1>1
    <3>2. CASE d = Len(t)
      <4>1. d + 1 = Len(s)
        BY <3>2, <1>1
      <4>. QED BY <3>1, <3>2, <4>1
    <3>3. CASE d # Len(t)
      <4>1. d + 1 \in 1..Len(t)
        BY <3>3, <1>1
      <4>. QED BY <3>1, <3>3, <4>1, <1>1
    <3>. QED BY <3>1, <3>2, <3>3
  <2>2. /\ Innermost(s, d - 1, s[d].previous)
        /\ (IF s[d].owns THEN d ELSE s[d].previous) = s[d + 1].previous
        /\ s[d].owns /\ s[d].kind = "parse" => s[d].previous \in {Null, Absent}
    BY <2>1 DEF Chained
  <2>3. Innermost(t, d - 1, t[d].previous)
    BY <2>1, <2>2, <1>2
  <2>. QED BY <2>1, <2>2, <2>3
<1>6. Chained(t, f)
  BY <1>4, <1>5 DEF Chained
<1>. QED BY <1>3, <1>6 DEF t

\* The chain only depends on who brought a supervisor, what they found and their kind.
LEMMA ChainOf ==
  ASSUME NEW s, NEW t, NEW e, Chained(s, e), Len(t) = Len(s), Len(s) \in Nat,
         \A d \in 1..Len(s) : /\ t[d].owns = s[d].owns /\ t[d].previous = s[d].previous
                              /\ t[d].kind = s[d].kind
  PROVE  Chained(t, e)
<1>1. ASSUME NEW n \in 0..Len(s), NEW x, Innermost(s, n, x) PROVE Innermost(t, n, x)
  <2>1. \A d \in 1..n : t[d].owns = s[d].owns
    OBVIOUS
  <2>2. CASE x \in 1..n /\ s[x].owns /\ \A d \in (x + 1)..n : ~s[d].owns
    <3>1. \A d \in (x + 1)..n : ~t[d].owns
      BY <2>1, <2>2
    <3>. QED BY <2>1, <2>2, <3>1 DEF Innermost
  <2>3. CASE x \in {Null, Absent} /\ \A d \in 1..n : ~s[d].owns
    BY <2>1, <2>3 DEF Innermost
  <2>. QED BY <1>1, <2>2, <2>3 DEF Innermost
<1>2. Innermost(t, Len(t), e)
  BY <1>1 DEF Chained
<1>3. ASSUME NEW d \in 1..Len(t)
      PROVE  /\ Innermost(t, d - 1, t[d].previous)
             /\ (IF t[d].owns THEN d ELSE t[d].previous) = IF d = Len(t) THEN e ELSE t[d + 1].previous
             /\ t[d].owns /\ t[d].kind = "parse" => t[d].previous \in {Null, Absent}
  <2>1. /\ d - 1 \in 0..Len(s) /\ d \in 1..Len(s)
        /\ d # Len(s) => d + 1 \in 1..Len(s)
    OBVIOUS
  <2>2. /\ Innermost(s, d - 1, s[d].previous)
        /\ (IF s[d].owns THEN d ELSE s[d].previous) = IF d = Len(s) THEN e ELSE s[d + 1].previous
        /\ s[d].owns /\ s[d].kind = "parse" => s[d].previous \in {Null, Absent}
    BY <2>1 DEF Chained
  <2>3. Innermost(t, d - 1, t[d].previous)
    BY <2>1, <2>2, <1>1
  <2>. QED BY <2>1, <2>2, <2>3
<1>. QED BY <1>2, <1>3 DEF Chained

LEMMA SupervisionStarts == Init => SupervisionInv
<1>. SUFFICES ASSUME Init PROVE SupervisionInv
  OBVIOUS
<1>. USE SupervisionBounds DEF Init
<1>1. scopes \in Seq(ScopeRecords) /\ Len(scopes) = 0
  OBVIOUS
<1>2. TypeOK
  BY <1>1 DEF TypeOK, Depth, Absent, Null
<1>3. Chained(scopes, endpoint)
  BY <1>1 DEF Chained, Innermost
<1>4. Witnessed(scopes, rows, cache, filler)
  BY <1>1 DEF Witnessed
<1>5. \A t \in Tasks : bound[t] \notin Derived
  BY DEF Derived
<1>6. Issued(bound, test, invocations) /\ DerivedDagsDistinct
  BY <1>5 DEF Issued, DerivedDagsDistinct
<1>7. LookupsAnswered
  BY DEF LookupsAnswered, NoAnswer
<1>. QED BY <1>1, <1>2, <1>3, <1>4, <1>6, <1>7 DEF SupervisionInv

LEMMA NotSought == NoAnswer.got \in NoAnswer.want
BY DEF NoAnswer

LEMMA ScopePushed ==
  ASSUME SupervisionInv, NEW kind \in Fixtures \cup {"parse"}, NEW seed \in Values \cup {"none"},
         NEW owns \in BOOLEAN, owns /\ kind = "parse" => endpoint \in {Null, Absent},
         Push(kind, seed, owns)
  PROVE  /\ scopes' \in Seq(ScopeRecords) /\ Len(scopes') = Len(scopes) + 1 /\ Len(scopes') <= MaxDepth
         /\ \A d \in 1..Len(scopes) : scopes'[d] = scopes[d]
         /\ scopes'[Len(scopes) + 1] = Scope(kind, seed, owns)
         /\ endpoint' \in {Null, Absent} \cup 1..MaxDepth
         /\ Chained(scopes', endpoint')
         /\ calls' = calls + 1 /\ calls' \in 0..MaxCalls
<1>1. /\ scopes \in Seq(ScopeRecords) /\ Len(scopes) \in Nat /\ Len(scopes) < MaxDepth
      /\ endpoint \in {Null, Absent} \cup 1..MaxDepth /\ environ \in 0..1 /\ rows \in Values \cup {"none"}
      /\ calls \in 0..MaxCalls /\ calls < MaxCalls
      /\ scopes' = Append(scopes, Scope(kind, seed, owns))
      /\ endpoint' = IF owns THEN Len(scopes) + 1 ELSE endpoint
      /\ calls' = calls + 1
      /\ Chained(scopes, endpoint)
  BY DEF SupervisionInv, TypeOK, Push, Depth
<1>2. Scope(kind, seed, owns) \in ScopeRecords
  BY <1>1 DEF Scope, ScopeRecords
<1>3. /\ Scope(kind, seed, owns).owns = owns /\ Scope(kind, seed, owns).kind = kind
      /\ Scope(kind, seed, owns).previous = endpoint
  BY DEF Scope
<1>. DEFINE r == Scope(kind, seed, owns)
<1>. HIDE DEF r
<1>4. r \in ScopeRecords /\ r.owns = owns /\ r.kind = kind /\ r.previous = endpoint
      /\ scopes' = Append(scopes, r)
  BY <1>1, <1>2, <1>3 DEF r
<1>5. Chained(Append(scopes, r), IF r.owns THEN Len(scopes) + 1 ELSE endpoint)
  BY <1>1, <1>4, ChainPushed
<1>6. Chained(scopes', endpoint')
  BY <1>1, <1>4, <1>5
<1>7. /\ scopes' \in Seq(ScopeRecords) /\ Len(scopes') = Len(scopes) + 1
      /\ \A d \in 1..Len(scopes) : scopes'[d] = scopes[d]
      /\ scopes'[Len(scopes) + 1] = r
  BY <1>1, <1>4
<1>8. Len(scopes') <= MaxDepth /\ endpoint' \in {Null, Absent} \cup 1..MaxDepth /\ calls' \in 0..MaxCalls
  BY <1>1, <1>7, SupervisionBounds
<1>. QED BY <1>1, <1>6, <1>7, <1>8 DEF r

LEMMA TupleKinds ==
  /\ <<>> \notin Derived /\ \A given \in Given : given \notin Derived /\ given # <<>>
  /\ <<"own">> \notin Derived
<1>1. ASSUME NEW d \in Derived PROVE d # <<>> /\ d # <<"own">> /\ d # <<"given">>
  <2>1. Len(d) = 3
    BY DEF Derived
  <2>2. Len(<<>>) = 0 /\ Len(<<"own">>) = 1 /\ Len(<<"given">>) = 1
    OBVIOUS
  <2>3. d # <<>>
    BY <2>1, <2>2
  <2>4. d # <<"own">>
    BY <2>1, <2>2
  <2>5. d # <<"given">>
    BY <2>1, <2>2
  <2>. QED BY <2>3, <2>4, <2>5
<1>. QED BY <1>1 DEF Given

LEMMA CallStep ==
  ASSUME SupervisionInv, NEW t \in Tasks, NEW f \in Fixtures, NEW given \in Given \cup {<<>>},
         NEW seed \in Values, Call(t, f, given, seed)
  PROVE  SupervisionInv'
<1>1. Push(f, seed, TRUE)
  BY DEF Call
<1>2. f # "parse"
  BY DEF Fixtures
<1>3. /\ scopes' \in Seq(ScopeRecords) /\ Len(scopes') = Len(scopes) + 1 /\ Len(scopes') <= MaxDepth
      /\ \A d \in 1..Len(scopes) : scopes'[d] = scopes[d]
      /\ scopes'[Len(scopes) + 1] = Scope(f, seed, TRUE)
      /\ endpoint' \in {Null, Absent} \cup 1..MaxDepth
      /\ Chained(scopes', endpoint')
      /\ calls' = calls + 1 /\ calls' \in 0..MaxCalls
  BY <1>1, <1>2, ScopePushed
<1>4. /\ invocations' = Counted(t, f, given) /\ answer' = NoAnswer
      /\ UNCHANGED <<environ, cache, filler, useCache, rows, session, test>>
      /\ bound' = IF bound[t] = <<>> THEN [bound EXCEPT ![t] = ResolvedDagId(t, f, given)] ELSE bound
  BY DEF Call
<1>5. /\ invocations \in [Fixtures -> 0..MaxCalls] /\ calls \in 0..MaxCalls /\ calls < MaxCalls
      /\ \A g \in Fixtures : invocations[g] <= calls
      /\ bound \in [Tasks -> Synthetic \cup {<<>>, <<"own">>}]
      /\ test \in 1..MaxTests /\ MaxCalls \in Nat
      /\ Issued(bound, test, invocations) /\ DerivedDagsDistinct
  BY SupervisionBounds, <1>1 DEF SupervisionInv, TypeOK, Push
<1>6. /\ invocations' \in [Fixtures -> 0..MaxCalls]
      /\ \A g \in Fixtures : invocations'[g] <= calls' /\ invocations[g] <= invocations'[g]
      /\ given = <<>> /\ bound[t] = <<>> => invocations'[f] = invocations[f] + 1
  BY <1>3, <1>4, <1>5 DEF Counted
<1>. DEFINE fresh == <<test, f, invocations[f] + 1>>
<1>7. invocations[f] + 1 \in 1..MaxCalls /\ invocations[f] \in 0..MaxCalls
  BY <1>5
<1>8. fresh \in Derived /\ fresh[1] = test /\ fresh[2] = f /\ fresh[3] = invocations[f] + 1
  BY <1>5, <1>7 DEF Derived
<1>. HIDE DEF fresh
<1>9. ASSUME NEW u \in Tasks PROVE bound[u] # fresh
  <2>. SUFFICES ASSUME bound[u] = fresh PROVE FALSE
    OBVIOUS
  <2>1. bound[u][3] <= invocations[bound[u][2]]
    BY <1>5, <1>8 DEF Issued
  <2>. QED BY <2>1, <1>7, <1>8
<1>11. /\ bound' \in [Tasks -> Synthetic \cup {<<>>, <<"own">>}]
       /\ \A u \in Tasks \ {t} : bound'[u] = bound[u]
       /\ \/ bound'[t] = bound[t]
          \/ bound'[t] \in Given
          \/ bound'[t] = fresh /\ invocations'[f] = invocations[f] + 1
  <2>1. CASE bound[t] # <<>>
    BY <2>1, <1>4, <1>5
  <2>2. CASE bound[t] = <<>> /\ given = <<>>
    <3>1. bound' = [bound EXCEPT ![t] = fresh]
      BY <2>2, <1>4 DEF ResolvedDagId, fresh
    <3>. QED BY <3>1, <2>2, <1>5, <1>6, <1>8 DEF Synthetic
  <2>3. CASE bound[t] = <<>> /\ given # <<>>
    <3>1. bound' = [bound EXCEPT ![t] = given] /\ given \in Given
      BY <2>3, <1>4 DEF ResolvedDagId
    <3>. QED BY <3>1, <1>5 DEF Synthetic
  <2>. QED BY <2>1, <2>2, <2>3
<1>12. Issued(bound, test, invocations)'
  <2>. SUFFICES ASSUME NEW u \in Tasks, bound'[u] \in Derived
                PROVE  bound'[u][1] <= test /\ (bound'[u][1] = test => bound'[u][3] <= invocations'[bound'[u][2]])
    BY <1>4 DEF Issued
  <2>1. CASE bound'[u] = bound[u]
    <3>1. bound[u][1] <= test /\ (bound[u][1] = test => bound[u][3] <= invocations[bound[u][2]])
      BY <2>1, <1>5 DEF Issued
    <3>2. bound[u][2] \in Fixtures /\ bound[u][3] \in 1..MaxCalls
      BY <2>1 DEF Derived
    <3>3. invocations[bound[u][2]] \in Int /\ invocations'[bound[u][2]] \in Int
          /\ invocations[bound[u][2]] <= invocations'[bound[u][2]]
      BY <3>2, <1>5, <1>6
    <3>. QED BY <2>1, <3>1, <3>2, <3>3
  <2>2. CASE u = t /\ bound'[t] = fresh /\ invocations'[f] = invocations[f] + 1
    BY <2>2, <1>5, <1>8
  <2>3. ~(u = t /\ bound'[t] \in Given)
    BY TupleKinds
  <2>. QED BY <2>1, <2>2, <2>3, <1>11
<1>13. DerivedDagsDistinct'
  <2>. SUFFICES ASSUME NEW u \in Tasks, NEW v \in Tasks, bound'[u] \in Derived, bound'[u] = bound'[v], u # v
                PROVE  FALSE
    BY DEF DerivedDagsDistinct
  <2>1. bound'[t] \notin Given \/ (u # t /\ v # t)
    BY TupleKinds
  <2>2. bound'[t] = bound[t] => FALSE
    BY <1>5, <1>11 DEF DerivedDagsDistinct
  <2>3. u # t /\ v # t => FALSE
    BY <1>5, <1>11 DEF DerivedDagsDistinct
  <2>4. bound'[t] = fresh => FALSE
    BY <2>3, <1>9, <1>11
  <2>. QED BY <2>1, <2>2, <2>3, <2>4, <1>11
<1>14. TypeOK'
  BY <1>3, <1>4, <1>6, <1>11 DEF SupervisionInv, TypeOK, Depth
<1>15. Witnessed(scopes, rows, cache, filler)'
  <2>. SUFFICES ASSUME NEW d \in 1..Len(scopes'), scopes'[d].kind = "parse"
                PROVE  /\ rows \in scopes'[d].held
                       /\ scopes'[d].owns /\ filler = "parse" /\ cache \in Values => cache \in scopes'[d].held
    BY <1>4 DEF Witnessed
  <2>1. CASE d \in 1..Len(scopes)
    BY <2>1, <1>3 DEF SupervisionInv, Witnessed
  <2>2. CASE d = Len(scopes) + 1
    BY <2>2, <1>2, <1>3 DEF Scope
  <2>3. Len(scopes) \in Nat
    BY DEF SupervisionInv
  <2>. QED BY <2>1, <2>2, <2>3, <1>3
<1>16. LookupsAnswered'
  BY <1>4, NotSought DEF LookupsAnswered
<1>17. useCache' \in BOOLEAN /\ test' \in 1..MaxTests
  BY <1>4 DEF SupervisionInv
<1>. QED BY <1>3, <1>6, <1>12, <1>13, <1>14, <1>15, <1>16, <1>17 DEF SupervisionInv

LEMMA ParseStep ==
  ASSUME SupervisionInv, NEW policy \in {"metastore", "off"}, Parse(policy)
  PROVE  SupervisionInv'
<1>. DEFINE owns == Installs(policy)
<1>0. owns \in BOOLEAN /\ (owns => endpoint \in {Null, Absent})
  BY DEF Installs
<1>1. Push("parse", "none", owns)
  BY DEF Parse
<1>2. /\ scopes' \in Seq(ScopeRecords) /\ Len(scopes') = Len(scopes) + 1 /\ Len(scopes') <= MaxDepth
      /\ \A d \in 1..Len(scopes) : scopes'[d] = scopes[d]
      /\ scopes'[Len(scopes) + 1] = Scope("parse", "none", owns)
      /\ endpoint' \in {Null, Absent} \cup 1..MaxDepth
      /\ Chained(scopes', endpoint')
      /\ calls' = calls + 1 /\ calls' \in 0..MaxCalls
  BY <1>0, <1>1, ScopePushed
<1>3. /\ cache' = IF owns THEN ResetCache ELSE cache
      /\ answer' = NoAnswer
      /\ UNCHANGED <<environ, filler, useCache, rows, session, bound, invocations, test>>
  BY DEF Parse
<1>. HIDE DEF owns
<1>4. cache' \in {"off", "empty"} \/ (cache' = cache /\ ~owns)
  BY <1>0, <1>3 DEF ResetCache
<1>5. TypeOK'
  BY <1>2, <1>3, <1>4 DEF SupervisionInv, TypeOK, Depth
<1>6. Witnessed(scopes, rows, cache, filler)'
  <2>. SUFFICES ASSUME NEW d \in 1..Len(scopes'), scopes'[d].kind = "parse"
                PROVE  /\ rows \in scopes'[d].held
                       /\ scopes'[d].owns /\ filler = "parse" /\ cache' \in Values => cache' \in scopes'[d].held
    BY <1>3 DEF Witnessed
  <2>1. cache' \in Values => cache' = cache /\ ~owns
    BY <1>4, ValuesAreNot
  <2>2. CASE d \in 1..Len(scopes)
    BY <2>1, <2>2, <1>2 DEF SupervisionInv, Witnessed
  <2>3. CASE d = Len(scopes) + 1
    BY <2>1, <2>3, <1>2 DEF Scope
  <2>4. Len(scopes) \in Nat
    BY DEF SupervisionInv
  <2>. QED BY <2>2, <2>3, <2>4, <1>2
<1>7. LookupsAnswered'
  BY <1>3, NotSought DEF LookupsAnswered
<1>8. /\ useCache' \in BOOLEAN /\ test' \in 1..MaxTests
      /\ \A f \in Fixtures : invocations'[f] <= calls'
  <2>1. \A f \in Fixtures : invocations[f] \in Int /\ invocations[f] <= calls
    BY DEF SupervisionInv, TypeOK
  <2>. QED BY <2>1, <1>2, <1>3 DEF SupervisionInv
<1>9. Issued(bound, test, invocations)' /\ DerivedDagsDistinct'
  BY <1>3 DEF SupervisionInv, Issued, DerivedDagsDistinct
<1>. QED BY <1>2, <1>5, <1>6, <1>7, <1>8, <1>9 DEF SupervisionInv

LEMMA PopStep ==
  ASSUME SupervisionInv, Pop
  PROVE  SupervisionInv'
<1>1. /\ scopes \in Seq(ScopeRecords) /\ scopes # <<>> /\ Chained(scopes, endpoint)
      /\ Top = scopes[Len(scopes)] /\ Depth = Len(scopes)
  BY DEF SupervisionInv, Pop, Top, Depth, Last
<1>2. /\ Len(scopes) \in Nat /\ Len(scopes) >= 1
      /\ Front(scopes) \in Seq(ScopeRecords) /\ Len(Front(scopes)) = Len(scopes) - 1
      /\ \A d \in 1..(Len(scopes) - 1) : Front(scopes)[d] = scopes[d]
  BY <1>1, FrontOf
<1>3. Top \in ScopeRecords
  BY <1>1, <1>2
<1>4. endpoint' = scopes[Len(scopes)].previous /\ Chained(Front(scopes), endpoint')
  BY <1>1, ChainPopped DEF Pop, Restored
<1>5. /\ scopes' = Front(scopes) /\ answer' = NoAnswer
      /\ environ' = IF Top.kind = "parse" THEN environ ELSE Top.environ
      /\ cache' = IF Top.kind = "parse" /\ Top.owns THEN ResetCache ELSE cache
      /\ session' = session \ {Depth}
      /\ UNCHANGED <<filler, useCache, rows, bound, invocations, test, calls>>
  BY DEF Pop
<1>6. endpoint' \in {Null, Absent} \cup 1..MaxDepth /\ environ' \in 0..1
  BY <1>1, <1>3, <1>4, <1>5 DEF ScopeRecords, SupervisionInv, TypeOK
<1>7. cache' \in {"off", "empty"} \/ cache' = cache
  BY <1>5 DEF ResetCache
<1>8. TypeOK'
  <2>1. Len(scopes') <= MaxDepth
    BY <1>1, <1>2, <1>5, SupervisionBounds DEF SupervisionInv, TypeOK
  <2>2. cache' \in {"off", "empty"} \cup Values
    BY <1>7 DEF SupervisionInv, TypeOK
  <2>3. session' \subseteq 1..MaxDepth
    BY <1>5 DEF SupervisionInv, TypeOK
  <2>. QED BY <2>1, <2>2, <2>3, <1>5, <1>6 DEF SupervisionInv, TypeOK, Depth
<1>9. Witnessed(scopes, rows, cache, filler)'
  <2>. SUFFICES ASSUME NEW d \in 1..Len(scopes'), scopes'[d].kind = "parse"
                PROVE  /\ rows \in scopes'[d].held
                       /\ scopes'[d].owns /\ filler = "parse" /\ cache' \in Values => cache' \in scopes'[d].held
    BY <1>5 DEF Witnessed
  <2>1. cache' \in Values => cache' = cache
    BY <1>7, ValuesAreNot
  <2>2. d \in 1..Len(scopes) /\ scopes'[d] = scopes[d]
    BY <1>2, <1>5
  <2>. QED BY <2>1, <2>2 DEF SupervisionInv, Witnessed
<1>10. LookupsAnswered'
  BY <1>5, NotSought DEF LookupsAnswered
<1>11. Issued(bound, test, invocations)' /\ DerivedDagsDistinct'
  BY <1>5 DEF SupervisionInv, Issued, DerivedDagsDistinct
<1>12. Chained(scopes', endpoint') /\ scopes' \in Seq(ScopeRecords)
  BY <1>2, <1>4, <1>5
<1>. QED BY <1>5, <1>8, <1>9, <1>10, <1>11, <1>12 DEF SupervisionInv

LEMMA LookupStep ==
  ASSUME SupervisionInv, Lookup
  PROVE  SupervisionInv'
<1>. DEFINE s == scopes[endpoint]
            hit == cache \in Values
            got == IF hit THEN cache ELSE Answered
<1>1. /\ endpoint > 0 /\ endpoint \in 1..Len(scopes) /\ s.owns /\ s \in ScopeRecords
      /\ endpoint \in 1..MaxDepth
  BY DEF SupervisionInv, TypeOK, Lookup, Chained, Innermost, Null, Absent
<1>2. /\ s.kind \in Fixtures \cup {"parse"} /\ s.seed \in Values \cup {"none"}
      /\ Answered = IF s.kind = "parse" THEN rows ELSE s.seed
      /\ rows \in Values \cup {"none"} /\ cache \in {"off", "empty"} \cup Values
  BY <1>1 DEF ScopeRecords, Answered, SupervisionInv, TypeOK
<1>3. /\ answer'.got = got /\ answer'.want = (IF s.kind = "parse" THEN s.held ELSE {s.seed})
      /\ answer'.mixed = (hit /\ {s.kind, filler} # {"parse"})
      /\ filler' = IF hit \/ cache = "off" \/ got \notin Values THEN filler ELSE s.kind
      /\ cache' = IF cache # "off" /\ got \in Values THEN got ELSE cache
      /\ session' = IF ~hit /\ s.kind = "parse" THEN session \cup {endpoint} ELSE session
      /\ UNCHANGED <<endpoint, environ, scopes, useCache, rows, bound, invocations, test, calls>>
  BY DEF Lookup
<1>4. s.kind = "parse" => rows \in s.held /\ (filler = "parse" /\ cache \in Values => cache \in s.held)
  BY <1>1 DEF SupervisionInv, Witnessed
<1>5. LookupsAnswered'
  <2>. SUFFICES ASSUME ~answer'.mixed PROVE answer'.got \in answer'.want
    BY DEF LookupsAnswered
  <2>1. CASE hit
    <3>1. s.kind = "parse" /\ filler = "parse"
      BY <2>1, <1>3
    <3>. QED BY <2>1, <3>1, <1>3, <1>4
  <2>2. CASE ~hit
    BY <2>2, <1>2, <1>3, <1>4
  <2>. QED BY <2>1, <2>2
<1>6. TypeOK'
  BY <1>1, <1>2, <1>3 DEF SupervisionInv, TypeOK, Depth
<1>7. Witnessed(scopes, rows, cache, filler)'
  <2>. SUFFICES ASSUME NEW d \in 1..Len(scopes), scopes[d].kind = "parse"
                PROVE  /\ rows \in scopes[d].held
                       /\ scopes[d].owns /\ filler' = "parse" /\ cache' \in Values => cache' \in scopes[d].held
    BY <1>3 DEF Witnessed
  <2>1. /\ rows \in scopes[d].held
        /\ scopes[d].owns /\ filler = "parse" /\ cache \in Values => cache \in scopes[d].held
    BY DEF SupervisionInv, Witnessed
  <2>2. CASE filler' = filler /\ cache' = cache
    BY <2>1, <2>2
  <2>3. CASE ~hit /\ got \in Values /\ cache' = got /\ filler' = s.kind
    BY <2>1, <2>3, <1>2
  <2>4. CASE ~hit /\ cache = "off" /\ filler' = filler
    BY <2>1, <2>4, <1>3
  <2>. QED BY <2>1, <2>2, <2>3, <2>4, <1>2, <1>3
<1>8. Issued(bound, test, invocations)' /\ DerivedDagsDistinct' /\ Chained(scopes, endpoint)'
  <2>1. Chained(scopes', endpoint')
    BY <1>3 DEF SupervisionInv
  <2>. QED BY <2>1, <1>3 DEF SupervisionInv, Issued, DerivedDagsDistinct
<1>. QED BY <1>3, <1>5, <1>6, <1>7, <1>8 DEF SupervisionInv

LEMMA SeedStep ==
  ASSUME SupervisionInv, Seed
  PROVE  SupervisionInv'
<1>1. PICK row \in Values \cup {"none"} :
        /\ rows' = row
        /\ scopes' = [d \in 1..Len(scopes) |->
                        IF scopes[d].kind = "parse" THEN [scopes[d] EXCEPT !.held = @ \cup {row}]
                        ELSE scopes[d]]
  BY DEF Seed, Depth
<1>2. /\ answer' = NoAnswer
      /\ UNCHANGED <<endpoint, environ, cache, filler, useCache, session, bound, invocations, test, calls>>
      /\ scopes \in Seq(ScopeRecords) /\ Len(scopes) \in Nat
  BY DEF Seed, SupervisionInv
<1>3. ASSUME NEW d \in 1..Len(scopes)
      PROVE  /\ scopes'[d] \in ScopeRecords
             /\ scopes'[d].owns = scopes[d].owns /\ scopes'[d].previous = scopes[d].previous
             /\ scopes'[d].kind = scopes[d].kind
             /\ scopes'[d].kind = "parse" => scopes'[d].held = scopes[d].held \cup {row}
  <2>1. scopes[d] \in ScopeRecords
    BY <1>2
  <2>2. scopes'[d] = IF scopes[d].kind = "parse" THEN [scopes[d] EXCEPT !.held = @ \cup {row}] ELSE scopes[d]
    BY <1>1
  <2>. QED BY <2>1, <2>2, <1>1 DEF ScopeRecords
<1>4. scopes' \in Seq(ScopeRecords) /\ Len(scopes') = Len(scopes)
  <2>1. scopes' \in [1..Len(scopes) -> ScopeRecords]
    BY <1>1, <1>3
  <2>. QED BY <2>1, <1>2
<1>5. Chained(scopes', endpoint')
  <2>1. Chained(scopes, endpoint)
    BY DEF SupervisionInv
  <2>2. Chained(scopes', endpoint)
    BY <2>1, <1>2, <1>3, <1>4, ChainOf
  <2>. QED BY <2>2, <1>2
<1>6. Witnessed(scopes, rows, cache, filler)'
  BY <1>1, <1>2, <1>3, <1>4 DEF SupervisionInv, Witnessed
<1>7. TypeOK'
  BY <1>1, <1>2, <1>4 DEF SupervisionInv, TypeOK, Depth
<1>8. Issued(bound, test, invocations)' /\ DerivedDagsDistinct' /\ LookupsAnswered'
  BY <1>2, NotSought DEF SupervisionInv, Issued, DerivedDagsDistinct, LookupsAnswered
<1>. QED BY <1>2, <1>4, <1>5, <1>6, <1>7, <1>8 DEF SupervisionInv

\* Steps that leave scopes, supervisor, rows and cache alone.
LEMMA SmallSteps ==
  ASSUME SupervisionInv,
         \/ \E t \in Tasks, f \in Fixtures, given \in Given \cup {<<>>} : CallRefused(t, f, given)
         \/ LookupFails \/ Disturb \/ NextTest
  PROVE  SupervisionInv'
<1>1. /\ UNCHANGED <<endpoint, scopes, cache, filler, useCache, rows, session, bound>>
      /\ answer' = NoAnswer
  BY DEF CallRefused, LookupFails, Disturb, NextTest
<1>2. /\ invocations \in [Fixtures -> 0..MaxCalls] /\ calls \in 0..MaxCalls /\ test \in 1..MaxTests
      /\ \A g \in Fixtures : invocations[g] <= calls
      /\ Issued(bound, test, invocations) /\ MaxCalls \in Nat /\ MaxTests \in Nat
      /\ environ \in 0..1
  BY SupervisionBounds DEF SupervisionInv, TypeOK
<1>3. /\ invocations' \in [Fixtures -> 0..MaxCalls] /\ calls' \in 0..MaxCalls /\ test' \in 1..MaxTests
      /\ environ' \in 0..1
      /\ \A g \in Fixtures : invocations'[g] <= calls'
      /\ \/ test' = test /\ \A g \in Fixtures : invocations[g] <= invocations'[g]
         \/ test' = test + 1
  <2>1. ASSUME NEW t \in Tasks, NEW f \in Fixtures, NEW given \in Given \cup {<<>>}, CallRefused(t, f, given)
        PROVE  /\ invocations' \in [Fixtures -> 0..MaxCalls] /\ calls' \in 0..MaxCalls /\ test' \in 1..MaxTests
               /\ environ' \in 0..1
               /\ \A g \in Fixtures : invocations'[g] <= calls'
               /\ test' = test /\ \A g \in Fixtures : invocations[g] <= invocations'[g]
    <3>1. /\ calls' = calls + 1 /\ calls < MaxCalls /\ test' = test /\ environ' = environ
          /\ invocations' = [invocations EXCEPT ![f] = @ + 1] \/ invocations' = invocations
      BY <2>1 DEF CallRefused, Counted
    <3>. QED BY <3>1, <1>2
  <2>2. CASE LookupFails
    BY <2>2, <1>2 DEF LookupFails
  <2>3. CASE Disturb
    BY <2>3, <1>2 DEF Disturb
  <2>4. CASE NextTest
    BY <2>4, <1>2 DEF NextTest
  <2>. QED BY <2>1, <2>2, <2>3, <2>4
<1>4. Issued(bound, test, invocations)'
  <2>. SUFFICES ASSUME NEW u \in Tasks, bound[u] \in Derived
                PROVE  bound[u][1] <= test' /\ (bound[u][1] = test' => bound[u][3] <= invocations'[bound[u][2]])
    BY <1>1 DEF Issued
  <2>1. bound[u][1] <= test /\ (bound[u][1] = test => bound[u][3] <= invocations[bound[u][2]])
    BY <1>2 DEF Issued
  <2>2. bound[u][1] \in Nat /\ bound[u][2] \in Fixtures /\ bound[u][3] \in 1..MaxCalls
    BY DEF Derived
  <2>3. invocations[bound[u][2]] \in Int /\ invocations'[bound[u][2]] \in Int
    BY <2>2, <1>2, <1>3
  <2>4. CASE test' = test /\ invocations[bound[u][2]] <= invocations'[bound[u][2]]
    BY <2>1, <2>2, <2>3, <2>4
  <2>5. CASE test' = test + 1
    BY <2>1, <2>2, <2>5, <1>2
  <2>. QED BY <2>2, <2>4, <2>5, <1>3
<1>5. TypeOK'
  BY <1>1, <1>3 DEF SupervisionInv, TypeOK, Depth
<1>6. DerivedDagsDistinct' /\ LookupsAnswered' /\ Chained(scopes', endpoint')
  BY <1>1, NotSought DEF SupervisionInv, DerivedDagsDistinct, LookupsAnswered
<1>7. Witnessed(scopes, rows, cache, filler)'
  BY <1>1 DEF SupervisionInv, Witnessed
<1>. QED BY <1>1, <1>3, <1>4, <1>5, <1>6, <1>7 DEF SupervisionInv

\* The strengthening is inductive: the supervisor after any number of scopes is that of the
\* innermost one that brought one, and every answer ever given was right when it was given.
THEOREM SupervisionInvariant == Spec => []SupervisionInv
<1>1. Init => SupervisionInv
  BY SupervisionStarts
<1>2. SupervisionInv /\ [Next]_vars => SupervisionInv'
  <2>. SUFFICES ASSUME SupervisionInv, [Next]_vars PROVE SupervisionInv'
    OBVIOUS
  <2>1. ASSUME NEW t \in Tasks, NEW given \in Given \cup {<<>>}, NEW seed \in Values,
               RunTask(t, given, seed) \/ TaskContext(t, given, seed)
        PROVE  SupervisionInv'
    <3>1. "run_task" \in Fixtures /\ "task_context" \in Fixtures
      BY DEF Fixtures
    <3>. QED BY <2>1, <3>1, CallStep DEF RunTask, TaskContext
  <2>2. ASSUME NEW policy \in {"metastore", "off"}, Parse(policy) PROVE SupervisionInv'
    BY <2>2, ParseStep
  <2>3. CASE Pop \/ Lookup \/ Seed
    BY <2>3, PopStep, LookupStep, SeedStep
  <2>4. CASE \/ \E t \in Tasks, f \in Fixtures, given \in Given \cup {<<>>} : CallRefused(t, f, given)
             \/ LookupFails \/ Disturb \/ NextTest
    BY <2>4, SmallSteps
  <2>5. CASE UNCHANGED vars
    <3>1. Chained(scopes', endpoint')
      BY <2>5 DEF vars, SupervisionInv
    <3>. QED BY <2>5, <3>1 DEF vars, SupervisionInv, TypeOK, Depth, Witnessed, Issued, DerivedDagsDistinct,
                LookupsAnswered
  <2>. QED BY <2>1, <2>2, <2>3, <2>4, <2>5 DEF Next
<1>. QED BY <1>1, <1>2, PTL DEF Spec

LEMMA InnermostOwns ==
  ASSUME SupervisionInv
  PROVE  EndpointInnermost
<1>1. Innermost(scopes, Len(scopes), endpoint) /\ Len(scopes) \in Nat /\ Depth = Len(scopes)
  BY DEF SupervisionInv, Chained, Depth
<1>2. endpoint > 0 => /\ endpoint <= Depth /\ scopes[endpoint].owns
                      /\ \A d \in endpoint + 1 .. Depth : ~scopes[d].owns
  BY <1>1 DEF Innermost, Null, Absent
<1>3. ASSUME NEW d \in 1..Depth, NEW e \in 1..Depth, d < e, scopes[d].owns, scopes[e].kind = "parse",
             scopes[e].owns
      PROVE  FALSE
  <2>1. scopes[e].previous \in {Null, Absent} /\ Innermost(scopes, e - 1, scopes[e].previous)
    BY <1>1, <1>3 DEF SupervisionInv, Chained
  <2>2. d \in 1..(e - 1)
    BY <1>1, <1>3
  <2>. QED BY <2>1, <2>2, <1>3 DEF Innermost, Null, Absent
<1>. QED BY <1>2, <1>3 DEF EndpointInnermost

\* Lookups go to the innermost supervisor, a parse brings none where there is one, and no Dag
\* made up for a task serves another (parse_time_supervision, _default_dag_id).
THEOREM SupervisionHolds == Spec => []SupervisionSound
<1>1. SupervisionInv => SupervisionSound
  BY InnermostOwns DEF SupervisionInv, SupervisionSound
<1>. QED BY <1>1, SupervisionInvariant, PTL

\* A task's lookup has its own seed for an answer, and a parse's a row there was during the
\* parse, unless a task's scope met another's answers in the cache.
THEOREM LookupsGetTheirOwn == Spec => []LookupsAnswered
<1>1. SupervisionInv => LookupsAnswered
  BY DEF SupervisionInv
<1>. QED BY <1>1, SupervisionInvariant, PTL

\* When a scope ends the process has the supervisor it had when the scope began, the
\* environment too if the scope ran a task, and no session opened for the scope.
THEOREM ScopesGiveBack == Spec => ScopesLeaveNoTrace
<1>1. SupervisionInv /\ [Next]_vars =>
        [\A d \in 1..Depth : Len(scopes') < d =>
           /\ endpoint' = scopes[d].previous
           /\ scopes[d].kind # "parse" => environ' = scopes[d].environ
           /\ d \notin session']_vars
  <2>. SUFFICES ASSUME SupervisionInv, Next, NEW d \in 1..Depth, Len(scopes') < d
                PROVE  /\ endpoint' = scopes[d].previous
                       /\ scopes[d].kind # "parse" => environ' = scopes[d].environ
                       /\ d \notin session'
    BY DEF vars
  <2>1. scopes \in Seq(ScopeRecords) /\ Len(scopes) \in Nat /\ d \in 1..Len(scopes)
    BY DEF SupervisionInv, Depth
  <2>2. CASE Pop
    <3>1. Chained(scopes, endpoint) /\ scopes # <<>> /\ Top = scopes[Len(scopes)] /\ Depth = Len(scopes)
      BY <2>2 DEF SupervisionInv, Pop, Top, Depth, Last
    <3>2. d = Len(scopes)
      <4>1. Len(scopes') = Len(scopes) - 1
        BY <2>1, <2>2, <3>1, FrontOf DEF Pop
      <4>. QED BY <2>1, <4>1
    <3>3. endpoint' = scopes[d].previous
      BY <2>1, <2>2, <3>1, <3>2, ChainPopped DEF Pop, Restored
    <3>. QED BY <2>2, <3>1, <3>2, <3>3 DEF Pop
  <2>3. CASE Seed
    <3>1. PICK row : scopes' = [c \in 1..Len(scopes) |->
                        IF scopes[c].kind = "parse" THEN [scopes[c] EXCEPT !.held = @ \cup {row}]
                        ELSE scopes[c]]
      BY <2>3 DEF Seed, Depth
    <3>2. Len(scopes') = Len(scopes)
      BY <2>1, <3>1
    <3>. QED BY <2>1, <3>2
  <2>4. CASE \E kind, seed, owns : Push(kind, seed, owns)
    <3>1. Len(scopes') = Len(scopes) + 1
      BY <2>1, <2>4 DEF Push
    <3>. QED BY <2>1, <3>1
  <2>5. CASE UNCHANGED scopes
    BY <2>1, <2>5
  <2>. QED BY <2>2, <2>3, <2>4, <2>5
       DEF Next, RunTask, TaskContext, Call, CallRefused, Parse, Lookup, LookupFails, Disturb, NextTest
<1>. QED BY <1>1, SupervisionInvariant, PTL DEF Spec, ScopesLeaveNoTrace

-----------------------------------------------------------------------------
(***************************************************************************)
(* RunEnvironment                                                          *)
(*                                                                         *)
(* A stack of scopes, each undoing what it overrode, gives the environment *)
(* of the process back, and a child reads the settings of its own run, for *)
(* every environment a session may start in and every number of children.  *)
(***************************************************************************)

\* A list of scopes: each undoes the one name it overrides.
Shape(s) ==
  \A i \in 1..Len(s) :
    /\ s[i].name \in {"dags_folder", "option"}
    /\ s[i].name = "dags_folder" => s[i].refresh
    /\ s[i].orig[s[i].name] \in Readings
    /\ \A n \in Names \ {s[i].name} : s[i].orig[n] = Untouched

\* What no scope overrides is as it was at the start of the session, and the outermost
\* scope of a name has set that value aside.
Stacked(s, e, b) ==
  \A n \in Names :
    /\ (\A i \in 1..Len(s) : s[i].name # n) => e[n] = b[n]
    /\ \A i \in 1..Len(s) :
         s[i].name = n /\ (\A j \in 1..(i - 1) : s[j].name # n) => s[i].orig[n] = b[n]

\* The names neither the ini file nor a conftest writes.
Kept == Names \ (setup.ini \cup {setup.conftest})

\* The handoff a child would compare is what the environment already holds.
OwnRun(e) == \A n \in Kept : Environment(e)[n] \in {Untouched, e[n]}

Configured(b) ==
  /\ OwnRun(b)
  /\ \A n \in setup.ini \ {setup.conftest} : b[n] = "ini"
  /\ \A n \in Names : n = setup.conftest => b[n] = "drift"

FirstCleanup(s) ==
  \A n \in Names :
    s[1][n] = IF n \in {"dags_folder", "secret_key", "executor"} THEN setup.ambient[n] ELSE Untouched

SecondCleanup(s) ==
  /\ "option" \in setup.ini => s[2]["option"] = setup.ambient["option"]
  /\ \A n \in Names \ setup.ini : s[2][n] = Untouched

OptionKept(e) == e["option"] = setup.ambient["option"]

InSession(p) ==
  \/ pc[p] = "session"
  \/ pc[p] = "teardown" /\ p = ctl /\ Len(cleanups[p]) = 2

ControllerInv ==
  /\ pc[ctl] \in {"start", "configure", "conftest", "session", "teardown", "gone"}
  /\ pc[ctl] = "start" => env[ctl] = setup.ambient /\ Len(cleanups[ctl]) = 0
  /\ pc[ctl] = "configure" =>
       /\ Len(cleanups[ctl]) = 1 /\ FirstCleanup(cleanups[ctl])
       /\ OptionKept(env[ctl]) /\ OwnRun(env[ctl])
  /\ pc[ctl] = "conftest" =>
       /\ Len(cleanups[ctl]) = 2 /\ FirstCleanup(cleanups[ctl]) /\ SecondCleanup(cleanups[ctl])
       /\ "option" \notin setup.ini => OptionKept(env[ctl])
       /\ OwnRun(env[ctl])
       /\ \A n \in setup.ini : env[ctl][n] = "ini"
  /\ pc[ctl] = "session" => Len(cleanups[ctl]) = 2
  /\ pc[ctl] \in {"session", "teardown"} /\ Len(cleanups[ctl]) = 2 =>
       /\ FirstCleanup(cleanups[ctl]) /\ SecondCleanup(cleanups[ctl])
       /\ "option" \notin setup.ini \cup {setup.conftest} => OptionKept(base[ctl])
  /\ pc[ctl] = "teardown" /\ Len(cleanups[ctl]) # 2 =>
       /\ Len(cleanups[ctl]) = 1 /\ FirstCleanup(cleanups[ctl]) /\ Len(overrides[ctl]) = 0
       /\ "option" \in setup.ini \/ "option" # setup.conftest => OptionKept(env[ctl])
  /\ pc[ctl] \in {"session", "teardown", "gone"} => Configured(base[ctl])
  /\ setup.xdist => Len(overrides[ctl]) = 0

ChildOf(c) ==
  /\ pc[c] # "start" => pc[ctl] \in {"session", "teardown", "gone"}
  /\ pc[c] \in {"configure", "conftest"} => env[c]["dags_folder"] = "run"
  /\ pc[c] = "session" =>
       base[c]["dags_folder"] = IF setup.conftest = "dags_folder" THEN "drift" ELSE "run"
  /\ setup.xdist /\ pc[c] = "inherited" => env[c] = base[ctl]
  /\ setup.xdist /\ pc[c] \in {"configure", "conftest"} =>
       \A n \in Kept : env[c][n] = base[ctl][n]
  /\ setup.xdist /\ pc[c] = "conftest" => \A n \in setup.ini : env[c][n] = "ini"
  /\ setup.xdist /\ pc[c] = "session" => base[c] = base[ctl]

ChildInv == \A c \in Children : ChildOf(c)

StackOf(p) ==
  /\ pc[p] \notin {"session", "teardown"} => Len(overrides[p]) = 0
  /\ pc[p] \in {"start", "inherited", "configure", "conftest"} => settings[p] = "unimported"
  /\ Shape(overrides[p])
  /\ InSession(p) => Stacked(overrides[p], env[p], base[p])
  /\ pc[p] = "session" => settings[p] \in {"unimported", env[p]["dags_folder"]} \/ p \in stale

StackInv == \A p \in Processes : StackOf(p)

EnvironmentInv ==
  /\ setup \in Setups
  /\ EnvironmentTypeOK
  /\ ControllerInv
  /\ ChildInv
  /\ StackInv
  /\ EnvRestored

LEMMA TypedSetup ==
  ASSUME setup \in Setups
  PROVE  /\ setup.ambient \in [Names -> Readings]
         /\ setup.ini \in SUBSET {"executor", "option"}
         /\ setup.conftest \in Names \cup {"none"}
BY DEF Setups, Names, Readings

LEMMA Installed ==
  ASSUME setup \in Setups
  PROVE  /\ Install(setup.ambient) \in [Names -> Readings]
         /\ OptionKept(Install(setup.ambient))
         /\ OwnRun(Install(setup.ambient))
<1>0. PICK v \in {"absent", "ambient"} : setup.ambient = [n \in Names |-> v]
  BY DEF Setups
<1>1. setup.ambient \in [Names -> {"absent", "ambient"}]
  BY <1>0
<1>2. \A n \in Names : Environment(setup.ambient)[n] \in Readings \cup {Untouched}
  BY DEF Names, Readings, Environment
<1>3. Install(setup.ambient) \in [Names -> Readings]
  BY <1>1, <1>2 DEF Install, Readings
<1>4. OptionKept(Install(setup.ambient))
  BY DEF OptionKept, Install, Environment, Names, Owned, Untouched
<1>5. OwnRun(Install(setup.ambient))
  BY <1>1 DEF OwnRun, Kept, Install, Environment, Names, Owned, Untouched
<1>. QED BY <1>3, <1>4, <1>5

LEMMA AssignedType ==
  ASSUME NEW v \in Assignments, NEW e \in [Names -> Readings]
  PROVE  Assign(v, e) \in [Names -> Readings]
BY DEF Assign, Assignments

LEMMA SnapshotType ==
  ASSUME NEW names, NEW e \in [Names -> Readings]
  PROVE  Snapshot(names, e) \in Assignments
BY DEF Snapshot, Assignments

LEMMA OnlyType ==
  ASSUME NEW name, NEW value \in Readings
  PROVE  Only(name, value) \in Assignments
BY DEF Only, Assignments

LEMMA ShorterByOne ==
  ASSUME NEW S, NEW s \in Seq(S), s # <<>>
  PROVE  Len(SubSeq(s, 1, Len(s) - 1)) = Len(s) - 1
<1>1. Len(s) \in Nat /\ Len(s) >= 1
  OBVIOUS
<1>2. PICK n \in Nat : n = Len(s) - 1
  BY <1>1
<1>3. Len(SubSeq(s, 1, n)) = n
  BY <1>1, <1>2
<1>. QED BY <1>2, <1>3

LEMMA Pushed ==
  ASSUME NEW s \in Seq(Overrides), NEW e \in [Names -> Readings], NEW b, NEW r \in Overrides,
         NEW value \in Readings,
         Shape(s), Stacked(s, e, b), r.name \in {"dags_folder", "option"},
         r.name = "dags_folder" => r.refresh, r.orig = Snapshot({r.name}, e)
  PROVE  /\ Shape(Append(s, r))
         /\ Stacked(Append(s, r), Assign(Only(r.name, value), e), b)
<1>. DEFINE t == Append(s, r)
            f == Assign(Only(r.name, value), e)
<1>1. /\ Len(t) = Len(s) + 1 /\ Len(s) \in Nat
      /\ \A i \in 1..Len(s) : t[i] = s[i]
      /\ t[Len(s) + 1] = r
  OBVIOUS
<1>2. /\ r.orig[r.name] = e[r.name] /\ e[r.name] \in Readings
      /\ \A n \in Names \ {r.name} : r.orig[n] = Untouched
  BY DEF Snapshot, Names
<1>3. Shape(t)
  <2>. SUFFICES ASSUME NEW i \in 1..Len(t)
                PROVE  /\ t[i].name \in {"dags_folder", "option"}
                       /\ t[i].name = "dags_folder" => t[i].refresh
                       /\ t[i].orig[t[i].name] \in Readings
                       /\ \A n \in Names \ {t[i].name} : t[i].orig[n] = Untouched
    BY DEF Shape
  <2>1. CASE i \in 1..Len(s)
    BY <2>1, <1>1 DEF Shape
  <2>2. CASE i \notin 1..Len(s)
    <3>1. t[i] = r
      BY <2>2, <1>1
    <3>. QED BY <3>1, <1>2
  <2>. QED BY <2>1, <2>2
<1>4. \A n \in Names : n # r.name => f[n] = e[n]
  BY DEF Assign, Only
<1>. HIDE DEF t, f
<1>5. ASSUME NEW n \in Names, \A i \in 1..Len(t) : t[i].name # n
      PROVE  f[n] = b[n]
  <2>1. n # r.name
    BY <1>1, <1>5
  <2>2. \A i \in 1..Len(s) : s[i].name # n
    BY <1>1, <1>5
  <2>. QED BY <2>1, <2>2, <1>4 DEF Stacked
<1>6. ASSUME NEW n \in Names, NEW i \in 1..Len(t), t[i].name = n,
             \A j \in 1..(i - 1) : t[j].name # n
      PROVE  t[i].orig[n] = b[n]
  <2>1. CASE i <= Len(s)
    <3>1. i \in 1..Len(s) /\ t[i] = s[i]
      BY <2>1, <1>1
    <3>2. \A j \in 1..(i - 1) : s[j].name # n
      BY <3>1, <1>1, <1>6
    <3>. QED BY <3>1, <3>2, <1>6 DEF Stacked
  <2>2. CASE i > Len(s)
    <3>1. i = Len(s) + 1 /\ t[i] = r
      BY <2>2, <1>1
    <3>2. \A j \in 1..Len(s) : s[j].name # n
      BY <3>1, <1>1, <1>6
    <3>3. e[n] = b[n]
      BY <3>2 DEF Stacked
    <3>. QED BY <3>1, <3>3, <1>2, <1>6
  <2>. QED BY <2>1, <2>2, <1>1
<1>. QED BY <1>3, <1>5, <1>6 DEF Stacked, t, f

LEMMA Popped ==
  ASSUME NEW s \in Seq(Overrides), NEW e \in [Names -> Readings], NEW b, s # <<>>,
         Shape(s), Stacked(s, e, b)
  PROVE  LET f == Assign(s[Len(s)].orig, e)
             t == SubSeq(s, 1, Len(s) - 1)
         IN /\ Shape(t) /\ Stacked(t, f, b) /\ t \in Seq(Overrides)
            /\ f \in [Names -> Readings]
            /\ s[Len(s)] \in Overrides
            /\ ~s[Len(s)].refresh => f["dags_folder"] = e["dags_folder"]
<1>. DEFINE r == s[Len(s)]
            f == Assign(r.orig, e)
            t == SubSeq(s, 1, Len(s) - 1)
<1>0. Len(s) \in Nat /\ Len(s) >= 1 /\ Len(s) \in 1..Len(s)
  OBVIOUS
<1>a. r \in Overrides
  BY <1>0
<1>1. /\ Len(s) \in Nat /\ Len(s) >= 1 /\ Len(t) = Len(s) - 1
      /\ \A i \in 1..Len(t) : t[i] = s[i]
      /\ t \in Seq(Overrides) /\ r \in Overrides
  <2>1. Len(t) = Len(s) - 1
    BY <1>0, ShorterByOne
  <2>2. \A i \in 1..Len(t) : t[i] = s[i]
    BY <1>0
  <2>3. t \in Seq(Overrides)
    BY <1>0
  <2>. QED BY <2>1, <2>2, <2>3, <1>0, <1>a
<1>2. f \in [Names -> Readings]
  BY <1>1, AssignedType DEF Overrides
<1>3. Shape(t)
  BY <1>1 DEF Shape
<1>4. /\ r.name \in {"dags_folder", "option"} /\ (r.name = "dags_folder" => r.refresh)
      /\ r.orig[r.name] \in Readings
      /\ \A n \in Names \ {r.name} : r.orig[n] = Untouched
  BY <1>1 DEF Shape
<1>5. /\ \A n \in Names \ {r.name} : f[n] = e[n]
      /\ f[r.name] = r.orig[r.name]
  BY <1>4 DEF Assign, Names, Readings, Untouched
<1>6. ~r.refresh => f["dags_folder"] = e["dags_folder"]
  BY <1>4, <1>5 DEF Names
<1>. HIDE DEF t, f
<1>7. ASSUME NEW n \in Names, \A i \in 1..Len(t) : t[i].name # n
      PROVE  f[n] = b[n]
  <2>0. \A i \in 1..(Len(s) - 1) : s[i].name # n
    BY <1>1, <1>7
  <2>1. CASE n = r.name
    <3>1. r.orig[n] = b[n]
      BY <2>0, <2>1, <1>0 DEF Stacked
    <3>. QED BY <3>1, <2>1, <1>5
  <2>2. CASE n # r.name
    <3>1. \A i \in 1..Len(s) : s[i].name # n
      BY <2>0, <2>2, <1>1
    <3>. QED BY <3>1, <2>2, <1>5 DEF Stacked
  <2>. QED BY <2>1, <2>2
<1>8. ASSUME NEW n \in Names, NEW i \in 1..Len(t), t[i].name = n,
             \A j \in 1..(i - 1) : t[j].name # n
      PROVE  t[i].orig[n] = b[n]
  <2>1. i \in 1..Len(s) /\ t[i] = s[i]
    BY <1>1
  <2>2. \A j \in 1..(i - 1) : j \in 1..Len(t)
    BY <1>1
  <2>3. \A j \in 1..(i - 1) : s[j].name # n
    BY <2>2, <1>1, <1>8
  <2>. QED BY <2>1, <2>3, <1>8 DEF Stacked
<1>. QED BY <1>1, <1>2, <1>3, <1>6, <1>7, <1>8 DEF Stacked, t, f

LEMMA EnvironmentStarts == EnvironmentInit => EnvironmentInv
<1>. SUFFICES ASSUME EnvironmentInit PROVE EnvironmentInv
  OBVIOUS
<1>1. setup \in Setups /\ setup.ambient \in [Names -> Readings]
  BY TypedSetup DEF EnvironmentInit
<1>2. EnvironmentTypeOK
  BY <1>1 DEF EnvironmentInit, EnvironmentTypeOK, Processes, Readings
<1>3. ControllerInv
  BY DEF EnvironmentInit, ControllerInv, Processes
<1>4. ChildInv
  BY DEF EnvironmentInit, ChildInv, ChildOf, Processes
<1>5. StackInv
  BY DEF EnvironmentInit, StackInv, StackOf, Processes, Shape, InSession
<1>6. EnvRestored
  BY DEF EnvironmentInit, EnvRestored, Processes
<1>. QED BY <1>1, <1>2, <1>3, <1>4, <1>5, <1>6 DEF EnvironmentInv

\* What is left alone of a process.
Same(p) ==
  /\ env'[p] = env[p] /\ settings'[p] = settings[p] /\ pc'[p] = pc[p]
  /\ cleanups'[p] = cleanups[p] /\ overrides'[p] = overrides[p] /\ base'[p] = base[p]
  /\ (p \in stale') <=> (p \in stale)

LEMMA OtherStacks ==
  ASSUME NEW p \in Processes, StackInv, StackOf(p)', \A q \in Processes \ {p} : Same(q)
  PROVE  StackInv'
<1>. SUFFICES ASSUME NEW q \in Processes PROVE StackOf(q)'
  BY DEF StackInv, Processes
<1>1. CASE q = p
  BY <1>1
<1>2. CASE q # p
  <2>1. StackOf(q) /\ Same(q)
    BY <1>2 DEF StackInv
  <2>. QED BY <2>1 DEF StackOf, Same, InSession, Shape, Stacked
<1>. QED BY <1>1, <1>2

LEMMA OtherChildren ==
  ASSUME NEW p \in Processes, ChildInv, UNCHANGED setup, \A q \in Processes \ {p} : Same(q),
         p = ctl /\ pc[ctl] \in {"session", "teardown", "gone"} =>
           pc'[ctl] \in {"session", "teardown", "gone"} /\ base'[ctl] = base[ctl],
         p # ctl => ChildOf(p)'
  PROVE  ChildInv'
<1>. SUFFICES ASSUME NEW c \in Children PROVE ChildOf(c)'
  BY DEF ChildInv
<1>1. CASE c = p
  BY <1>1, ControllerAlone
<1>2. CASE c # p
  <2>1. ChildOf(c) /\ Same(c)
    BY <1>2 DEF ChildInv, Processes
  <2>2. p # ctl => Same(ctl)
    BY DEF Processes
  <2>. QED BY <2>1, <2>2 DEF ChildOf, Same, Kept
<1>. QED BY <1>1, <1>2

LEMMA ControllerAside ==
  ASSUME Same(ctl), UNCHANGED setup, ControllerInv, EnvRestored
  PROVE  ControllerInv' /\ EnvRestored'
<1>1. /\ env'[ctl] = env[ctl] /\ pc'[ctl] = pc[ctl] /\ base'[ctl] = base[ctl]
      /\ cleanups'[ctl] = cleanups[ctl] /\ overrides'[ctl] = overrides[ctl] /\ setup' = setup
  BY DEF Same
<1>a. FirstCleanup(cleanups[ctl])' <=> FirstCleanup(cleanups[ctl])
  BY <1>1 DEF FirstCleanup
<1>b. SecondCleanup(cleanups[ctl])' <=> SecondCleanup(cleanups[ctl])
  BY <1>1 DEF SecondCleanup
<1>c. /\ OptionKept(env[ctl])' <=> OptionKept(env[ctl])
      /\ OptionKept(base[ctl])' <=> OptionKept(base[ctl])
  BY <1>1 DEF OptionKept
<1>d. /\ OwnRun(env[ctl])' <=> OwnRun(env[ctl])
      /\ OwnRun(base[ctl])' <=> OwnRun(base[ctl])
  BY <1>1 DEF OwnRun, Kept, Environment
<1>e. Configured(base[ctl])' <=> Configured(base[ctl])
  BY <1>1, <1>d DEF Configured
<1>f. ControllerInv'
  BY <1>1, <1>a, <1>b, <1>c, <1>d, <1>e DEF ControllerInv
<1>2. EnvRestored'
  BY DEF EnvRestored, Same
<1>. QED BY <1>f, <1>2

LEMMA EnvironmentLocal ==
  ASSUME NEW e, NEW f, NEW n \in Names, e["executor"] = f["executor"]
  PROVE  Environment(e)[n] = Environment(f)[n]
BY DEF Environment

LEMMA OwnRunCarries ==
  ASSUME NEW b, setup' = setup, OwnRun(b), env'[ctl] = b
  PROVE  OwnRun(env[ctl])'
<1>1. Kept' = Kept
  BY DEF Kept
<1>2. \A n \in Kept : Environment(b)[n] \in {Untouched, b[n]}
  BY DEF OwnRun
<1>3. Environment(env[ctl])' = Environment(b)
  BY DEF Environment
<1>. QED BY <1>1, <1>2, <1>3 DEF OwnRun

LEMMA OwnRunCarriesToBase ==
  ASSUME NEW b, setup' = setup, OwnRun(b), base'[ctl] = b
  PROVE  OwnRun(base[ctl])'
<1>1. Kept' = Kept
  BY DEF Kept
<1>2. \A n \in Kept : Environment(b)[n] \in {Untouched, b[n]}
  BY DEF OwnRun
<1>3. Environment(base[ctl])' = Environment(b)
  BY DEF Environment
<1>. QED BY <1>1, <1>2, <1>3 DEF OwnRun

LEMMA Bootstraps == ASSUME EnvironmentInv, Bootstrap PROVE EnvironmentInv'
<1>. USE DEF Bootstrap
<1>1. /\ setup \in Setups /\ setup' = setup /\ ctl \in Processes /\ ctl \notin Children
      /\ EnvironmentTypeOK
  BY ControllerAlone DEF EnvironmentInv, Processes
<1>2. /\ env[ctl] = setup.ambient /\ Len(cleanups[ctl]) = 0
      /\ setup.ambient \in [Names -> Readings]
  BY TypedSetup DEF EnvironmentInv, ControllerInv
<1>3. /\ env' = [env EXCEPT ![ctl] = Install(setup.ambient)]
      /\ cleanups' = [cleanups EXCEPT ![ctl] = Append(@, Original(setup.ambient))]
      /\ pc' = [pc EXCEPT ![ctl] = "configure"]
  BY <1>2
<1>4. /\ Install(setup.ambient) \in [Names -> Readings]
      /\ OptionKept(Install(setup.ambient))
      /\ OwnRun(Install(setup.ambient))
  BY <1>1, Installed
<1>5. Original(setup.ambient) \in Assignments
  BY <1>2, SnapshotType DEF Original
<1>6. cleanups'[ctl] \in Seq(Assignments) /\ Len(cleanups'[ctl]) = 1 /\ cleanups'[ctl][1] = Original(setup.ambient)
  BY <1>1, <1>2, <1>3, <1>5 DEF EnvironmentTypeOK
<1>7. EnvironmentTypeOK'
  BY <1>1, <1>3, <1>4, <1>6 DEF EnvironmentTypeOK
<1>8. FirstCleanup(cleanups[ctl])'
  BY <1>1, <1>6 DEF FirstCleanup, Original, Snapshot, Owned
<1>9. /\ env'[ctl] = Install(setup.ambient) /\ pc'[ctl] = "configure"
      /\ \A c \in Children : /\ env'[c] = env[c] /\ pc'[c] = pc[c] /\ c \in Processes
      /\ UNCHANGED <<setup, settings, overrides, base, stale>>
  BY <1>1, <1>3 DEF EnvironmentTypeOK, Processes
<1>10. OptionKept(env[ctl])' /\ OwnRun(env[ctl])'
  <2>. DEFINE b == Install(setup.ambient)
  <2>1. env'[ctl] = b /\ setup' = setup /\ OptionKept(b) /\ OwnRun(b)
    BY <1>1, <1>4, <1>9
  <2>. HIDE DEF b
  <2>2. OptionKept(env[ctl])'
    BY <2>1 DEF OptionKept
  <2>3. OwnRun(env[ctl])'
    BY <2>1, OwnRunCarries
  <2>. QED BY <2>2, <2>3
<1>11. ControllerInv'
  <2>1. setup.xdist => Len(overrides'[ctl]) = 0
    BY <1>9 DEF EnvironmentInv, ControllerInv
  <2>. QED BY <1>1, <1>6, <1>8, <1>9, <1>10, <2>1 DEF ControllerInv
<1>12. ChildInv'
  BY <1>9 DEF ChildInv, ChildOf, EnvironmentInv
<1>13. StackInv'
  BY <1>9 DEF StackInv, StackOf, EnvironmentInv, Processes, InSession, Shape, Stacked
<1>14. EnvRestored'
  BY <1>9 DEF EnvRestored
<1>. QED BY <1>1, <1>7, <1>11, <1>12, <1>13, <1>14 DEF EnvironmentInv

LEMMA IniApplied ==
  ASSUME EnvironmentInv, NEW p \in Processes, ApplyIni(p)
  PROVE  EnvironmentInv'
<1>1. /\ setup \in Setups /\ setup' = setup /\ EnvironmentTypeOK
      /\ setup.ini \in SUBSET {"executor", "option"} /\ ctl \in Processes
  BY TypedSetup DEF EnvironmentInv, ApplyIni, Processes
<1>. DEFINE ini == [n \in Names |-> IF n \in setup.ini THEN "ini" ELSE env[p][n]]
            undo == Snapshot(setup.ini, env[p])
<1>2. /\ env[p] \in [Names -> Readings] /\ cleanups[p] \in Seq(Assignments)
      /\ ini \in [Names -> Readings] /\ undo \in Assignments
  BY <1>1, SnapshotType DEF EnvironmentTypeOK, Readings
<1>3. /\ pc[p] = "configure" /\ pc'[p] = "conftest"
      /\ env'[p] = ini /\ cleanups'[p] = Append(cleanups[p], undo)
      /\ UNCHANGED <<setup, settings, overrides, base, stale>>
      /\ \A q \in Processes \ {p} : Same(q)
  BY <1>1 DEF ApplyIni, IniOf, EnvironmentTypeOK, Same
<1>4. EnvironmentTypeOK'
  <2>1. Append(cleanups[p], undo) \in Seq(Assignments)
    BY <1>2
  <2>2. /\ env' = [env EXCEPT ![p] = ini] /\ pc' = [pc EXCEPT ![p] = "conftest"]
        /\ cleanups' = [cleanups EXCEPT ![p] = Append(cleanups[p], undo)]
    BY <1>1 DEF ApplyIni, IniOf, EnvironmentTypeOK
  <2>. QED BY <1>1, <1>2, <1>3, <2>1, <2>2 DEF EnvironmentTypeOK
<1>5. /\ \A n \in Names \ setup.ini : ini[n] = env[p][n]
      /\ \A n \in setup.ini : ini[n] = "ini"
      /\ ini["dags_folder"] = env[p]["dags_folder"]
  BY <1>1 DEF Names
<1>6. /\ Len(Append(cleanups[p], undo)) = Len(cleanups[p]) + 1
      /\ \A i \in 1..Len(cleanups[p]) : Append(cleanups[p], undo)[i] = cleanups[p][i]
      /\ Append(cleanups[p], undo)[Len(cleanups[p]) + 1] = undo
  BY <1>2
<1>. HIDE DEF ini
<1>7. StackInv'
  <2>1. StackOf(p)'
    BY <1>3 DEF EnvironmentInv, StackInv, StackOf, InSession, Shape
  <2>. QED BY <2>1, <1>3, OtherStacks DEF EnvironmentInv
<1>8. ChildInv'
  <2>1. p # ctl => ChildOf(p)'
    <3>1. SUFFICES ASSUME p # ctl PROVE ChildOf(p)'
      OBVIOUS
    <3>2. ChildOf(p) /\ Same(ctl)
      BY <3>1, <1>1, <1>3 DEF EnvironmentInv, ChildInv, Processes
    <3>. QED BY <3>2, <1>1, <1>3, <1>5 DEF ChildOf, Kept, Same
  <2>. QED BY <2>1, <1>3, OtherChildren DEF EnvironmentInv
<1>9. CASE p = ctl
  <2>1. /\ Len(cleanups[ctl]) = 1 /\ FirstCleanup(cleanups[ctl])
        /\ OptionKept(env[ctl]) /\ OwnRun(env[ctl])
    BY <1>3, <1>9 DEF EnvironmentInv, ControllerInv
  <2>2. Len(cleanups'[ctl]) = 2 /\ cleanups'[ctl][1] = cleanups[ctl][1] /\ cleanups'[ctl][2] = undo
    <3>1. 1 \in 1..Len(cleanups[ctl])
      BY <2>1
    <3>2. /\ Len(cleanups'[ctl]) = Len(cleanups[ctl]) + 1
          /\ cleanups'[ctl][1] = cleanups[ctl][1]
          /\ cleanups'[ctl][Len(cleanups[ctl]) + 1] = undo
      BY <3>1, <1>3, <1>6, <1>9, Zenon
    <3>3. Len(cleanups[ctl]) + 1 = 2
      BY <2>1
    <3>. QED BY <3>2, <3>3
  <2>3. FirstCleanup(cleanups[ctl])'
    BY <2>1, <2>2, <1>1 DEF FirstCleanup
  <2>4. SecondCleanup(cleanups[ctl])'
    BY <2>1, <2>2, <1>1, <1>9 DEF SecondCleanup, Snapshot, OptionKept, Names
  <2>5. "option" \notin setup.ini => OptionKept(env[ctl])'
    BY <2>1, <1>1, <1>3, <1>5, <1>9 DEF OptionKept, Names
  <2>6. OwnRun(env[ctl])'
    <3>1. \A n \in Kept : Environment(ini)[n] \in {Untouched, ini[n]}
      <4>. SUFFICES ASSUME NEW n \in Kept PROVE Environment(ini)[n] \in {Untouched, ini[n]}
        OBVIOUS
      <4>1. n \in Names /\ n \notin setup.ini
        BY DEF Kept
      <4>2. Environment(env[ctl])[n] \in {Untouched, env[ctl][n]}
        BY <2>1 DEF OwnRun
      <4>3. Environment(ini)[n] = Environment(env[ctl])[n]
        <5>1. CASE n = "executor"
          BY <5>1, <4>1, <1>5, <1>9, EnvironmentLocal
        <5>2. CASE n # "executor"
          BY <5>2, <4>1 DEF Environment
        <5>. QED BY <5>1, <5>2
      <4>. QED BY <4>1, <4>2, <4>3, <1>5, <1>9
    <3>2. OwnRun(ini)
      BY <3>1 DEF OwnRun
    <3>3. env'[ctl] = ini /\ setup' = setup
      BY <1>1, <1>3, <1>9
    <3>. QED BY <3>2, <3>3, OwnRunCarries
  <2>7. \A n \in setup.ini : env'[ctl][n] = "ini"
    BY <1>3, <1>5, <1>9
  <2>8. setup.xdist => Len(overrides[ctl]) = 0
    BY DEF EnvironmentInv, ControllerInv
  <2>9. ControllerInv'
    BY <1>3, <1>9, <2>2, <2>3, <2>4, <2>5, <2>6, <2>7, <2>8 DEF ControllerInv
  <2>10. EnvRestored'
    BY <1>3, <1>9 DEF EnvRestored
  <2>. QED BY <1>1, <1>4, <1>7, <1>8, <2>9, <2>10 DEF EnvironmentInv
<1>10. CASE p # ctl
  <2>1. ControllerInv' /\ EnvRestored'
    BY <1>10, <1>1, <1>3, ControllerAside DEF EnvironmentInv
  <2>. QED BY <1>1, <1>4, <1>7, <1>8, <2>1 DEF EnvironmentInv
<1>. QED BY <1>9, <1>10

LEMMA ConftestImported ==
  ASSUME EnvironmentInv, NEW p \in Processes, Conftest(p)
  PROVE  EnvironmentInv'
<1>1. /\ setup \in Setups /\ setup' = setup /\ EnvironmentTypeOK /\ ctl \in Processes
      /\ setup.ini \in SUBSET {"executor", "option"} /\ setup.conftest \in Names \cup {"none"}
  BY TypedSetup DEF EnvironmentInv, Conftest, Processes
<1>. DEFINE after == Assign(Only(setup.conftest, "drift"), env[p])
<1>2. env[p] \in [Names -> Readings] /\ after \in [Names -> Readings]
  BY <1>1, AssignedType, OnlyType DEF EnvironmentTypeOK, Readings
<1>3. /\ pc[p] = "conftest" /\ pc'[p] = "session"
      /\ env'[p] = after /\ base'[p] = after
      /\ UNCHANGED <<setup, settings, cleanups, overrides, stale>>
      /\ \A q \in Processes \ {p} : Same(q)
  BY <1>1 DEF Conftest, EnvironmentTypeOK, Same
<1>4. EnvironmentTypeOK'
  <2>2. /\ env' = [env EXCEPT ![p] = after] /\ pc' = [pc EXCEPT ![p] = "session"]
        /\ base' = [base EXCEPT ![p] = after]
    BY <1>1 DEF Conftest, EnvironmentTypeOK
  <2>. QED BY <1>1, <1>2, <1>3, <2>2 DEF EnvironmentTypeOK
<1>5. /\ \A n \in Names \ {setup.conftest} : after[n] = env[p][n]
      /\ \A n \in Names : n = setup.conftest => after[n] = "drift"
  BY DEF Assign, Only, Untouched
<1>. HIDE DEF after
<1>6. StackOf(p) /\ Len(overrides[p]) = 0 /\ settings[p] = "unimported"
  BY <1>3 DEF EnvironmentInv, StackInv, StackOf
<1>7. StackInv'
  <2>1. Stacked(overrides[p], env[p], base[p])'
    BY <1>3, <1>6 DEF Stacked
  <2>2. StackOf(p)'
    BY <1>3, <1>6, <2>1 DEF StackOf, InSession, Shape
  <2>. QED BY <2>2, <1>3, OtherStacks DEF EnvironmentInv
<1>8. ChildInv'
  <2>1. p # ctl => ChildOf(p)'
    <3>1. SUFFICES ASSUME p # ctl PROVE ChildOf(p)'
      OBVIOUS
    <3>2. ChildOf(p) /\ Same(ctl)
      BY <3>1, <1>1, <1>3 DEF EnvironmentInv, ChildInv, Processes
    <3>3. after["dags_folder"] = IF setup.conftest = "dags_folder" THEN "drift" ELSE "run"
      BY <3>2, <1>3, <1>5 DEF ChildOf, Names
    <3>4. setup.xdist => after = base[ctl]
      <4>1. SUFFICES ASSUME setup.xdist PROVE \A n \in Names : after[n] = base[ctl][n]
        BY <1>1, <1>2 DEF EnvironmentTypeOK
      <4>2. Configured(base[ctl])
        BY <3>2, <1>3 DEF ChildOf, EnvironmentInv, ControllerInv
      <4>3. TAKE n \in Names
      <4>4. CASE n = setup.conftest
        BY <4>2, <4>4, <1>5 DEF Configured
      <4>5. CASE n # setup.conftest /\ n \in setup.ini
        BY <4>1, <4>2, <4>5, <3>2, <1>3, <1>5 DEF Configured, ChildOf
      <4>6. CASE n # setup.conftest /\ n \notin setup.ini
        BY <4>1, <4>6, <3>2, <1>3, <1>5 DEF ChildOf, Kept
      <4>. QED BY <4>4, <4>5, <4>6
    <3>. QED BY <3>2, <3>3, <3>4, <1>1, <1>3 DEF ChildOf, Same
  <2>. QED BY <2>1, <1>3, OtherChildren DEF EnvironmentInv
<1>9. CASE p = ctl
  <2>1. /\ Len(cleanups[ctl]) = 2 /\ FirstCleanup(cleanups[ctl]) /\ SecondCleanup(cleanups[ctl])
        /\ "option" \notin setup.ini => OptionKept(env[ctl])
        /\ OwnRun(env[ctl])
        /\ \A n \in setup.ini : env[ctl][n] = "ini"
        /\ setup.xdist => Len(overrides[ctl]) = 0
    BY <1>3, <1>9 DEF EnvironmentInv, ControllerInv
  <2>2. FirstCleanup(cleanups[ctl])' /\ SecondCleanup(cleanups[ctl])'
    BY <2>1, <1>3 DEF FirstCleanup, SecondCleanup
  <2>3. "option" \notin setup.ini \cup {setup.conftest} => OptionKept(base[ctl])'
    BY <2>1, <1>3, <1>5, <1>9 DEF OptionKept, Names
  <2>4. \A n \in Kept : Environment(after)[n] \in {Untouched, after[n]}
    <3>. SUFFICES ASSUME NEW n \in Kept PROVE Environment(after)[n] \in {Untouched, after[n]}
      OBVIOUS
    <3>1. n \in Names /\ n # setup.conftest
      BY DEF Kept
    <3>2. Environment(env[ctl])[n] \in {Untouched, env[ctl][n]}
      BY <2>1 DEF OwnRun
    <3>3. Environment(after)[n] = Environment(env[ctl])[n]
      <4>1. CASE n = "executor"
        BY <4>1, <3>1, <1>5, <1>9, EnvironmentLocal
      <4>2. CASE n # "executor"
        BY <4>2, <3>1 DEF Environment
      <4>. QED BY <4>1, <4>2
    <3>. QED BY <3>1, <3>2, <3>3, <1>5, <1>9
  <2>5. OwnRun(base[ctl])'
    <3>1. OwnRun(after)
      BY <2>4 DEF OwnRun
    <3>2. base'[ctl] = after /\ setup' = setup
      BY <1>1, <1>3, <1>9
    <3>. QED BY <3>1, <3>2, OwnRunCarriesToBase
  <2>6. Configured(base[ctl])'
    <3>1. \A n \in setup.ini \ {setup.conftest} : after[n] = "ini"
      BY <2>1, <1>1, <1>5, <1>9 DEF Names
    <3>. QED BY <2>5, <3>1, <1>3, <1>5, <1>9 DEF Configured
  <2>7. ControllerInv'
    BY <1>3, <1>9, <2>1, <2>2, <2>3, <2>6 DEF ControllerInv
  <2>8. EnvRestored'
    BY <1>3, <1>9 DEF EnvRestored
  <2>. QED BY <1>1, <1>4, <1>7, <1>8, <2>7, <2>8 DEF EnvironmentInv
<1>10. CASE p # ctl
  <2>1. ControllerInv' /\ EnvRestored'
    BY <1>10, <1>1, <1>3, ControllerAside DEF EnvironmentInv
  <2>. QED BY <1>1, <1>4, <1>7, <1>8, <2>1 DEF EnvironmentInv
<1>. QED BY <1>9, <1>10

LEMMA SpawnStep ==
  ASSUME EnvironmentInv, NEW c \in Children, Spawn(c)
  PROVE  EnvironmentInv'
<1>1. /\ setup \in Setups /\ setup' = setup /\ EnvironmentTypeOK /\ ctl \in Processes
      /\ c \in Processes /\ c # ctl
  BY ControllerAlone DEF EnvironmentInv, Spawn, Processes
<1>2. /\ pc[c] = "start" /\ pc'[c] = "inherited" /\ pc[ctl] = "session" /\ env'[c] = env[ctl]
      /\ UNCHANGED <<setup, settings, cleanups, overrides, base, stale>>
      /\ \A q \in Processes \ {c} : Same(q)
  BY <1>1 DEF Spawn, EnvironmentTypeOK, Same
<1>3. EnvironmentTypeOK'
  BY <1>1 DEF EnvironmentTypeOK, Spawn
<1>4. StackInv'
  <2>1. StackOf(c)'
    BY <1>1, <1>2 DEF EnvironmentInv, StackInv, StackOf, InSession, Shape
  <2>. QED BY <2>1, <1>1, <1>2, OtherStacks DEF EnvironmentInv
<1>5. ControllerInv' /\ EnvRestored'
  BY <1>1, <1>2, ControllerAside DEF EnvironmentInv
<1>6. setup.xdist => env[ctl] = base[ctl]
  <2>. SUFFICES ASSUME setup.xdist PROVE \A n \in Names : env[ctl][n] = base[ctl][n]
    BY <1>1 DEF EnvironmentTypeOK
  <2>1. Len(overrides[ctl]) = 0 /\ Stacked(overrides[ctl], env[ctl], base[ctl])
    BY <1>1, <1>2 DEF EnvironmentInv, ControllerInv, StackInv, StackOf, InSession
  <2>. QED BY <2>1 DEF Stacked
<1>7. ChildOf(c)'
  BY <1>1, <1>2, <1>6 DEF ChildOf, Same
<1>8. ChildInv'
  BY <1>1, <1>2, <1>7, OtherChildren DEF EnvironmentInv
<1>. QED BY <1>1, <1>3, <1>4, <1>5, <1>8 DEF EnvironmentInv

LEMMA LoadStep ==
  ASSUME EnvironmentInv, NEW c \in Children, LoadInitialState(c)
  PROVE  EnvironmentInv'
<1>1. /\ setup \in Setups /\ setup' = setup /\ EnvironmentTypeOK /\ ctl \in Processes
      /\ c \in Processes /\ c # ctl
  BY ControllerAlone DEF EnvironmentInv, LoadInitialState, Processes
<1>2. env[c] \in [Names -> Readings] /\ Environment(env[c]) \in Assignments
  BY <1>1 DEF EnvironmentTypeOK, Environment, Assignments, Names, Readings
<1>3. /\ pc[c] = "inherited" /\ pc'[c] \in {"refused", "configure"}
      /\ pc' = [pc EXCEPT ![c] = pc'[c]] /\ env' = [env EXCEPT ![c] = env'[c]]
      /\ pc'[c] = "configure" =>
           env'[c] = IF Mismatched(env[c]) = {} THEN env[c] ELSE Assign(Environment(env[c]), env[c])
      /\ env'[c] \in [Names -> Readings]
      /\ UNCHANGED <<setup, settings, cleanups, overrides, base, stale>>
  BY <1>1, <1>2, AssignedType DEF LoadInitialState, EnvironmentTypeOK
<1>4. \A q \in Processes \ {c} : Same(q)
  BY <1>1, <1>3 DEF EnvironmentTypeOK, Same
<1>5. EnvironmentTypeOK'
  <2>. DEFINE v == env'[c]
              k == pc'[c]
  <2>1. /\ k \in {"refused", "configure"} /\ v \in [Names -> Readings]
        /\ pc' = [pc EXCEPT ![c] = k] /\ env' = [env EXCEPT ![c] = v]
    BY <1>3
  <2>. HIDE DEF v, k
  <2>. QED BY <2>1, <1>1, <1>3 DEF EnvironmentTypeOK
<1>6. StackInv'
  <2>1. StackOf(c)'
    BY <1>1, <1>3 DEF EnvironmentInv, StackInv, StackOf, InSession, Shape
  <2>. QED BY <2>1, <1>1, <1>4, OtherStacks DEF EnvironmentInv
<1>7. ControllerInv' /\ EnvRestored'
  BY <1>1, <1>4, ControllerAside DEF EnvironmentInv
<1>8. ASSUME pc'[c] = "configure" PROVE env'[c]["dags_folder"] = "run"
  <2>1. "dags_folder" \in Names /\ Environment(env[c])["dags_folder"] = "run"
    BY DEF Environment, Names
  <2>2. CASE Mismatched(env[c]) = {}
    BY <2>1, <2>2, <1>3, <1>8 DEF Mismatched, Untouched
  <2>3. CASE Mismatched(env[c]) # {}
    BY <2>1, <2>3, <1>3, <1>8 DEF Assign, Untouched
  <2>. QED BY <2>2, <2>3
<1>9. ChildOf(c) /\ pc[ctl] \in {"session", "teardown", "gone"} /\ Same(ctl)
  BY <1>1, <1>3, <1>4 DEF EnvironmentInv, ChildInv, ChildOf
<1>10. ASSUME pc'[c] = "configure", setup.xdist PROVE \A n \in Kept : env'[c][n] = base[ctl][n]
  <2>1. env[c] = base[ctl] /\ OwnRun(base[ctl])
    BY <1>3, <1>9, <1>10 DEF ChildOf, EnvironmentInv, ControllerInv, Configured
  <2>2. TAKE n \in Kept
  <2>3. n \in Names /\ Environment(env[c])[n] \in {Untouched, env[c][n]}
    BY <2>1 DEF OwnRun, Kept
  <2>. QED BY <2>1, <2>3, <1>3, <1>10 DEF Assign
<1>11. ChildOf(c)'
  BY <1>1, <1>3, <1>8, <1>9, <1>10 DEF ChildOf, Same, Kept
<1>12. ChildInv'
  BY <1>1, <1>4, <1>11, OtherChildren DEF EnvironmentInv
<1>. QED BY <1>1, <1>5, <1>6, <1>7, <1>12 DEF EnvironmentInv

\* A step that tests take changes nothing but the environment, the settings and the
\* scopes of their process.
LEMMA InTests ==
  ASSUME EnvironmentInv, NEW p \in Processes, UNCHANGED <<setup, pc, cleanups, base>>,
         pc[p] \in {"session", "teardown"}, p = ctl => InSession(ctl) /\ ~setup.xdist,
         \A q \in Processes \ {p} : Same(q), EnvironmentTypeOK', StackOf(p)'
  PROVE  EnvironmentInv'
<1>1. StackInv'
  BY OtherStacks DEF EnvironmentInv
<1>2. ChildInv'
  <2>1. p # ctl => ChildOf(p)'
    BY DEF EnvironmentInv, ChildInv, ChildOf, Processes
  <2>. QED BY <2>1, OtherChildren DEF EnvironmentInv
<1>3. ControllerInv' /\ EnvRestored'
  <2>1. CASE p = ctl
    <3>1. /\ pc'[ctl] = pc[ctl] /\ base'[ctl] = base[ctl] /\ cleanups'[ctl] = cleanups[ctl] /\ setup' = setup
      OBVIOUS
    <3>2. FirstCleanup(cleanups[ctl])' <=> FirstCleanup(cleanups[ctl])
      BY <3>1 DEF FirstCleanup
    <3>3. SecondCleanup(cleanups[ctl])' <=> SecondCleanup(cleanups[ctl])
      BY <3>1 DEF SecondCleanup
    <3>4. OptionKept(base[ctl])' <=> OptionKept(base[ctl])
      BY <3>1 DEF OptionKept
    <3>5. Configured(base[ctl])' <=> Configured(base[ctl])
      BY <3>1 DEF Configured, OwnRun, Kept, Environment
    <3>6. ~setup.xdist /\ InSession(ctl) /\ pc[ctl] \in {"session", "teardown"}
      BY <2>1
    <3>7. Len(cleanups[ctl]) = 2
      BY <3>6 DEF InSession, EnvironmentInv, ControllerInv
    <3>8. ControllerInv'
      BY <3>1, <3>2, <3>3, <3>4, <3>5, <3>6, <3>7 DEF ControllerInv, EnvironmentInv
    <3>9. EnvRestored'
      BY <3>1, <3>6 DEF EnvRestored
    <3>. QED BY <3>8, <3>9
  <2>2. CASE p # ctl
    BY <2>2, ControllerAside DEF EnvironmentInv, Processes
  <2>. QED BY <2>1, <2>2
<1>. QED BY <1>1, <1>2, <1>3 DEF EnvironmentInv

LEMMA ImportStep ==
  ASSUME EnvironmentInv, NEW p \in Processes, ImportAirflow(p)
  PROVE  EnvironmentInv'
<1>1. EnvironmentTypeOK /\ pc[p] = "session" /\ StackOf(p) /\ (p = ctl => ~setup.xdist)
  BY DEF EnvironmentInv, ImportAirflow, RunsTests, StackInv
<1>2. /\ settings' = [settings EXCEPT ![p] = env[p]["dags_folder"]]
      /\ UNCHANGED <<setup, env, pc, cleanups, overrides, base, stale>>
  BY DEF ImportAirflow
<1>3. env[p]["dags_folder"] \in Readings
  BY <1>1 DEF EnvironmentTypeOK, Names
<1>4. EnvironmentTypeOK'
  BY <1>1, <1>2, <1>3 DEF EnvironmentTypeOK
<1>5. \A q \in Processes \ {p} : Same(q)
  BY <1>1, <1>2 DEF Same, EnvironmentTypeOK
<1>6. StackOf(p)'
  BY <1>1, <1>2 DEF StackOf, InSession, Shape, Stacked, EnvironmentTypeOK
<1>. QED BY <1>1, <1>2, <1>4, <1>5, <1>6, InTests DEF InSession

LEMMA EnterStep ==
  ASSUME EnvironmentInv, NEW p \in Processes, NEW name \in {"dags_folder", "option"},
         NEW value \in Readings, NEW refresh \in BOOLEAN, NEW in_session \in BOOLEAN,
         Enter(p, name, value, refresh, in_session)
  PROVE  EnvironmentInv'
<1>. DEFINE entry == [orig |-> Snapshot({name}, env[p]), name |-> name, refresh |-> refresh,
                      session |-> in_session]
            after == Assign(Only(name, value), env[p])
<1>1. /\ EnvironmentTypeOK /\ pc[p] = "session" /\ StackOf(p) /\ (p = ctl => ~setup.xdist)
      /\ name = "dags_folder" => refresh
  BY DEF EnvironmentInv, Enter, MayOpen, RunsTests, StackInv
<1>2. /\ env[p] \in [Names -> Readings] /\ overrides[p] \in Seq(Overrides)
      /\ after \in [Names -> Readings] /\ entry \in Overrides /\ after["dags_folder"] \in Readings
  <2>1. env[p] \in [Names -> Readings] /\ overrides[p] \in Seq(Overrides)
    BY <1>1 DEF EnvironmentTypeOK
  <2>2. after \in [Names -> Readings]
    BY <2>1, AssignedType, OnlyType
  <2>3. entry \in Overrides
    BY <2>1, SnapshotType DEF Overrides, Names
  <2>. QED BY <2>1, <2>2, <2>3 DEF Names
<1>3. /\ env' = [env EXCEPT ![p] = after] /\ overrides' = [overrides EXCEPT ![p] = Append(overrides[p], entry)]
      /\ UNCHANGED <<setup, pc, cleanups, base>>
      /\ \/ refresh /\ settings' = [settings EXCEPT ![p] = after["dags_folder"]] /\ stale' = stale \ {p}
         \/ ~refresh /\ UNCHANGED <<settings, stale>>
  BY <1>1 DEF Enter, EnvironmentTypeOK
<1>4. /\ env'[p] = after /\ overrides'[p] = Append(overrides[p], entry)
      /\ overrides'[p] \in Seq(Overrides)
  BY <1>1, <1>2, <1>3 DEF EnvironmentTypeOK
<1>5. EnvironmentTypeOK'
  BY <1>1, <1>2, <1>3, <1>4 DEF EnvironmentTypeOK
<1>6. \A q \in Processes \ {p} : Same(q)
  BY <1>1, <1>3 DEF Same, EnvironmentTypeOK
<1>7. Shape(overrides'[p]) /\ Stacked(overrides'[p], env'[p], base[p])
  <2>1. Shape(overrides[p]) /\ Stacked(overrides[p], env[p], base[p])
    BY <1>1 DEF StackOf, InSession
  <2>2. /\ entry.name = name /\ entry.refresh = refresh /\ entry.orig = Snapshot({name}, env[p])
    OBVIOUS
  <2>. HIDE DEF entry
  <2>3. entry.name \in {"dags_folder", "option"} /\ (entry.name = "dags_folder" => entry.refresh)
        /\ entry.orig = Snapshot({entry.name}, env[p])
    BY <2>2, <1>1
  <2>4. after = Assign(Only(entry.name, value), env[p])
    BY <2>2
  <2>. QED BY <2>1, <2>3, <2>4, <1>2, <1>4, Pushed
<1>8. settings'[p] \in {"unimported", env'[p]["dags_folder"]} \/ p \in stale'
  <2>1. CASE refresh
    BY <2>1, <1>1, <1>3, <1>4 DEF EnvironmentTypeOK
  <2>2. CASE ~refresh
    <3>1. after["dags_folder"] = env[p]["dags_folder"]
      BY <2>2, <1>1 DEF Assign, Only, Names, Untouched
    <3>. QED BY <3>1, <2>2, <1>1, <1>3, <1>4 DEF StackOf
  <2>. QED BY <2>1, <2>2
<1>9. StackOf(p)'
  <2>1. Shape(overrides[p])'
    BY <1>7 DEF Shape
  <2>2. Stacked(overrides[p], env[p], base[p])'
    <3>1. base'[p] = base[p]
      BY <1>3
    <3>2. Stacked(overrides'[p], env'[p], base'[p])
      BY <3>1, <1>7
    <3>. QED BY <3>2
  <2>. QED BY <2>1, <2>2, <1>1, <1>3, <1>8 DEF StackOf
<1>. QED BY <1>1, <1>3, <1>5, <1>6, <1>9, InTests DEF InSession

LEMMA RefreshLeaves ==
  ASSUME EnvironmentTypeOK, NEW p \in Processes, NEW refresh \in BOOLEAN,
         NEW before, NEW after, after["dags_folder"] \in Readings,
         LeavingRefresh(p, refresh, before, after)
  PROVE  /\ settings' \in [Processes -> Readings \cup {"unimported"}]
         /\ stale' \subseteq Processes
         /\ \A q \in Processes \ {p} : settings'[q] = settings[q] /\ ((q \in stale') <=> (q \in stale))
         /\ refresh => settings'[p] = after["dags_folder"] \/ p \in stale'
         /\ ~refresh => settings'[p] = settings[p] /\ ((p \in stale') <=> (p \in stale))
BY DEF EnvironmentTypeOK, LeavingRefresh, DerivedSetting

LEMMA EnterRaisesStep ==
  ASSUME EnvironmentInv, NEW p \in Processes, NEW name \in {"dags_folder", "option"},
         NEW value \in Readings, EnterRaises(p, name, value)
  PROVE  EnvironmentInv'
<1>. DEFINE assigned == Assign(Only(name, value), env[p])
            restored == Assign(Snapshot({name}, env[p]), assigned)
<1>1. /\ EnvironmentTypeOK /\ pc[p] = "session" /\ StackOf(p) /\ (p = ctl => ~setup.xdist)
  BY DEF EnvironmentInv, EnterRaises, MayOpen, RunsTests, StackInv
<1>2. /\ env[p] \in [Names -> Readings] /\ env[p]["dags_folder"] \in Readings
  BY <1>1 DEF EnvironmentTypeOK, Names
<1>3. restored = env[p]
  <2>1. \A n \in Names : env[p][n] \in Readings /\ env[p][n] # Untouched
    BY <1>2 DEF Readings, Untouched
  <2>2. \A n \in Names : restored[n] = env[p][n]
    BY <2>1 DEF Assign, Only, Snapshot
  <2>. QED BY <2>2, <1>2 DEF Assign
<1>4. /\ env' = [env EXCEPT ![p] = restored]
      /\ LeavingRefresh(p, TRUE, assigned, restored)
      /\ UNCHANGED <<setup, pc, cleanups, overrides, base>>
  BY DEF EnterRaises
<1>. HIDE DEF assigned, restored
<1>5. /\ env' = env
      /\ LeavingRefresh(p, TRUE, assigned, env[p])
      /\ UNCHANGED <<setup, pc, cleanups, overrides, base>>
  BY <1>1, <1>3, <1>4 DEF EnvironmentTypeOK
<1>6. /\ settings' \in [Processes -> Readings \cup {"unimported"}]
      /\ stale' \subseteq Processes
      /\ \A q \in Processes \ {p} : settings'[q] = settings[q] /\ ((q \in stale') <=> (q \in stale))
      /\ settings'[p] = env[p]["dags_folder"] \/ p \in stale'
  BY <1>1, <1>2, <1>5, RefreshLeaves
<1>7. EnvironmentTypeOK'
  BY <1>1, <1>5, <1>6 DEF EnvironmentTypeOK
<1>8. \A q \in Processes \ {p} : Same(q)
  BY <1>5, <1>6 DEF Same
<1>9. StackOf(p)'
  <2>1. Shape(overrides[p])' <=> Shape(overrides[p])
    BY <1>5 DEF Shape
  <2>2. Stacked(overrides[p], env[p], base[p])' <=> Stacked(overrides[p], env[p], base[p])
    BY <1>5 DEF Stacked
  <2>3. InSession(p)
    BY <1>1 DEF InSession
  <2>. QED BY <2>1, <2>2, <2>3, <1>1, <1>5, <1>6 DEF StackOf
<1>. QED BY <1>1, <1>5, <1>7, <1>8, <1>9, InTests DEF InSession

LEMMA ExitStep ==
  ASSUME EnvironmentInv, NEW p \in Processes, Exit(p)
  PROVE  EnvironmentInv'
<1>. DEFINE last == overrides[p][Len(overrides[p])]
            restored == Assign(last.orig, env[p])
            rest == SubSeq(overrides[p], 1, Len(overrides[p]) - 1)
<1>1. /\ EnvironmentTypeOK /\ StackOf(p) /\ overrides[p] # <<>> /\ pc[p] \in {"session", "teardown"}
      /\ env[p] \in [Names -> Readings] /\ overrides[p] \in Seq(Overrides)
  BY DEF EnvironmentInv, Exit, StackInv, EnvironmentTypeOK
<1>2. Len(overrides[p]) \in Nat /\ Len(overrides[p]) # 0
  BY <1>1
<1>3. p = ctl => InSession(ctl) /\ ~setup.xdist
  BY <1>1, <1>2 DEF EnvironmentInv, ControllerInv, InSession
<1>4. /\ env' = [env EXCEPT ![p] = restored]
      /\ LeavingRefresh(p, last.refresh, env[p], restored)
      /\ overrides' = [overrides EXCEPT ![p] = rest]
      /\ UNCHANGED <<setup, pc, cleanups, base>>
  BY DEF Exit
<1>5. last \in Overrides /\ last.refresh \in BOOLEAN /\ last.orig \in Assignments
  <2>1. last \in Overrides
    BY <1>1, <1>2
  <2>. QED BY <2>1 DEF Overrides
<1>6. restored \in [Names -> Readings] /\ restored["dags_folder"] \in Readings
  BY <1>1, <1>5, AssignedType DEF Names
<1>7. rest \in Seq(Overrides)
  BY <1>1, <1>2
<1>8. InSession(p) => Shape(rest) /\ Stacked(rest, restored, base[p])
  BY <1>1, Popped DEF StackOf
<1>9. Shape(rest)
  <2>1. Len(rest) = Len(overrides[p]) - 1
    BY <1>1, ShorterByOne
  <2>2. \A i \in 1..Len(rest) : rest[i] = overrides[p][i] /\ i \in 1..Len(overrides[p])
    BY <1>2, <2>1
  <2>. QED BY <1>1, <2>2 DEF Shape, StackOf
<1>10. ~last.refresh => restored["dags_folder"] = env[p]["dags_folder"]
  <2>1. Len(overrides[p]) \in 1..Len(overrides[p])
    BY <1>2
  <2>2. ~last.refresh => last.name = "option" /\ last.orig["dags_folder"] = Untouched
    BY <1>1, <2>1 DEF StackOf, Shape, Names
  <2>. QED BY <2>2 DEF Assign, Names
<1>. HIDE DEF last, restored, rest
<1>11. /\ settings' \in [Processes -> Readings \cup {"unimported"}]
       /\ stale' \subseteq Processes
       /\ \A q \in Processes \ {p} : settings'[q] = settings[q] /\ ((q \in stale') <=> (q \in stale))
       /\ last.refresh => settings'[p] = restored["dags_folder"] \/ p \in stale'
       /\ ~last.refresh => settings'[p] = settings[p] /\ ((p \in stale') <=> (p \in stale))
  BY <1>1, <1>4, <1>5, <1>6, RefreshLeaves
<1>12. env'[p] = restored /\ overrides'[p] = rest
  BY <1>1, <1>4 DEF EnvironmentTypeOK
<1>13. EnvironmentTypeOK'
  BY <1>1, <1>4, <1>6, <1>7, <1>11 DEF EnvironmentTypeOK
<1>14. \A q \in Processes \ {p} : Same(q)
  BY <1>1, <1>4, <1>11 DEF Same, EnvironmentTypeOK
<1>15. StackOf(p)'
  <2>1. InSession(p)' <=> InSession(p)
    BY <1>4 DEF InSession
  <2>2. Shape(overrides[p])' /\ (InSession(p)' => Stacked(overrides[p], env[p], base[p])')
    BY <2>1, <1>4, <1>8, <1>9, <1>12 DEF Shape, Stacked
  <2>3. pc'[p] = "session" => settings'[p] \in {"unimported", env'[p]["dags_folder"]} \/ p \in stale'
    <3>1. CASE last.refresh
      BY <3>1, <1>11, <1>12
    <3>2. CASE ~last.refresh
      BY <3>2, <1>1, <1>4, <1>10, <1>11, <1>12 DEF StackOf
    <3>. QED BY <3>1, <3>2
  <2>. QED BY <2>2, <2>3, <1>1, <1>4 DEF StackOf
<1>. QED BY <1>1, <1>3, <1>4, <1>13, <1>14, <1>15, InTests

LEMMA EndSessionStep ==
  ASSUME EnvironmentInv, NEW p \in Processes, EndSession(p)
  PROVE  EnvironmentInv'
<1>1. /\ EnvironmentTypeOK /\ pc[p] = "session" /\ pc'[p] = "teardown" /\ StackOf(p)
      /\ setup \in Setups
      /\ UNCHANGED <<setup, env, settings, cleanups, overrides, base, stale>>
      /\ \A q \in Processes \ {p} : Same(q)
  BY DEF EnvironmentInv, EndSession, StackInv, EnvironmentTypeOK, Same
<1>2. EnvironmentTypeOK'
  BY <1>1 DEF EnvironmentTypeOK, EndSession
<1>3. StackInv'
  <2>1. Shape(overrides[p])' /\ Stacked(overrides[p], env[p], base[p])'
    <3>1. Shape(overrides[p]) /\ Stacked(overrides[p], env[p], base[p])
      BY <1>1 DEF StackOf, InSession
    <3>. QED BY <3>1, <1>1
  <2>2. StackOf(p)'
    BY <2>1, <1>1 DEF StackOf
  <2>. QED BY <2>2, <1>1, OtherStacks DEF EnvironmentInv
<1>4. ChildInv'
  <2>1. p # ctl => ChildOf(p)'
    BY <1>1 DEF EnvironmentInv, ChildInv, ChildOf, Processes, Same
  <2>. QED BY <2>1, <1>1, OtherChildren DEF EnvironmentInv
<1>5. ControllerInv' /\ EnvRestored'
  <2>1. CASE p = ctl
    <3>1. /\ base'[ctl] = base[ctl] /\ cleanups'[ctl] = cleanups[ctl] /\ setup' = setup
          /\ overrides'[ctl] = overrides[ctl]
      BY <1>1
    <3>2. FirstCleanup(cleanups[ctl])' <=> FirstCleanup(cleanups[ctl])
      BY <3>1 DEF FirstCleanup
    <3>3. SecondCleanup(cleanups[ctl])' <=> SecondCleanup(cleanups[ctl])
      BY <3>1 DEF SecondCleanup
    <3>4. OptionKept(base[ctl])' <=> OptionKept(base[ctl])
      BY <3>1 DEF OptionKept
    <3>5. Configured(base[ctl])' <=> Configured(base[ctl])
      BY <3>1 DEF Configured, OwnRun, Kept, Environment
    <3>6. ControllerInv'
      BY <2>1, <1>1, <3>1, <3>2, <3>3, <3>4, <3>5 DEF ControllerInv, EnvironmentInv
    <3>7. EnvRestored'
      BY <2>1, <1>1 DEF EnvRestored
    <3>. QED BY <3>6, <3>7
  <2>2. CASE p # ctl
    BY <2>2, <1>1, ControllerAside DEF EnvironmentInv, Processes
  <2>. QED BY <2>1, <2>2
<1>. QED BY <1>1, <1>2, <1>3, <1>4, <1>5 DEF EnvironmentInv

LEMMA UnconfigureStep ==
  ASSUME EnvironmentInv, NEW p \in Processes, Unconfigure(p)
  PROVE  EnvironmentInv'
<1>. DEFINE undo == cleanups[p][Len(cleanups[p])]
            rest == SubSeq(cleanups[p], 1, Len(cleanups[p]) - 1)
            after == Assign(undo, env[p])
<1>1. /\ EnvironmentTypeOK /\ pc[p] = "teardown" /\ StackOf(p) /\ setup \in Setups
      /\ overrides[p] = <<>> /\ cleanups[p] # <<>> /\ ctl \in Processes
      /\ env[p] \in [Names -> Readings] /\ cleanups[p] \in Seq(Assignments)
      /\ UNCHANGED <<setup, settings, overrides, base, stale>>
      /\ setup.ambient \in [Names -> Readings]
  BY TypedSetup DEF EnvironmentInv, Unconfigure, StackInv, EnvironmentTypeOK, Processes
<1>2. Len(cleanups[p]) \in Nat /\ Len(cleanups[p]) >= 1 /\ Len(overrides[p]) = 0
  BY <1>1
<1>3. undo \in Assignments
  BY <1>1, <1>2
<1>4. /\ rest \in Seq(Assignments)
      /\ Len(rest) = Len(cleanups[p]) - 1
      /\ Len(rest) = 1 => rest[1] = cleanups[p][1]
  <2>1. rest \in Seq(Assignments)
    BY <1>1, <1>2
  <2>2. Len(rest) = Len(cleanups[p]) - 1
    BY <1>1, ShorterByOne
  <2>3. \A i \in 1..(Len(cleanups[p]) - 1) : rest[i] = cleanups[p][i]
    BY <1>1, <1>2
  <2>. QED BY <2>1, <2>2, <2>3, <1>2
<1>5. after \in [Names -> Readings]
  BY <1>1, <1>3, AssignedType
<1>6. /\ env' = [env EXCEPT ![p] = after] /\ cleanups' = [cleanups EXCEPT ![p] = rest]
      /\ pc' = [pc EXCEPT ![p] = IF rest = <<>> THEN "gone" ELSE "teardown"]
  BY <1>1 DEF Unconfigure, EnvironmentTypeOK
<1>8. \A n \in Names : after[n] = IF undo[n] = Untouched THEN env[p][n] ELSE undo[n]
  BY DEF Assign
<1>9. undo = cleanups[p][Len(cleanups[p])]
  OBVIOUS
<1>. HIDE DEF undo, rest, after
<1>7. Len(rest) = 0 <=> rest = <<>>
  <2>1. rest \in Seq(Assignments)
    BY <1>4
  <2>. QED BY <2>1
<1>10. /\ env'[p] = after /\ cleanups'[p] = rest
       /\ pc'[p] = IF Len(rest) = 0 THEN "gone" ELSE "teardown"
       /\ \A q \in Processes \ {p} : Same(q)
  BY <1>1, <1>6, <1>7 DEF EnvironmentTypeOK, Same
<1>11. EnvironmentTypeOK'
  <2>1. rest \in Seq(Assignments)
    BY <1>4
  <2>2. /\ env' \in [Processes -> [Names -> Readings]]
        /\ cleanups' \in [Processes -> Seq(Assignments)]
    BY <2>1, <1>1, <1>5, <1>6 DEF EnvironmentTypeOK
  <2>. QED BY <2>2, <1>1, <1>6 DEF EnvironmentTypeOK
<1>12. p = ctl => Len(cleanups[ctl]) \in {1, 2}
  BY <1>1 DEF EnvironmentInv, ControllerInv
<1>13. StackInv'
  <2>1. ~InSession(p)'
    <3>1. pc'[p] # "session"
      BY <1>10
    <3>2. p = ctl => Len(cleanups'[p]) # 2
      <4>1. p = ctl => Len(rest) \in {0, 1}
        BY <1>2, <1>4, <1>12
      <4>. QED BY <4>1, <1>10
    <3>. QED BY <3>1, <3>2 DEF InSession
  <2>2. Shape(overrides[p])'
    <3>1. Shape(overrides[p])
      BY <1>1 DEF StackOf
    <3>. QED BY <3>1, <1>1
  <2>3. StackOf(p)'
    BY <2>1, <2>2, <1>1, <1>2, <1>10 DEF StackOf
  <2>. QED BY <2>3, <1>10, OtherStacks DEF EnvironmentInv
<1>14. ChildInv'
  <2>1. p # ctl => ChildOf(p)'
    BY <1>1, <1>10 DEF EnvironmentInv, ChildInv, ChildOf, Processes, Same
  <2>. QED BY <2>1, <1>1, <1>10, OtherChildren DEF EnvironmentInv
<1>15. CASE p # ctl
  <2>1. ControllerInv' /\ EnvRestored'
    BY <1>15, <1>1, <1>10, ControllerAside DEF EnvironmentInv
  <2>. QED BY <2>1, <1>1, <1>11, <1>13, <1>14 DEF EnvironmentInv
<1>16. ASSUME p = ctl PROVE ControllerInv' /\ EnvRestored'
  <2>1. Configured(base[ctl])' /\ (setup.xdist => Len(overrides[ctl]) = 0)'
    <3>1. Configured(base[ctl]) /\ (setup.xdist => Len(overrides[ctl]) = 0)
      BY <1>1, <1>16 DEF EnvironmentInv, ControllerInv
    <3>. QED BY <3>1, <1>1 DEF Configured, OwnRun, Kept, Environment
  <2>2. ASSUME Len(cleanups[ctl]) = 2 PROVE ControllerInv' /\ EnvRestored'
    <3>1. /\ FirstCleanup(cleanups[ctl]) /\ SecondCleanup(cleanups[ctl])
          /\ "option" \notin setup.ini \cup {setup.conftest} => OptionKept(base[ctl])
      BY <2>2, <1>1, <1>16 DEF EnvironmentInv, ControllerInv
    <3>2. Stacked(overrides[ctl], env[ctl], base[ctl])
      BY <2>2, <1>1, <1>16 DEF StackOf, InSession
    <3>3. env[ctl]["option"] = base[ctl]["option"]
      BY <3>2, <1>2, <1>16 DEF Stacked, Names
    <3>4. setup.ambient["option"] \in Readings /\ setup.ambient["option"] # Untouched
      BY <1>1 DEF Names, Readings, Untouched
    <3>5. undo = cleanups[ctl][2]
      BY <2>2, <1>9, <1>16
    <3>6. after["option"] = IF undo["option"] = Untouched THEN env[ctl]["option"] ELSE undo["option"]
      BY <1>8, <1>16 DEF Names
    <3>7. "option" \in setup.ini \/ "option" # setup.conftest => after["option"] = setup.ambient["option"]
      <4>1. CASE "option" \in setup.ini
        BY <4>1, <3>1, <3>4, <3>5, <3>6 DEF SecondCleanup
      <4>2. CASE "option" \notin setup.ini /\ "option" # setup.conftest
        BY <4>2, <3>1, <3>3, <3>5, <3>6 DEF SecondCleanup, OptionKept, Names
      <4>. QED BY <4>1, <4>2
    <3>8. Len(rest) = 1 /\ rest[1] = cleanups[ctl][1]
      <4>1. Len(rest) = 1
        BY <2>2, <1>4, <1>16
      <4>. QED BY <4>1, <1>4, <1>16
    <3>9. FirstCleanup(cleanups[ctl])'
      BY <3>1, <3>8, <1>1, <1>10, <1>16 DEF FirstCleanup
    <3>10. pc'[ctl] = "teardown" /\ Len(cleanups'[ctl]) = 1 /\ Len(overrides'[ctl]) = 0
      BY <3>8, <1>1, <1>2, <1>10, <1>16
    <3>11. ControllerInv'
      BY <3>7, <3>9, <3>10, <2>1, <1>1, <1>10, <1>16 DEF ControllerInv, OptionKept
    <3>. QED BY <3>10, <3>11 DEF EnvRestored
  <2>3. ASSUME Len(cleanups[ctl]) = 1 PROVE ControllerInv' /\ EnvRestored'
    <3>1. /\ FirstCleanup(cleanups[ctl])
          /\ "option" \in setup.ini \/ "option" # setup.conftest => OptionKept(env[ctl])
      BY <2>3, <1>1, <1>16 DEF EnvironmentInv, ControllerInv
    <3>2. undo = cleanups[ctl][1]
      BY <2>3, <1>9, <1>16
    <3>3. \A n \in Names : setup.ambient[n] \in Readings /\ setup.ambient[n] # Untouched
      BY <1>1 DEF Readings, Untouched
    <3>4. \A n \in Names :
            n \in {"dags_folder", "secret_key", "executor"} => after[n] = setup.ambient[n]
      BY <3>1, <3>2, <3>3, <1>8, <1>16 DEF FirstCleanup
    <3>5. after["option"] = env[ctl]["option"]
      BY <3>1, <3>2, <1>8, <1>16 DEF FirstCleanup, Names
    <3>6. pc'[ctl] = "gone"
      <4>1. Len(rest) = 0
        BY <2>3, <1>4, <1>16
      <4>. QED BY <4>1, <1>10, <1>16
    <3>7. ControllerInv'
      BY <3>6, <2>1 DEF ControllerInv
    <3>8. EnvRestored'
      <4>1. ASSUME NEW n \in Names
            PROVE  \/ after[n] = setup.ambient[n]
                   \/ n = setup.conftest /\ n \notin Owned \cup {"executor"} \cup setup.ini
        <5>1. CASE n = "option"
          BY <5>1, <3>1, <3>5 DEF OptionKept, Owned
        <5>2. CASE n # "option"
          BY <5>2, <3>4 DEF Names
        <5>. QED BY <5>1, <5>2
      <4>. QED BY <4>1, <1>1, <1>10, <1>16 DEF EnvRestored
    <3>. QED BY <3>7, <3>8
  <2>. QED BY <2>2, <2>3, <1>12, <1>16
<1>. QED BY <1>1, <1>11, <1>13, <1>14, <1>15, <1>16 DEF EnvironmentInv

LEMMA EnvironmentStuttered ==
  ASSUME EnvironmentInv, UNCHANGED environmentVars
  PROVE  EnvironmentInv'
<1>. USE DEF environmentVars
<1>1. /\ (setup \in Setups)' /\ EnvironmentTypeOK'
  BY DEF EnvironmentInv, EnvironmentTypeOK
<1>2. \A q \in Processes : Same(q)
  BY DEF Same
<1>3. ctl \in Processes
  BY DEF Processes
<1>4. ControllerInv' /\ EnvRestored'
  BY <1>2, <1>3, ControllerAside DEF EnvironmentInv
<1>5. StackInv'
  <2>1. StackOf(ctl)'
    BY <1>2, <1>3 DEF EnvironmentInv, StackInv, StackOf, Same, InSession, Shape, Stacked
  <2>. QED BY <2>1, <1>2, <1>3, OtherStacks DEF EnvironmentInv
<1>6. ChildInv'
  BY <1>2, <1>3, OtherChildren DEF EnvironmentInv
<1>. QED BY <1>1, <1>4, <1>5, <1>6 DEF EnvironmentInv

\* The strengthening is inductive: each scope undoes the one name it overrides, and what no
\* scope overrides reads as it did when the process entered its session.
THEOREM EnvironmentInvariant == EnvironmentSpec => []EnvironmentInv
<1>1. EnvironmentInit => EnvironmentInv
  BY EnvironmentStarts
<1>2. EnvironmentInv /\ [EnvironmentNext]_environmentVars => EnvironmentInv'
  <2>. SUFFICES ASSUME EnvironmentInv, [EnvironmentNext]_environmentVars PROVE EnvironmentInv'
    OBVIOUS
  <2>1. CASE Bootstrap
    BY <2>1, Bootstraps
  <2>2. ASSUME NEW c \in Children, Spawn(c) \/ LoadInitialState(c) PROVE EnvironmentInv'
    BY <2>2, SpawnStep, LoadStep
  <2>3. ASSUME NEW p \in Processes,
               ApplyIni(p) \/ Conftest(p) \/ ImportAirflow(p) \/ Exit(p) \/ EndSession(p) \/ Unconfigure(p)
        PROVE  EnvironmentInv'
    BY <2>3, IniApplied, ConftestImported, ImportStep, ExitStep, EndSessionStep, UnconfigureStep
  <2>4. "override" \in Readings /\ "absent" \in Readings
    BY DEF Readings
  <2>5. ASSUME NEW p \in Processes,
               EnterRaises(p, "dags_folder", "override") \/ EnterRaises(p, "option", "absent")
        PROVE  EnvironmentInv'
    BY <2>4, <2>5, EnterRaisesStep
  <2>6. ASSUME NEW p \in Processes, NEW refresh \in BOOLEAN, NEW in_session \in BOOLEAN,
               \/ Enter(p, "dags_folder", "override", refresh, in_session)
               \/ Enter(p, "option", "absent", refresh, in_session)
        PROVE  EnvironmentInv'
    BY <2>4, <2>6, EnterStep
  <2>7. CASE EnvironmentEnded \/ UNCHANGED environmentVars
    BY <2>7, EnvironmentStuttered DEF EnvironmentEnded
  <2>. QED BY <2>1, <2>2, <2>3, <2>5, <2>6, <2>7 DEF EnvironmentNext
<1>. QED BY <1>1, <1>2, PTL DEF EnvironmentSpec

\* When an invocation is over the caller's environment is what it was, and between scopes a
\* process has the environment it entered its session with (airflow_config, config.add_cleanup).
THEOREM EnvironmentGivenBack == EnvironmentSpec => []EnvironmentSound
<1>1. EnvironmentInv => EnvironmentSound
  <2>. SUFFICES ASSUME EnvironmentInv PROVE QuietIsClean
    BY DEF EnvironmentInv, EnvironmentSound
  <2>1. ASSUME NEW p \in Processes, pc[p] = "session", overrides[p] = <<>>
        PROVE  /\ env[p] = base[p]
               /\ settings[p] \in {"unimported", env[p]["dags_folder"]} \/ p \in stale
    <3>1. StackOf(p) /\ InSession(p) /\ Len(overrides[p]) = 0
      BY <2>1 DEF EnvironmentInv, StackInv, InSession
    <3>2. \A n \in Names : env[p][n] = base[p][n]
      BY <3>1 DEF StackOf, Stacked
    <3>3. env[p] = base[p]
      BY <3>2 DEF EnvironmentInv, EnvironmentTypeOK
    <3>. QED BY <3>1, <3>3, <2>1 DEF StackOf
  <2>. QED BY <2>1 DEF QuietIsClean
<1>. QED BY <1>1, EnvironmentInvariant, PTL

\* A child runs its tests on the folders of its own run, whatever its parent had overridden
\* when it was spawned.
THEOREM ChildrenBelongToTheirRun == EnvironmentSpec => []ChildrenOnTheirRun
<1>1. EnvironmentInv => ChildrenOnTheirRun
  <2>. SUFFICES ASSUME EnvironmentInv, NEW c \in Children, pc[c] = "session", overrides[c] = <<>>
                PROVE  env[c]["dags_folder"] = IF setup.conftest = "dags_folder" THEN "drift" ELSE "run"
    BY DEF ChildrenOnTheirRun
  <2>1. ChildOf(c) /\ StackOf(c) /\ InSession(c) /\ Len(overrides[c]) = 0
    BY DEF EnvironmentInv, ChildInv, StackInv, InSession, Processes
  <2>2. env[c]["dags_folder"] = base[c]["dags_folder"]
    BY <2>1 DEF StackOf, Stacked, Names
  <2>. QED BY <2>1, <2>2 DEF ChildOf
<1>. QED BY <1>1, EnvironmentInvariant, PTL

\* A worker of a parallel run starts its session with the controller's environment.
THEOREM WorkersStartAlike == EnvironmentSpec => []ParallelIsSerial
<1>1. EnvironmentInv => ParallelIsSerial
  BY DEF EnvironmentInv, ChildInv, ChildOf, ParallelIsSerial
<1>. QED BY <1>1, EnvironmentInvariant, PTL

-----------------------------------------------------------------------------
(***************************************************************************)
(* ComponentSandbox                                                        *)
(*                                                                         *)
(* A snapshot holds nothing of the test it was taken for, and every restore *)
(* step is still to run, has raised, or has brought its registry back to the *)
(* snapshot, for every number of tests and of raising steps.               *)
(***************************************************************************)

\* Whatever happens.
Steady(g) ==
  /\ g.modules["existing"] # "absent"
  /\ Base \in g.settings
  /\ ~sdk => g.lists["task"] = {}

\* Nothing of a test is in g, but for the steps that raised.
Clean(g, R) ==
  /\ \A l \in Lists : g.lists[l] \subseteq {Base} \/ l \in R
  /\ ~g.noop => "noop" \in R
  /\ "caches" \notin R => /\ g.plugins["core"] \subseteq {Base} /\ g.plugins["sdk"] \subseteq {Base}
                         /\ g.timetables \subseteq {Base}
  /\ g.macros \subseteq {Base} \/ "macros" \in R \/ "caches" \in R
  /\ g.submodules \subseteq {Base} \/ "modules" \in R \/ "caches" \in R
  /\ g.settings \subseteq {Base} \/ "settings" \in R

\* What the plugins manager believes it has set up is there.
Based(g) ==
  /\ g.integrated => Base \in g.macros /\ Base \in g.submodules
  /\ g.plugins["core"] # {} => Base \in g.plugins["core"] /\ g.modules["stem"] # "absent"

Found(g, t) == t \in g.plugins["core"] /\ (g.timetables = {} \/ t \in g.timetables)

\* What a restore step brings about, k being the snapshot.
Undone(s, g, k) ==
  /\ s \in {"executors", "secrets", "core", "task"} => g.lists[s] = k.lists[s]
  /\ s = "policies" => g.lists["policies"] \subseteq k.lists["policies"]
  /\ s = "noop" => (g.noop <=> k.noop)
  /\ s = "modules" => /\ g.modules["stem"] = k.modules["stem"]
                      /\ g.modules["existing"] = k.modules["existing"]
                      /\ g.submodules = k.submodules
  /\ s = "caches" => /\ g.plugins["core"] = {} /\ g.plugins["sdk"] = {} /\ g.timetables = {}
                     /\ ~g.integrated
  /\ s = "macros" => g.macros \subseteq k.macros
  /\ s = "settings" => g.settings \subseteq k.settings

\* A snapshot taken when the steps of R had raised.
Taken(k, R) ==
  /\ k \in Registries /\ Steady(k) /\ Clean(k, R)
  /\ \A m \in Modules : k.modules[m] \in {"absent", "kept"}

Ahead(s, q) == \E i \in 1..Len(q) : q[i] = s

SandboxInv ==
  /\ SandboxTypeOK
  /\ Steady(reg)
  /\ running # Base => running = done + 1 /\ done < MaxSandboxTests
  /\ running = Base => snap = Closed
  /\ snap = Closed => Clean(reg, Raised) /\ steps = <<>> /\ ~claimed
  /\ snap # Closed => Taken(snap, Raised) /\ snap.lists["policies"] \subseteq reg.lists["policies"]
  /\ steps = <<>> => /\ "caches" \in Raised \/ Based(reg)
                     /\ claimed => Found(reg, running)
  /\ steps # <<>> =>
       \A s \in StepNames :
         \/ s = "task" /\ ~sdk
         \/ Ahead(s, steps)
         \/ s \in raised[running]
         \/ Undone(s, reg, snap)

\* What Airflow does to its registries keeps them in order.
Keeps(g, h) ==
  /\ h \in Registries
  /\ Steady(g) => Steady(h)
  /\ \A R : Clean(g, R) => Clean(h, R)
  /\ Based(g) => Based(h)
  /\ \A t : Found(g, t) => Found(h, t)
  /\ h.lists["policies"] = g.lists["policies"]

LEMMA Fields ==
  ASSUME NEW g \in Registries
  PROVE  /\ g.lists \in [Lists -> SUBSET Components]
         /\ g.noop \in BOOLEAN /\ g.integrated \in BOOLEAN
         /\ g.plugins \in [{"core", "sdk"} -> SUBSET Components]
         /\ g.timetables \in SUBSET Components /\ g.macros \in SUBSET Components
         /\ g.submodules \in SUBSET Components /\ g.settings \in SUBSET Components
         /\ g.modules \in [Modules -> Bindings]
BY DEF Registries

LEMMA BoundKeeps ==
  ASSUME NEW g \in Registries, NEW m \in Modules
  PROVE  Keeps(g, Bound(g, m))
<1>. DEFINE h == Bound(g, m)
<1>1. /\ h.modules = [g.modules EXCEPT ![m] = "new"] /\ h.lists = g.lists /\ h.noop = g.noop
      /\ h.plugins = g.plugins /\ h.timetables = g.timetables /\ h.integrated = g.integrated
      /\ h.macros = g.macros /\ h.submodules = g.submodules /\ h.settings = g.settings
  BY DEF Bound, Registries
<1>2. h \in Registries
  BY DEF Bound, Registries, Bindings
<1>3. \A x \in Modules : h.modules[x] = IF x = m THEN "new" ELSE g.modules[x]
  BY <1>1, Fields
<1>. HIDE DEF h
<1>4. Steady(g) => Steady(h)
  BY <1>1, <1>3 DEF Steady, Modules
<1>5. \A R : Clean(g, R) => Clean(h, R)
  BY <1>1 DEF Clean
<1>6. Based(g) => Based(h)
  BY <1>1, <1>3 DEF Based, Modules
<1>7. \A t : Found(g, t) => Found(h, t)
  BY <1>1 DEF Found
<1>. QED BY <1>1, <1>2, <1>4, <1>5, <1>6, <1>7 DEF Keeps, h

LEMMA KeepsOn ==
  ASSUME NEW g, NEW h, NEW k, Keeps(g, h), Keeps(h, k)
  PROVE  Keeps(g, k)
<1>1. \A R : Clean(g, R) => Clean(k, R)
  BY DEF Keeps
<1>2. \A t : Found(g, t) => Found(k, t)
  BY DEF Keeps
<1>. QED BY <1>1, <1>2 DEF Keeps

LEMMA KeepsItself ==
  ASSUME NEW g \in Registries
  PROVE  Keeps(g, g)
BY DEF Keeps

LEMMA LoadedKeeps ==
  ASSUME NEW g \in Registries, NEW half \in {"core", "sdk"}
  PROVE  /\ Keeps(g, Loaded(g, half))
         /\ Loaded(g, half).plugins[half] # {}
         /\ Loaded(g, half).lists = g.lists
         /\ Loaded(g, half).timetables = g.timetables
<1>1. CASE g.plugins[half] # {}
  BY <1>1, KeepsItself DEF Loaded
<1>2. CASE g.plugins[half] = {}
  <2>. DEFINE b == Bound(g, "stem")
              h == [b EXCEPT !.plugins[half] = {Base}]
  <2>1. Loaded(g, half) = h
    BY <1>2 DEF Loaded
  <2>2. b \in Registries /\ Keeps(g, b)
    BY BoundKeeps DEF Keeps, Modules
  <2>3. b.modules["stem"] = "new" /\ b.lists = g.lists /\ b.plugins = g.plugins /\ b.timetables = g.timetables
    BY Fields DEF Bound, Modules, Registries
  <2>. HIDE DEF b
  <2>4. /\ h.modules = b.modules /\ h.lists = b.lists /\ h.noop = b.noop
        /\ h.plugins = [b.plugins EXCEPT ![half] = {Base}] /\ h.timetables = b.timetables
        /\ h.integrated = b.integrated
        /\ h.macros = b.macros /\ h.submodules = b.submodules /\ h.settings = b.settings
    BY <2>2 DEF Registries
  <2>5. h \in Registries
    BY <2>2 DEF Registries, Components
  <2>6. \A x \in {"core", "sdk"} : h.plugins[x] = IF x = half THEN {Base} ELSE b.plugins[x]
    BY <2>2, <2>4, Fields
  <2>. HIDE DEF h
  <2>7. Steady(b) => Steady(h)
    BY <2>4 DEF Steady
  <2>8. \A R : Clean(b, R) => Clean(h, R)
    BY <2>4, <2>6 DEF Clean
  <2>9. Based(b) => Based(h)
    BY <2>3, <2>4, <2>6 DEF Based
  <2>10. \A t : Found(b, t) => Found(h, t)
    BY <1>2, <2>3, <2>4, <2>6 DEF Found
  <2>11. Keeps(b, h)
    BY <2>4, <2>5, <2>7, <2>8, <2>9, <2>10 DEF Keeps
  <2>. QED BY <2>1, <2>2, <2>3, <2>4, <2>6, <2>11, KeepsOn
<1>. QED BY <1>1, <1>2

LEMMA LookedUpKeeps ==
  ASSUME NEW g \in Registries
  PROVE  /\ Keeps(g, LookedUp(g))
         /\ \A t : Found(g, t) => t \in LookedUp(g).timetables
<1>. DEFINE b == Loaded(g, "core")
            h == [b EXCEPT !.timetables = b.plugins["core"]]
<1>1. Keeps(g, b) /\ b \in Registries /\ b.plugins["core"] # {}
  BY LoadedKeeps DEF Keeps
<1>2. LookedUp(g) = IF b.timetables # {} THEN b ELSE h
  BY DEF LookedUp
<1>. HIDE DEF b
<1>3. /\ h.modules = b.modules /\ h.lists = b.lists /\ h.noop = b.noop
      /\ h.plugins = b.plugins /\ h.timetables = b.plugins["core"] /\ h.integrated = b.integrated
      /\ h.macros = b.macros /\ h.submodules = b.submodules /\ h.settings = b.settings
  BY <1>1 DEF Registries
<1>4. h \in Registries
  BY <1>1 DEF Registries
<1>. HIDE DEF h
<1>5. Keeps(b, h)
  <2>1. Steady(b) => Steady(h)
    BY <1>3 DEF Steady
  <2>2. \A R : Clean(b, R) => Clean(h, R)
    BY <1>3 DEF Clean
  <2>3. Based(b) => Based(h)
    BY <1>3 DEF Based
  <2>4. \A t : Found(b, t) => Found(h, t)
    BY <1>3 DEF Found
  <2>. QED BY <1>3, <1>4, <2>1, <2>2, <2>3, <2>4 DEF Keeps
<1>6. ASSUME NEW t, Found(g, t) PROVE t \in LookedUp(g).timetables
  <2>1. Found(b, t)
    BY <1>1, <1>6 DEF Keeps
  <2>. QED BY <2>1, <1>2, <1>3 DEF Found
<1>. QED BY <1>1, <1>2, <1>5, <1>6, KeepsOn

LEMMA IntegratedKeeps ==
  ASSUME NEW g \in Registries
  PROVE  Keeps(g, Integrated(g))
<1>. DEFINE b == Loaded(g, "core")
            h == [b EXCEPT !.integrated = TRUE, !.macros = @ \cup b.plugins["core"],
                           !.submodules = @ \cup b.plugins["core"]]
<1>1. Keeps(g, b) /\ b \in Registries /\ b.plugins["core"] # {}
  BY LoadedKeeps DEF Keeps
<1>2. Integrated(g) = IF b.integrated THEN b ELSE h
  BY DEF Integrated
<1>. HIDE DEF b
<1>3. /\ h.modules = b.modules /\ h.lists = b.lists /\ h.noop = b.noop
      /\ h.plugins = b.plugins /\ h.timetables = b.timetables /\ h.integrated
      /\ h.macros = b.macros \cup b.plugins["core"] /\ h.submodules = b.submodules \cup b.plugins["core"]
      /\ h.settings = b.settings
  BY <1>1 DEF Registries
<1>4. h \in Registries
  BY <1>1 DEF Registries
<1>. HIDE DEF h
<1>5. Keeps(b, h)
  <2>1. Steady(b) => Steady(h)
    BY <1>3 DEF Steady
  <2>2. \A R : Clean(b, R) => Clean(h, R)
    BY <1>3 DEF Clean
  <2>3. Based(b) => Based(h)
    BY <1>1, <1>3 DEF Based
  <2>4. \A t : Found(b, t) => Found(h, t)
    BY <1>3 DEF Found
  <2>. QED BY <1>3, <1>4, <2>1, <2>2, <2>3, <2>4 DEF Keeps
<1>. QED BY <1>1, <1>2, <1>5, KeepsOn

\* A list filled with what the installation provides.
LEMMA FilledKeeps ==
  ASSUME NEW g \in Registries, NEW l \in {"executors", "core", "task"}, l = "task" => sdk
  PROVE  Keeps(g, [g EXCEPT !.lists[l] = {Base}])
<1>. DEFINE h == [g EXCEPT !.lists[l] = {Base}]
<1>1. /\ h.modules = g.modules /\ h.lists = [g.lists EXCEPT ![l] = {Base}] /\ h.noop = g.noop
      /\ h.plugins = g.plugins /\ h.timetables = g.timetables /\ h.integrated = g.integrated
      /\ h.macros = g.macros /\ h.submodules = g.submodules /\ h.settings = g.settings
  BY DEF Registries
<1>2. h \in Registries
  BY DEF Registries, Components
<1>3. \A x \in Lists : h.lists[x] = IF x = l THEN {Base} ELSE g.lists[x]
  BY <1>1, Fields
<1>. HIDE DEF h
<1>4. Steady(g) => Steady(h)
  BY <1>1, <1>3 DEF Steady, Lists
<1>5. \A R : Clean(g, R) => Clean(h, R)
  BY <1>1, <1>3 DEF Clean
<1>6. (Based(g) => Based(h)) /\ \A t : Found(g, t) => Found(h, t)
  BY <1>1 DEF Based, Found
<1>7. h.lists["policies"] = g.lists["policies"]
  BY <1>3 DEF Lists
<1>. QED BY <1>2, <1>4, <1>5, <1>6, <1>7 DEF Keeps, h

LEMMA ManagedKeeps ==
  ASSUME NEW g \in Registries, NEW l \in {"core", "task"}, l = "task" => sdk
  PROVE  Keeps(g, Managed(g, l))
<1>. DEFINE half == IF l = "core" THEN "core" ELSE "sdk"
            b == Loaded(g, half)
<1>1. half \in {"core", "sdk"}
  OBVIOUS
<1>2. Managed(g, l) = IF g.lists[l] # {} THEN g ELSE [b EXCEPT !.lists[l] = {Base}]
  BY DEF Managed
<1>. HIDE DEF half
<1>3. Keeps(g, b) /\ b \in Registries
  BY <1>1, LoadedKeeps DEF Keeps
<1>. HIDE DEF b
<1>4. Keeps(b, [b EXCEPT !.lists[l] = {Base}])
  BY <1>3, FilledKeeps
<1>. QED BY <1>2, <1>3, <1>4, KeepsOn, KeepsItself

LEMMA ClearedFields ==
  ASSUME NEW g \in Registries
  PROVE  LET h == Cleared(g) IN
         /\ h \in Registries
         /\ h.modules = g.modules /\ h.lists = g.lists /\ h.noop = g.noop
         /\ h.plugins["core"] = {} /\ h.plugins["sdk"] = {} /\ h.timetables = {} /\ ~h.integrated
         /\ h.macros = g.macros /\ h.submodules = g.submodules /\ h.settings = g.settings
BY DEF Cleared, Registries

LEMMA OpeningFields ==
  ASSUME NEW g \in Registries
  PROVE  LET h == Opening(g) IN
         /\ h \in Registries
         /\ h.lists = g.lists /\ h.noop = g.noop
         /\ h.plugins["core"] = {} /\ h.plugins["sdk"] = {} /\ h.timetables = {} /\ ~h.integrated
         /\ h.macros = g.macros /\ h.submodules = g.submodules /\ h.settings = g.settings
         /\ \A m \in Modules : h.modules[m] = IF g.modules[m] = "absent" THEN "absent" ELSE "kept"
<1>. DEFINE b == Cleared(g)
            kept == [m \in Modules |-> IF b.modules[m] = "absent" THEN "absent" ELSE "kept"]
            h == [b EXCEPT !.modules = kept]
<1>1. /\ b \in Registries
      /\ b.modules = g.modules /\ b.lists = g.lists /\ b.noop = g.noop
      /\ b.plugins["core"] = {} /\ b.plugins["sdk"] = {} /\ b.timetables = {} /\ ~b.integrated
      /\ b.macros = g.macros /\ b.submodules = g.submodules /\ b.settings = g.settings
  BY ClearedFields
<1>2. Opening(g) = h
  BY DEF Opening
<1>. HIDE DEF b
<1>3. kept \in [Modules -> Bindings]
  BY DEF Bindings
<1>4. /\ h \in Registries /\ h.modules = kept
      /\ h.lists = b.lists /\ h.noop = b.noop /\ h.plugins = b.plugins /\ h.timetables = b.timetables
      /\ h.integrated = b.integrated
      /\ h.macros = b.macros /\ h.submodules = b.submodules /\ h.settings = b.settings
  BY <1>1, <1>3 DEF Registries
<1>5. \A m \in Modules : kept[m] = IF g.modules[m] = "absent" THEN "absent" ELSE "kept"
  BY <1>1
<1>. HIDE DEF h, kept
<1>. QED BY <1>1, <1>2, <1>4, <1>5

LEMMA OpeningIs ==
  ASSUME NEW g \in Registries, Steady(g)
  PROVE  /\ Opening(g) \in Registries /\ Steady(Opening(g)) /\ Based(Opening(g))
         /\ \A R : Clean(g, R) => Clean(Opening(g), R)
         /\ \A m \in Modules : Opening(g).modules[m] \in {"absent", "kept"}
         /\ Opening(g).lists = g.lists
<1>. DEFINE h == Opening(g)
<1>1. /\ h \in Registries
      /\ h.lists = g.lists /\ h.noop = g.noop
      /\ h.plugins["core"] = {} /\ h.plugins["sdk"] = {} /\ h.timetables = {} /\ ~h.integrated
      /\ h.macros = g.macros /\ h.submodules = g.submodules /\ h.settings = g.settings
      /\ \A m \in Modules : h.modules[m] = IF g.modules[m] = "absent" THEN "absent" ELSE "kept"
  BY OpeningFields
<1>. HIDE DEF h
<1>2. Steady(h)
  BY <1>1 DEF Steady, Modules
<1>3. Based(h)
  BY <1>1 DEF Based
<1>4. \A R : Clean(g, R) => Clean(h, R)
  BY <1>1 DEF Clean
<1>. QED BY <1>1, <1>2, <1>3, <1>4 DEF h

LEMMA OpenedIs ==
  ASSUME NEW g \in Registries, sdk \in BOOLEAN, Steady(g)
  PROVE  /\ Opened(g) \in Registries /\ Steady(Opened(g)) /\ Based(Opened(g))
         /\ \A R : Clean(g, R) => Clean(Opened(g), R)
         /\ Opened(g).lists["policies"] = g.lists["policies"]
         /\ Opened(g).lists \in [Lists -> SUBSET Components]
<1>. DEFINE o == Opening(g)
            resolved == [o EXCEPT !.lists["executors"] = IF @ = {} THEN {Base} ELSE @]
            core == Managed(resolved, "core")
<1>1. /\ o \in Registries /\ Steady(o) /\ Based(o) /\ o.lists = g.lists
      /\ \A R : Clean(g, R) => Clean(o, R)
  BY OpeningIs
<1>. HIDE DEF o
<1>2. Keeps(o, resolved)
  <2>1. CASE o.lists["executors"] = {}
    <3>1. resolved = [o EXCEPT !.lists["executors"] = {Base}]
      BY <2>1
    <3>. QED BY <3>1, <1>1, FilledKeeps
  <2>2. CASE o.lists["executors"] # {}
    <3>1. resolved = o
      BY <2>2, <1>1, Fields DEF Registries
    <3>. QED BY <3>1, <1>1, KeepsItself
  <2>. QED BY <2>1, <2>2
<1>3. resolved \in Registries
  BY <1>2 DEF Keeps
<1>4. Opened(g) = IF sdk THEN Managed(core, "task") ELSE core
  BY DEF Opened, o
<1>. HIDE DEF resolved
<1>5. Keeps(o, core) /\ core \in Registries
  <2>1. Keeps(resolved, core)
    BY <1>3, ManagedKeeps
  <2>. QED BY <2>1, <1>2, KeepsOn DEF Keeps
<1>. HIDE DEF core
<1>6. sdk => Keeps(o, Managed(core, "task"))
  <2>1. sdk => Keeps(core, Managed(core, "task"))
    BY <1>5, ManagedKeeps
  <2>. QED BY <2>1, <1>5, KeepsOn
<1>7. Keeps(o, Opened(g))
  BY <1>4, <1>5, <1>6
<1>. QED BY <1>1, <1>7, Fields DEF Keeps

LEMMA SnapshotIs ==
  ASSUME NEW g \in Registries, sdk \in BOOLEAN, Steady(g)
  PROVE  LET k == SnapshotOf(g) IN
         /\ k \in Registries /\ Steady(k)
         /\ \A R : Clean(g, R) => Clean(k, R)
         /\ \A m \in Modules : k.modules[m] \in {"absent", "kept"}
         /\ k.lists["policies"] \subseteq Opened(g).lists["policies"]
<1>. DEFINE o == Opening(g)
            d == Opened(g)
            k == [o EXCEPT !.lists = d.lists]
<1>1. /\ o \in Registries /\ Steady(o)
      /\ \A R : Clean(g, R) => Clean(o, R)
      /\ \A m \in Modules : o.modules[m] \in {"absent", "kept"}
  BY OpeningIs
<1>2. /\ d \in Registries /\ Steady(d) /\ d.lists \in [Lists -> SUBSET Components]
      /\ \A R : Clean(g, R) => Clean(d, R)
  BY OpenedIs
<1>3. SnapshotOf(g) = k
  BY DEF SnapshotOf
<1>. HIDE DEF o, d
<1>4. /\ k \in Registries /\ k.lists = d.lists /\ k.modules = o.modules /\ k.noop = o.noop
      /\ k.plugins = o.plugins /\ k.timetables = o.timetables /\ k.macros = o.macros
      /\ k.submodules = o.submodules /\ k.settings = o.settings
  BY <1>1, <1>2 DEF Registries
<1>. HIDE DEF k
<1>5. Steady(k)
  BY <1>1, <1>2, <1>4 DEF Steady
<1>6. \A R : Clean(g, R) => Clean(k, R)
  <2>1. ASSUME NEW R, Clean(o, R), Clean(d, R) PROVE Clean(k, R)
    BY <2>1, <1>4 DEF Clean
  <2>. QED BY <2>1, <1>1, <1>2
<1>. QED BY <1>1, <1>3, <1>4, <1>5, <1>6 DEF d

LEMMA WithPluginIs ==
  ASSUME NEW g \in Registries, sdk \in BOOLEAN, running \in Components, Steady(g)
  PROVE  LET h == WithPlugin(g) IN
         /\ h \in Registries /\ Steady(h)
         /\ Based(g) => Based(h)
         /\ running \in h.plugins["core"]
         /\ Found(g, running) => Found(h, running)
         /\ h.lists["policies"] = g.lists["policies"]
<1>. DEFINE l == Loaded(g, "core")
            b == IF sdk THEN Loaded(l, "sdk") ELSE l
            halves == [h \in {"core", "sdk"} |-> IF b.plugins[h] = {} THEN {} ELSE b.plugins[h] \cup {running}]
            w == [b EXCEPT !.plugins = halves]
<1>1. Keeps(g, l) /\ l \in Registries /\ l.plugins["core"] # {}
  BY LoadedKeeps DEF Keeps
<1>2. WithPlugin(g) = w
  BY DEF WithPlugin
<1>. HIDE DEF l
<1>3. Keeps(g, b) /\ b \in Registries /\ b.plugins["core"] # {}
  <2>1. CASE sdk
    <3>1. Keeps(l, Loaded(l, "sdk"))
      BY <1>1, LoadedKeeps
    <3>2. Loaded(l, "sdk").plugins["core"] # {}
      BY <1>1, Fields DEF Loaded, Bound, Registries
    <3>. QED BY <2>1, <3>1, <3>2, <1>1, KeepsOn DEF Keeps
  <2>2. CASE ~sdk
    BY <2>2, <1>1
  <2>. QED BY <2>1, <2>2
<1>. HIDE DEF b
<1>4. halves \in [{"core", "sdk"} -> SUBSET Components]
  BY <1>3, Fields
<1>5. /\ w \in Registries /\ w.plugins = halves /\ w.lists = b.lists /\ w.modules = b.modules
      /\ w.noop = b.noop /\ w.timetables = b.timetables /\ w.macros = b.macros
      /\ w.submodules = b.submodules /\ w.settings = b.settings /\ w.integrated = b.integrated
  BY <1>3, <1>4 DEF Registries
<1>6. halves["core"] = b.plugins["core"] \cup {running}
  BY <1>3
<1>. HIDE DEF w, halves
<1>7. Steady(w)
  BY <1>3, <1>5 DEF Steady, Keeps
<1>8. Based(g) => Based(w)
  <2>1. Based(g) => Based(b)
    BY <1>3 DEF Keeps
  <2>. QED BY <2>1, <1>3, <1>5, <1>6 DEF Based
<1>9. Found(g, running) => Found(w, running)
  <2>1. Found(g, running) => Found(b, running)
    BY <1>3 DEF Keeps
  <2>. QED BY <2>1, <1>5, <1>6 DEF Found
<1>10. w.lists["policies"] = g.lists["policies"]
  BY <1>3, <1>5 DEF Keeps
<1>. QED BY <1>2, <1>5, <1>6, <1>7, <1>8, <1>9, <1>10

LEMMA WithTimetableIs ==
  ASSUME NEW g \in Registries, sdk \in BOOLEAN, running \in Components, Steady(g)
  PROVE  LET h == WithTimetable(g) IN
         /\ h \in Registries /\ Steady(h)
         /\ Based(g) => Based(h)
         /\ Found(h, running)
         /\ h.lists["policies"] = g.lists["policies"]
<1>. DEFINE w == WithPlugin(g)
            h == [w EXCEPT !.timetables = {}]
<1>1. /\ w \in Registries /\ Steady(w) /\ (Based(g) => Based(w)) /\ running \in w.plugins["core"]
      /\ w.lists["policies"] = g.lists["policies"]
  BY WithPluginIs
<1>2. WithTimetable(g) = h
  BY DEF WithTimetable, Invalidated
<1>. HIDE DEF w
<1>3. /\ h \in Registries /\ h.plugins = w.plugins /\ h.lists = w.lists /\ h.modules = w.modules
      /\ h.noop = w.noop /\ h.timetables = {} /\ h.macros = w.macros
      /\ h.submodules = w.submodules /\ h.settings = w.settings /\ h.integrated = w.integrated
  BY <1>1 DEF Registries
<1>. HIDE DEF h
<1>4. Steady(h)
  BY <1>1, <1>3 DEF Steady
<1>5. Based(g) => Based(h)
  BY <1>1, <1>3 DEF Based
<1>6. Found(h, running)
  BY <1>1, <1>3 DEF Found
<1>. QED BY <1>1, <1>2, <1>3, <1>4, <1>5, <1>6

LEMMA SandboxStarts == SandboxInit => SandboxInv
<1>. SUFFICES ASSUME SandboxInit PROVE SandboxInv
  OBVIOUS
<1>. USE SandboxBounds DEF SandboxInit
<1>1. /\ reg.lists = [l \in Lists |-> IF l \in {"secrets", "policies"} THEN {Base} ELSE {}]
      /\ reg.noop = TRUE /\ reg.plugins = [h \in {"core", "sdk"} |-> {}] /\ reg.timetables = {}
      /\ reg.integrated = FALSE /\ reg.macros = {} /\ reg.submodules = {}
      /\ reg.modules = [m \in Modules |-> IF m = "existing" THEN "kept" ELSE "absent"]
      /\ reg.settings = {Base}
  OBVIOUS
<1>2. reg \in Registries
  BY DEF Registries, Components, Bindings
<1>3. SandboxTypeOK
  <2>1. running \in Components /\ done \in 0..MaxSandboxTests
    BY DEF Components
  <2>2. steps \in Seq(StepNames)
    OBVIOUS
  <2>3. raised \in [Tests -> SUBSET StepNames]
    OBVIOUS
  <2>. QED BY <1>2, <2>1, <2>2, <2>3 DEF SandboxTypeOK
<1>4. Steady(reg)
  BY <1>1 DEF Steady, Lists, Modules
<1>5. Clean(reg, Raised)
  BY <1>1 DEF Clean
<1>6. Based(reg)
  BY <1>1 DEF Based
<1>. QED BY <1>3, <1>4, <1>5, <1>6 DEF SandboxInv

\* A step inside of a test, before its teardown.
LEMMA InTestStep ==
  ASSUME SandboxInv, InTest, UNCHANGED <<sdk, running, done, steps, raised>>,
         reg' \in Registries, Steady(reg'), claimed' \in BOOLEAN,
         Based(reg) => Based(reg'), claimed' => Found(reg', running),
         snap' = Closed => ~claimed' /\ Clean(reg', Raised),
         snap' # Closed => Taken(snap', Raised) /\ snap'.lists["policies"] \subseteq reg'.lists["policies"]
  PROVE  SandboxInv'
<1>1. Raised' = Raised /\ running # Base /\ steps = <<>> /\ SandboxTypeOK
  BY DEF Raised, InTest, SandboxInv
<1>2. SandboxTypeOK'
  BY <1>1 DEF SandboxTypeOK, Taken
<1>3. Steady(reg)'
  BY DEF Steady
<1>4. (running # Base => running = done + 1 /\ done < MaxSandboxTests)'
  BY <1>1 DEF SandboxInv
<1>5. (running = Base => snap = Closed)'
  BY <1>1
<1>6. (snap = Closed => Clean(reg, Raised) /\ steps = <<>> /\ ~claimed)'
  <2>1. Clean(reg, Raised)' <=> Clean(reg', Raised)
    BY <1>1
  <2>. QED BY <2>1, <1>1
<1>7. (snap # Closed => Taken(snap, Raised) /\ snap.lists["policies"] \subseteq reg.lists["policies"])'
  <2>1. Taken(snap', Raised) => Taken(snap, Raised)'
    BY <1>1 DEF Taken, Steady
  <2>. QED BY <2>1
<1>8. (steps = <<>> => /\ "caches" \in Raised \/ Based(reg)
                       /\ claimed => Found(reg, running))'
  <2>1. "caches" \in Raised \/ Based(reg)
    BY <1>1 DEF SandboxInv
  <2>2. Based(reg)' <=> Based(reg')
    OBVIOUS
  <2>3. Found(reg, running)' <=> Found(reg', running)
    OBVIOUS
  <2>. QED BY <2>1, <2>2, <2>3, <1>1
<1>9. (steps # <<>> =>
         \A s \in StepNames :
           \/ s = "task" /\ ~sdk
           \/ Ahead(s, steps)
           \/ s \in raised[running]
           \/ Undone(s, reg, snap))'
  BY <1>1
<1>. QED BY <1>2, <1>3, <1>4, <1>5, <1>6, <1>7, <1>8, <1>9 DEF SandboxInv

\* One that changes nothing but the registries, in a sandbox.
LEMMA SandboxedStep ==
  ASSUME SandboxInv, InTest, snap # Closed, UNCHANGED <<sdk, running, done, snap, steps, raised>>,
         NEW g, reg' = g, g \in Registries, Steady(g), claimed' \in BOOLEAN,
         Based(reg) => Based(g), claimed' => Found(g, running),
         reg.lists["policies"] \subseteq g.lists["policies"]
  PROVE  SandboxInv'
<1>1. Steady(reg') /\ (Based(reg) => Based(reg')) /\ (claimed' => Found(reg', running))
  OBVIOUS
<1>2. Taken(snap, Raised) /\ snap.lists["policies"] \subseteq reg.lists["policies"]
  BY DEF SandboxInv
<1>3. Taken(snap', Raised) /\ snap'.lists["policies"] \subseteq reg'.lists["policies"]
  BY <1>2
<1>4. snap' # Closed
  OBVIOUS
<1>. QED BY <1>1, <1>3, <1>4, InTestStep

\* One by which Airflow looks into its registries.
LEMMA LookStep ==
  ASSUME SandboxInv, InTest, UNCHANGED <<sdk, running, done, snap, steps, raised, claimed>>,
         NEW g, reg' = g, Keeps(reg, g)
  PROVE  SandboxInv'
<1>1. /\ Steady(g) /\ (Based(reg) => Based(g)) /\ (claimed => Found(g, running))
      /\ g \in Registries /\ g.lists["policies"] = reg.lists["policies"] /\ claimed \in BOOLEAN
      /\ steps = <<>>
  BY DEF Keeps, SandboxInv, InTest, SandboxTypeOK
<1>2. CASE snap # Closed
  BY <1>1, <1>2, SandboxedStep
<1>3. CASE snap = Closed
  <2>1. Clean(g, Raised) /\ ~claimed
    BY <1>3 DEF SandboxInv, Keeps
  <2>2. Steady(reg') /\ (Based(reg) => Based(reg')) /\ Clean(reg', Raised)
    BY <1>1, <2>1
  <2>. QED BY <1>1, <1>3, <2>1, <2>2, InTestStep
<1>. QED BY <1>2, <1>3

LEMMA Here ==
  ASSUME SandboxInv, InTest
  PROVE  /\ reg \in Registries /\ sdk \in BOOLEAN /\ running \in Components /\ Steady(reg)
         /\ claimed \in BOOLEAN /\ steps = <<>>
         /\ claimed => Found(reg, running) /\ snap # Closed
         /\ snap # Closed => snap.lists["policies"] \subseteq reg.lists["policies"] /\ snap \in Registries
BY DEF SandboxInv, SandboxTypeOK, InTest

LEMMA OpenStep == ASSUME SandboxInv, Open PROVE SandboxInv'
<1>1. /\ InTest /\ snap = Closed /\ reg' = Opened(reg) /\ snap' = SnapshotOf(reg)
      /\ UNCHANGED <<sdk, running, done, steps, raised, claimed>>
  BY DEF Open
<1>2. reg \in Registries /\ sdk \in BOOLEAN /\ Steady(reg) /\ ~claimed
  BY <1>1, Here
<1>3. /\ Opened(reg) \in Registries /\ Steady(Opened(reg)) /\ Based(Opened(reg))
  BY <1>2, OpenedIs
<1>4. /\ SnapshotOf(reg) \in Registries /\ Steady(SnapshotOf(reg))
      /\ \A R : Clean(reg, R) => Clean(SnapshotOf(reg), R)
      /\ \A m \in Modules : SnapshotOf(reg).modules[m] \in {"absent", "kept"}
      /\ SnapshotOf(reg).lists["policies"] \subseteq Opened(reg).lists["policies"]
  BY <1>2, SnapshotIs
<1>. DEFINE o == Opened(reg)
            k == SnapshotOf(reg)
<1>5. Taken(k, Raised)
  <2>1. Clean(reg, Raised)
    BY <1>1 DEF SandboxInv
  <2>. QED BY <2>1, <1>4 DEF Taken
<1>6. o \in Registries /\ Steady(o) /\ Based(o) /\ k.lists["policies"] \subseteq o.lists["policies"] /\ k # Closed
  BY <1>3, <1>4, ClosedIsNone
<1>7. reg' = o /\ snap' = k
  BY <1>1
<1>. HIDE DEF o, k
<1>8. /\ reg' \in Registries /\ Steady(reg') /\ Based(reg') /\ Taken(snap', Raised)
      /\ snap' # Closed /\ snap'.lists["policies"] \subseteq reg'.lists["policies"]
  BY <1>5, <1>6, <1>7
<1>9. ~claimed' /\ claimed' \in BOOLEAN
  BY <1>1, <1>2, Here
<1>10. InTest /\ UNCHANGED <<sdk, running, done, steps, raised>>
  BY <1>1
<1>. QED BY <1>8, <1>9, <1>10, InTestStep

LEMMA MakeDagStep == ASSUME SandboxInv, MakeDag PROVE SandboxInv'
<1>. DEFINE g == LookedUp(reg)
<1>1. InTest /\ UNCHANGED <<sdk, running, done, steps, raised>>
  BY DEF MakeDag
<1>2. /\ reg \in Registries /\ sdk \in BOOLEAN /\ running \in Components /\ Steady(reg)
      /\ claimed \in BOOLEAN
      /\ claimed => Found(reg, running) /\ snap # Closed
      /\ snap # Closed => snap.lists["policies"] \subseteq reg.lists["policies"]
  BY <1>1, Here
<1>3. /\ Keeps(reg, g) /\ g \in Registries /\ Steady(g) /\ (Based(reg) => Based(g))
      /\ \A R : Clean(reg, R) => Clean(g, R)
      /\ g.lists["policies"] = reg.lists["policies"]
      /\ Found(reg, running) => Found(g, running)
  BY <1>2, LookedUpKeeps DEF Keeps
<1>4. \/ running \in g.timetables /\ reg' = g /\ UNCHANGED <<snap, claimed>>
      \/ claimed' = TRUE /\ snap = Closed /\ reg' = WithTimetable(Opened(g)) /\ snap' = SnapshotOf(g)
      \/ claimed' = TRUE /\ snap # Closed /\ reg' = WithTimetable(g) /\ UNCHANGED snap
  BY DEF MakeDag
<1>. HIDE DEF g
<1>5. CASE reg' = g /\ UNCHANGED <<snap, claimed>>
  BY <1>1, <1>3, <1>5, LookStep
<1>6. CASE claimed' = TRUE /\ snap = Closed /\ reg' = WithTimetable(Opened(g)) /\ snap' = SnapshotOf(g)
  <2>. DEFINE o == Opened(g)
              k == SnapshotOf(g)
  <2>1. /\ o \in Registries /\ Steady(o) /\ Based(o)
    BY <1>2, <1>3, OpenedIs
  <2>2. /\ k \in Registries /\ Steady(k)
        /\ \A R : Clean(g, R) => Clean(k, R)
        /\ \A m \in Modules : k.modules[m] \in {"absent", "kept"}
        /\ k.lists["policies"] \subseteq o.lists["policies"]
    BY <1>2, <1>3, SnapshotIs
  <2>. HIDE DEF o, k
  <2>. DEFINE w == WithTimetable(o)
  <2>3. /\ w \in Registries /\ Steady(w) /\ (Based(o) => Based(w)) /\ Found(w, running)
        /\ w.lists["policies"] = o.lists["policies"]
    BY <2>1, <1>2, WithTimetableIs
  <2>. HIDE DEF w
  <2>4. reg' = w /\ snap' = k
    BY <1>6 DEF w, o, k
  <2>5. Taken(k, Raised)
    <3>1. Clean(reg, Raised)
      BY <1>6 DEF SandboxInv
    <3>2. Clean(g, Raised)
      BY <3>1, <1>3
    <3>. QED BY <3>2, <2>2 DEF Taken
  <2>6. /\ Steady(reg') /\ Taken(snap', Raised) /\ Based(reg') /\ Found(reg', running)
        /\ snap' # Closed /\ snap'.lists["policies"] \subseteq reg'.lists["policies"]
    BY <2>1, <2>2, <2>3, <2>4, <2>5, ClosedIsNone
  <2>. QED BY <2>3, <2>4, <2>6, <1>1, <1>6, InTestStep
<1>7. CASE claimed' = TRUE /\ snap # Closed /\ reg' = WithTimetable(g) /\ UNCHANGED snap
  <2>. DEFINE w == WithTimetable(g)
  <2>1. /\ w \in Registries /\ Steady(w) /\ (Based(g) => Based(w)) /\ Found(w, running)
        /\ w.lists["policies"] = g.lists["policies"]
    BY <1>2, <1>3, WithTimetableIs
  <2>. HIDE DEF w
  <2>2. reg' = w
    BY <1>7 DEF w
  <2>. QED BY <2>1, <2>2, <1>1, <1>3, <1>7, SandboxedStep
<1>. QED BY <1>4, <1>5, <1>6, <1>7

LEMMA PluginStep == ASSUME SandboxInv, Plugin \/ Timetable PROVE SandboxInv'
<1>. DEFINE g == WithPlugin(reg)
            h == WithTimetable(reg)
<1>1. /\ InTest /\ snap # Closed /\ UNCHANGED <<sdk, running, done, snap, steps, raised>>
      /\ \/ reg' = g /\ claimed' = claimed
         \/ reg' = h /\ claimed' = TRUE
  BY DEF Plugin, Timetable, Sandboxed
<1>2. /\ reg \in Registries /\ sdk \in BOOLEAN /\ running \in Components /\ Steady(reg)
      /\ claimed \in BOOLEAN /\ (claimed => Found(reg, running))
  BY <1>1, Here
<1>3. /\ g \in Registries /\ Steady(g) /\ (Based(reg) => Based(g))
      /\ Found(reg, running) => Found(g, running)
      /\ g.lists["policies"] = reg.lists["policies"]
  BY <1>2, WithPluginIs
<1>4. /\ h \in Registries /\ Steady(h) /\ (Based(reg) => Based(h)) /\ Found(h, running)
      /\ h.lists["policies"] = reg.lists["policies"]
  BY <1>2, WithTimetableIs
<1>. HIDE DEF g, h
<1>5. CASE reg' = g /\ claimed' = claimed
  BY <1>1, <1>2, <1>3, <1>5, SandboxedStep
<1>6. CASE reg' = h /\ claimed' = TRUE
  BY <1>1, <1>4, <1>6, SandboxedStep
<1>. QED BY <1>1, <1>5, <1>6

\* Registering in lists.
LEMMA GrowStep ==
  ASSUME SandboxInv, Sandboxed, UNCHANGED <<sdk, running, done, snap, steps, raised, claimed>>,
         NEW g, reg' = g, NEW f \in [Lists -> SUBSET Components], NEW n \in BOOLEAN,
         g = [reg EXCEPT !.lists = f, !.noop = n],
         \A l \in Lists : reg.lists[l] \subseteq f[l],
         ~sdk => f["task"] = reg.lists["task"]
  PROVE  SandboxInv'
<1>1. reg \in Registries /\ Steady(reg) /\ claimed \in BOOLEAN /\ (claimed => Found(reg, running))
      /\ snap # Closed /\ InTest
  BY Here DEF Sandboxed
<1>2. /\ g \in Registries /\ g.lists = f /\ g.modules = reg.modules
      /\ g.plugins = reg.plugins /\ g.timetables = reg.timetables /\ g.macros = reg.macros
      /\ g.submodules = reg.submodules /\ g.settings = reg.settings /\ g.integrated = reg.integrated
  BY <1>1 DEF Registries
<1>3. Steady(g)
  BY <1>1, <1>2 DEF Steady
<1>4. Based(reg) => Based(g)
  BY <1>2 DEF Based
<1>5. claimed' => Found(g, running)
  BY <1>1, <1>2 DEF Found
<1>6. reg.lists["policies"] \subseteq g.lists["policies"]
  BY <1>2 DEF Lists
<1>. QED BY <1>1, <1>2, <1>3, <1>4, <1>5, <1>6, SandboxedStep

LEMMA RegisterStep ==
  ASSUME SandboxInv, Executor \/ SecretsBackend \/ Listener \/ Policy
  PROVE  SandboxInv'
<1>1. Sandboxed /\ UNCHANGED <<sdk, running, done, snap, steps, raised, claimed>>
  BY DEF Executor, SecretsBackend, Listener, Policy
<1>2. reg \in Registries /\ Steady(reg) /\ running \in Components /\ sdk \in BOOLEAN
  BY <1>1, Here DEF Sandboxed
<1>3. reg.lists \in [Lists -> SUBSET Components] /\ reg.noop \in BOOLEAN
  BY <1>2, Fields
<1>. DEFINE grown(ms) == [l \in Lists |-> IF l \in ms THEN reg.lists[l] \cup {running} ELSE reg.lists[l]]
<1>4. \A ms : /\ grown(ms) \in [Lists -> SUBSET Components]
              /\ \A l \in Lists : reg.lists[l] \subseteq grown(ms)[l]
              /\ "task" \notin ms => grown(ms)["task"] = reg.lists["task"]
  BY <1>2, <1>3 DEF Lists
<1>. HIDE DEF grown
<1>5. \E ms \in SUBSET Lists, n \in BOOLEAN :
         ("task" \in ms => sdk) /\ reg' = [reg EXCEPT !.lists = grown(ms), !.noop = n]
  <2>1. CASE Executor
    <3>1. reg' = [reg EXCEPT !.lists = [reg.lists EXCEPT !["executors"] = @ \cup {running}]]
      BY <2>1, <1>2 DEF Executor, Registries
    <3>2. [reg.lists EXCEPT !["executors"] = @ \cup {running}] = grown({"executors"})
      BY <1>3 DEF grown
    <3>3. reg' = [reg EXCEPT !.lists = grown({"executors"}), !.noop = reg.noop]
      BY <3>1, <3>2, <1>2 DEF Registries
    <3>4. {"executors"} \in SUBSET Lists /\ "task" \notin {"executors"}
      BY DEF Lists
    <3>. QED BY <3>3, <3>4, <1>3
  <2>2. CASE SecretsBackend
    <3>1. reg' = [reg EXCEPT !.lists = [reg.lists EXCEPT !["secrets"] = @ \cup {running}]]
      BY <2>2, <1>2 DEF SecretsBackend, Registries
    <3>2. [reg.lists EXCEPT !["secrets"] = @ \cup {running}] = grown({"secrets"})
      BY <1>3 DEF grown
    <3>3. reg' = [reg EXCEPT !.lists = grown({"secrets"}), !.noop = reg.noop]
      BY <3>1, <3>2, <1>2 DEF Registries
    <3>4. {"secrets"} \in SUBSET Lists /\ "task" \notin {"secrets"}
      BY DEF Lists
    <3>. QED BY <3>3, <3>4, <1>3
  <2>3. CASE Listener
    <3>1. PICK ms \in {{"core"}, {"task"}, {"core", "task"}} :
             /\ "task" \in ms => sdk
             /\ reg' = [reg EXCEPT !.lists = [l \in Lists |-> IF l \in ms THEN @[l] \cup {running} ELSE @[l]]]
      BY <2>3 DEF Listener
    <3>2. reg' = [reg EXCEPT !.lists = grown(ms), !.noop = reg.noop]
      BY <3>1, <1>2 DEF Registries, grown
    <3>3. ms \in SUBSET Lists
      BY <3>1 DEF Lists
    <3>. QED BY <3>1, <3>2, <3>3, <1>3
  <2>4. CASE Policy
    <3>1. PICK hook \in BOOLEAN :
             reg' = [reg EXCEPT !.lists["policies"] = @ \cup {running}, !.noop = @ /\ ~hook]
      BY <2>4 DEF Policy
    <3>2. reg' = [reg EXCEPT !.lists = [reg.lists EXCEPT !["policies"] = @ \cup {running}], !.noop = reg.noop /\ ~hook]
      BY <3>1, <1>2 DEF Registries
    <3>3. [reg.lists EXCEPT !["policies"] = @ \cup {running}] = grown({"policies"})
      BY <1>3 DEF grown
    <3>4. reg' = [reg EXCEPT !.lists = grown({"policies"}), !.noop = reg.noop /\ ~hook]
      BY <3>2, <3>3
    <3>5. (reg.noop /\ ~hook) \in BOOLEAN
      OBVIOUS
    <3>6. {"policies"} \in SUBSET Lists /\ "task" \notin {"policies"}
      BY DEF Lists
    <3>. QED BY <3>4, <3>5, <3>6
  <2>. QED BY <2>1, <2>2, <2>3, <2>4
<1>6. PICK ms \in SUBSET Lists, n \in BOOLEAN :
         ("task" \in ms => sdk) /\ reg' = [reg EXCEPT !.lists = grown(ms), !.noop = n]
  BY <1>5
<1>. USE DEF grown
<1>. DEFINE f == grown(ms)
            g == [reg EXCEPT !.lists = f, !.noop = n]
<1>7. /\ f \in [Lists -> SUBSET Components] /\ \A l \in Lists : reg.lists[l] \subseteq f[l]
  BY <1>4
<1>8. ~sdk => f["task"] = reg.lists["task"]
  BY <1>4, <1>6
<1>9. reg' = [reg EXCEPT !.lists = f, !.noop = n]
  BY <1>6
<1>. HIDE DEF f
<1>. QED BY <1>1, <1>7, <1>8, <1>9, GrowStep

LEMMA TouchStep == ASSUME SandboxInv, Touch PROVE SandboxInv'
<1>. DEFINE k == [reg EXCEPT !.settings = @ \cup {running}]
<1>1. /\ InTest /\ UNCHANGED <<sdk, running, done, snap, steps, raised, claimed>>
      /\ reg' \in {LookedUp(reg), Integrated(reg), Bound(reg, "existing"),
                   IF reg.modules["lib"] = "absent" THEN Bound(reg, "lib") ELSE reg,
                   IF sdk THEN Loaded(reg, "sdk") ELSE reg,
                   IF snap = Closed THEN reg ELSE k}
  BY DEF Touch
<1>2. /\ reg \in Registries /\ running \in Components /\ Steady(reg)
      /\ claimed \in BOOLEAN /\ (claimed => Found(reg, running))
  BY <1>1, Here
<1>3. /\ Keeps(reg, LookedUp(reg)) /\ Keeps(reg, Integrated(reg)) /\ Keeps(reg, reg)
      /\ Keeps(reg, Bound(reg, "existing")) /\ Keeps(reg, Bound(reg, "lib"))
      /\ Keeps(reg, Loaded(reg, "sdk"))
  <2>1. Keeps(reg, Bound(reg, "existing")) /\ Keeps(reg, Bound(reg, "lib"))
    BY <1>2, BoundKeeps DEF Modules
  <2>2. Keeps(reg, Loaded(reg, "sdk"))
    BY <1>2, LoadedKeeps
  <2>. QED BY <2>1, <2>2, <1>2, LookedUpKeeps, IntegratedKeeps, KeepsItself
<1>4. Keeps(reg, reg') \/ (snap # Closed /\ reg' = k)
  BY <1>1, <1>3
<1>5. CASE Keeps(reg, reg')
  <2>1. PICK g : g = reg'
    OBVIOUS
  <2>. QED BY <2>1, <1>1, <1>5, LookStep
<1>6. CASE snap # Closed /\ reg' = k
  <2>1. /\ k \in Registries /\ k.lists = reg.lists /\ k.modules = reg.modules /\ k.noop = reg.noop
        /\ k.plugins = reg.plugins /\ k.timetables = reg.timetables /\ k.macros = reg.macros
        /\ k.submodules = reg.submodules /\ k.settings = reg.settings \cup {running}
        /\ k.integrated = reg.integrated
    BY <1>2 DEF Registries
  <2>. HIDE DEF k
  <2>2. Steady(k)
    BY <1>2, <2>1 DEF Steady
  <2>3. Based(reg) => Based(k)
    BY <2>1 DEF Based
  <2>4. claimed' => Found(k, running)
    BY <1>1, <1>2, <2>1 DEF Found
  <2>. QED BY <2>1, <2>2, <2>3, <2>4, <1>1, <1>2, <1>6, SandboxedStep
<1>. QED BY <1>4, <1>5, <1>6

LEMMA BeginTestStep == ASSUME SandboxInv, BeginTest PROVE SandboxInv'
<1>1. /\ running = Base /\ done < MaxSandboxTests /\ running' = done + 1
      /\ UNCHANGED <<reg, sdk, done, snap, steps, raised, claimed>> /\ SandboxTypeOK
  BY DEF BeginTest, SandboxInv
<1>2. running' \in Tests /\ running' # Base
  BY <1>1, SandboxBounds DEF SandboxTypeOK, Tests, Base
<1>3. SandboxTypeOK'
  BY <1>1, <1>2 DEF SandboxTypeOK, Components
<1>4. snap = Closed /\ steps = <<>> /\ ~claimed /\ Clean(reg, Raised) /\ Steady(reg)
      /\ ("caches" \in Raised \/ Based(reg))
  BY <1>1 DEF SandboxInv
<1>5. Raised' = Raised /\ Steady(reg)'
  BY <1>1, <1>4 DEF Raised, Steady
<1>6. (Clean(reg, Raised))' /\ ("caches" \in Raised \/ Based(reg))'
  BY <1>1, <1>4, <1>5
<1>. QED BY <1>1, <1>2, <1>3, <1>4, <1>5, <1>6 DEF SandboxInv

LEMMA AheadOfBoth ==
  ASSUME NEW p \in Seq(StepNames), NEW q \in Seq(StepNames)
  PROVE  /\ p \o q \in Seq(StepNames)
         /\ Len(p \o q) = Len(p) + Len(q)
         /\ \A s : Ahead(s, p) \/ Ahead(s, q) => Ahead(s, p \o q)
<1>1. p \o q \in Seq(StepNames) /\ Len(p \o q) = Len(p) + Len(q)
  OBVIOUS
<1>2. ASSUME NEW i \in 1..Len(p) PROVE i \in 1..Len(p \o q) /\ (p \o q)[i] = p[i]
  BY <1>1
<1>3. ASSUME NEW i \in 1..Len(q)
      PROVE  Len(p) + i \in 1..Len(p \o q) /\ (p \o q)[Len(p) + i] = q[i]
  BY <1>1
<1>4. \A s : Ahead(s, p) => Ahead(s, p \o q)
  BY <1>2 DEF Ahead
<1>5. \A s : Ahead(s, q) => Ahead(s, p \o q)
  BY <1>3 DEF Ahead
<1>. QED BY <1>1, <1>4, <1>5

LEMMA OrderIs ==
  ASSUME sdk \in BOOLEAN
  PROVE  /\ Order \in Seq(StepNames) /\ Order # <<>>
         /\ \A s \in StepNames : (s = "task" /\ ~sdk) \/ Ahead(s, Order)
<1>. DEFINE o == <<"executors", "secrets", "noop", "core">>
            t == IF sdk THEN <<"task">> ELSE <<>>
            u == <<"policies", "modules", "caches", "macros", "settings">>
<1>1. o \in Seq(StepNames) /\ Len(o) = 4
      /\ o[1] = "executors" /\ o[2] = "secrets" /\ o[3] = "noop" /\ o[4] = "core"
  BY DEF StepNames, Lists
<1>2. t \in Seq(StepNames) /\ (sdk => 1 \in 1..Len(t) /\ t[1] = "task")
  <2>1. CASE sdk
    <3>1. t = <<"task">>
      BY <2>1
    <3>2. <<"task">> \in Seq(StepNames) /\ Len(<<"task">>) = 1 /\ <<"task">>[1] = "task"
      BY DEF StepNames, Lists
    <3>. HIDE DEF t
    <3>. QED BY <3>1, <3>2
  <2>2. CASE ~sdk
    BY <2>2
  <2>. QED BY <2>1, <2>2
<1>3. u \in Seq(StepNames) /\ Len(u) = 5
      /\ u[1] = "policies" /\ u[2] = "modules" /\ u[3] = "caches" /\ u[4] = "macros" /\ u[5] = "settings"
  BY DEF StepNames, Lists
<1>4. Order = o \o t \o u
  BY DEF Order
<1>. HIDE DEF o, t, u
<1>5. o \o t \in Seq(StepNames) /\ Len(o \o t) = Len(o) + Len(t)
      /\ \A s : Ahead(s, o) \/ Ahead(s, t) => Ahead(s, o \o t)
  BY <1>1, <1>2, AheadOfBoth
<1>6. /\ (o \o t) \o u \in Seq(StepNames) /\ Len((o \o t) \o u) = Len(o \o t) + Len(u)
      /\ \A s : Ahead(s, o \o t) \/ Ahead(s, u) => Ahead(s, (o \o t) \o u)
  BY <1>3, <1>5, AheadOfBoth
<1>7. Ahead("executors", o) /\ Ahead("secrets", o) /\ Ahead("noop", o) /\ Ahead("core", o)
  BY <1>1 DEF Ahead
<1>8. sdk => Ahead("task", t)
  BY <1>2 DEF Ahead
<1>9. Ahead("policies", u) /\ Ahead("modules", u) /\ Ahead("caches", u) /\ Ahead("macros", u) /\ Ahead("settings", u)
  BY <1>3 DEF Ahead
<1>10. \A s \in StepNames : (s = "task" /\ ~sdk) \/ Ahead(s, Order)
  BY <1>4, <1>5, <1>6, <1>7, <1>8, <1>9 DEF StepNames, Lists
<1>11. Len(t) \in Nat
  BY <1>2
<1>12. Len(Order) # 0
  BY <1>1, <1>3, <1>4, <1>5, <1>6, <1>11
<1>. QED BY <1>4, <1>6, <1>10, <1>12

LEMMA EndTestStep == ASSUME SandboxInv, EndTest PROVE SandboxInv'
<1>1. /\ InTest /\ UNCHANGED <<reg, sdk, snap, raised, claimed>> /\ SandboxTypeOK
      /\ running = done + 1 /\ done < MaxSandboxTests /\ Steady(reg) /\ steps = <<>>
      /\ \/ snap = Closed /\ running' = Base /\ done' = done + 1 /\ steps' = steps
         \/ snap # Closed /\ steps' = Order /\ running' = running /\ done' = done
  BY DEF EndTest, SandboxInv, InTest
<1>2. Raised' = Raised /\ Steady(reg)'
  BY <1>1 DEF Raised, Steady
<1>3. CASE snap = Closed /\ running' = Base /\ done' = done + 1 /\ steps' = steps
  <2>1. SandboxTypeOK'
    BY <1>1, <1>3, SandboxBounds DEF SandboxTypeOK, Components
  <2>2. ~claimed /\ Clean(reg, Raised) /\ ("caches" \in Raised \/ Based(reg))
    BY <1>1, <1>3 DEF SandboxInv
  <2>3. (Clean(reg, Raised))' /\ ("caches" \in Raised \/ Based(reg))'
    BY <1>1, <1>2, <2>2
  <2>. QED BY <1>1, <1>2, <1>3, <2>1, <2>2, <2>3 DEF SandboxInv
<1>4. CASE snap # Closed /\ steps' = Order /\ running' = running /\ done' = done
  <2>. DEFINE o == Order
  <2>1. /\ o \in Seq(StepNames) /\ o # <<>>
        /\ \A s \in StepNames : (s = "task" /\ ~sdk) \/ Ahead(s, o)
    BY <1>1, OrderIs DEF SandboxTypeOK
  <2>2. steps' = o
    BY <1>4
  <2>. HIDE DEF o
  <2>3. SandboxTypeOK'
    BY <1>1, <1>4, <2>1, <2>2 DEF SandboxTypeOK
  <2>4. Taken(snap, Raised) /\ snap.lists["policies"] \subseteq reg.lists["policies"]
    BY <1>4 DEF SandboxInv
  <2>5. (Taken(snap, Raised))'
    BY <2>4, <1>1, <1>2 DEF Taken, Steady
  <2>6. (\A s \in StepNames : (s = "task" /\ ~sdk) \/ Ahead(s, steps))'
    BY <1>1, <2>1, <2>2
  <2>. QED BY <1>1, <1>2, <1>4, <2>1, <2>2, <2>3, <2>4, <2>5, <2>6 DEF SandboxInv, InTest
<1>. QED BY <1>1, <1>3, <1>4

-----------------------------------------------------------------------------
(* The teardown *)

\* What a restore step does to the others' work.
Spares(g, h, k) ==
  /\ h \in Registries /\ Steady(h)
  /\ k.lists["policies"] \subseteq h.lists["policies"]
  /\ g.modules["lib"] # "absent" => h.modules["lib"] # "absent"

LEMMA ListSet ==
  ASSUME NEW g \in Registries, NEW l \in Lists, NEW c \in SUBSET Components
  PROVE  LET h == [g EXCEPT !.lists[l] = c] IN
         /\ h \in Registries /\ h.modules = g.modules /\ h.noop = g.noop
         /\ h.plugins = g.plugins /\ h.timetables = g.timetables /\ h.macros = g.macros
         /\ h.submodules = g.submodules /\ h.settings = g.settings /\ h.integrated = g.integrated
         /\ \A x \in Lists : h.lists[x] = IF x = l THEN c ELSE g.lists[x]
<1>. DEFINE h == [g EXCEPT !.lists[l] = c]
<1>1. /\ h \in Registries /\ h.modules = g.modules /\ h.noop = g.noop
      /\ h.plugins = g.plugins /\ h.timetables = g.timetables /\ h.macros = g.macros
      /\ h.submodules = g.submodules /\ h.settings = g.settings /\ h.integrated = g.integrated
      /\ h.lists = [g.lists EXCEPT ![l] = c]
  BY DEF Registries
<1>. HIDE DEF h
<1>2. \A x \in Lists : h.lists[x] = IF x = l THEN c ELSE g.lists[x]
  BY <1>1, Fields
<1>. QED BY <1>1, <1>2 DEF h

\* A list put back to what it was, or emptied.
LEMMA ListRestored ==
  ASSUME NEW g \in Registries, NEW k \in Registries, Steady(g), Steady(k), NEW l \in Lists \ {"policies"},
         NEW c \in SUBSET Components, c = k.lists[l] \/ c = {},
         k.lists["policies"] \subseteq g.lists["policies"]
  PROVE  LET h == [g EXCEPT !.lists[l] = c] IN
         /\ Spares(g, h, k)
         /\ c = k.lists[l] => Undone(l, h, k)
         /\ \A x \in StepNames : x # l /\ Undone(x, g, k) => Undone(x, h, k)
<1>. DEFINE h == [g EXCEPT !.lists[l] = c]
<1>1. /\ h \in Registries /\ h.modules = g.modules /\ h.noop = g.noop
      /\ h.plugins = g.plugins /\ h.timetables = g.timetables /\ h.macros = g.macros
      /\ h.submodules = g.submodules /\ h.settings = g.settings /\ h.integrated = g.integrated
      /\ \A x \in Lists : h.lists[x] = IF x = l THEN c ELSE g.lists[x]
  BY ListSet
<1>. HIDE DEF h
<1>2. Spares(g, h, k)
  BY <1>1 DEF Spares, Steady, Lists
<1>3. c = k.lists[l] => Undone(l, h, k)
  BY <1>1 DEF Undone, Lists
<1>4. \A x \in StepNames : x # l /\ Undone(x, g, k) => Undone(x, h, k)
  BY <1>1 DEF Undone, StepNames, Lists
<1>. QED BY <1>2, <1>3, <1>4 DEF h

\* The step ran to its end.
LEMMA RestoredBySpares ==
  ASSUME NEW g \in Registries, Steady(g), snap \in Registries, Steady(snap),
         \A m \in Modules : snap.modules[m] \in {"absent", "kept"},
         snap.lists["policies"] \subseteq g.lists["policies"], NEW s \in StepNames
  PROVE  LET h == RestoredBy(g, s) IN
         /\ Spares(g, h, snap)
         /\ Undone(s, h, snap)
         /\ \A x \in StepNames : Undone(x, g, snap) => Undone(x, h, snap)
<1>1. CASE s \in Lists \ {"policies"}
  <2>1. RestoredBy(g, s) = [g EXCEPT !.lists[s] = snap.lists[s]]
    BY <1>1 DEF RestoredBy, RestoredList, Lists
  <2>2. snap.lists[s] \in SUBSET Components
    BY <1>1, Fields
  <2>. DEFINE h == [g EXCEPT !.lists[s] = snap.lists[s]]
  <2>3. /\ Spares(g, h, snap)
        /\ Undone(s, h, snap)
        /\ \A x \in StepNames : x # s /\ Undone(x, g, snap) => Undone(x, h, snap)
    BY <1>1, <2>2, ListRestored
  <2>. HIDE DEF h
  <2>. QED BY <2>1, <2>3 DEF h
<1>2. CASE s = "policies"
  <2>. DEFINE c == g.lists["policies"] \cap snap.lists["policies"]
              h == [g EXCEPT !.lists["policies"] = c]
  <2>1. RestoredBy(g, s) = h
    BY <1>2 DEF RestoredBy, RestoredPolicies, Lists, Registries
  <2>2. c \in SUBSET Components
    BY Fields DEF Lists
  <2>a. "policies" \in Lists
    BY DEF Lists
  <2>3. /\ h \in Registries /\ h.modules = g.modules /\ h.noop = g.noop
        /\ h.plugins = g.plugins /\ h.timetables = g.timetables /\ h.macros = g.macros
        /\ h.submodules = g.submodules /\ h.settings = g.settings /\ h.integrated = g.integrated
        /\ \A x \in Lists : h.lists[x] = IF x = "policies" THEN c ELSE g.lists[x]
    BY <2>2, <2>a, ListSet
  <2>4. c \subseteq snap.lists["policies"] /\ snap.lists["policies"] \subseteq c
    OBVIOUS
  <2>. HIDE DEF h, c
  <2>5. Spares(g, h, snap)
    BY <2>3, <2>4 DEF Spares, Steady, Lists
  <2>6. Undone(s, h, snap)
    BY <1>2, <2>3, <2>4 DEF Undone, Lists
  <2>7. \A x \in StepNames : Undone(x, g, snap) => Undone(x, h, snap)
    BY <2>3, <2>4 DEF Undone, StepNames, Lists
  <2>. QED BY <2>1, <2>5, <2>6, <2>7
<1>3. CASE s = "noop"
  <2>. DEFINE h == [g EXCEPT !.noop = snap.noop]
  <2>1. RestoredBy(g, s) = h
    BY <1>3 DEF RestoredBy, RestoredNoop, Lists
  <2>2. /\ h \in Registries /\ h.modules = g.modules /\ h.noop = snap.noop /\ h.lists = g.lists
        /\ h.plugins = g.plugins /\ h.timetables = g.timetables /\ h.macros = g.macros
        /\ h.submodules = g.submodules /\ h.settings = g.settings /\ h.integrated = g.integrated
    BY DEF Registries
  <2>. HIDE DEF h
  <2>3. Spares(g, h, snap)
    BY <2>2 DEF Spares, Steady
  <2>4. Undone(s, h, snap)
    BY <1>3, <2>2 DEF Undone
  <2>5. \A x \in StepNames : Undone(x, g, snap) => Undone(x, h, snap)
    BY <2>2 DEF Undone
  <2>. QED BY <2>1, <2>3, <2>4, <2>5
<1>4. CASE s = "modules"
  <2>. DEFINE b == [m \in Modules |-> IF snap.modules[m] # "absent" THEN "kept"
                                      ELSE IF m = "stem" THEN "absent" ELSE g.modules[m]]
              h == [g EXCEPT !.modules = b, !.submodules = snap.submodules]
  <2>1. RestoredBy(g, s) = h
    BY <1>4 DEF RestoredBy, RestoredModules, Lists, Registries
  <2>2. b \in [Modules -> Bindings]
    <3>1. g.modules \in [Modules -> Bindings]
      BY Fields
    <3>2. \A m \in Modules : g.modules[m] \in Bindings
      BY <3>1
    <3>. QED BY <3>2 DEF Bindings
  <2>3. /\ h \in Registries /\ h.modules = b /\ h.noop = g.noop /\ h.lists = g.lists
        /\ h.plugins = g.plugins /\ h.timetables = g.timetables /\ h.macros = g.macros
        /\ h.submodules = snap.submodules /\ h.settings = g.settings /\ h.integrated = g.integrated
    BY <2>2, Fields DEF Registries
  <2>4. /\ b["stem"] = snap.modules["stem"] /\ b["existing"] = snap.modules["existing"]
        /\ g.modules["lib"] # "absent" => b["lib"] # "absent"
    BY DEF Steady, Modules
  <2>. HIDE DEF h, b
  <2>5. Spares(g, h, snap)
    BY <2>3, <2>4 DEF Spares, Steady
  <2>6. Undone(s, h, snap)
    BY <1>4, <2>3, <2>4 DEF Undone
  <2>7. \A x \in StepNames : Undone(x, g, snap) => Undone(x, h, snap)
    BY <2>3, <2>4 DEF Undone
  <2>. QED BY <2>1, <2>5, <2>6, <2>7
<1>5. CASE s = "caches"
  <2>. DEFINE h == Cleared(g)
  <2>1. RestoredBy(g, s) = h
    BY <1>5 DEF RestoredBy, Lists
  <2>2. /\ h \in Registries
        /\ h.modules = g.modules /\ h.lists = g.lists /\ h.noop = g.noop
        /\ h.plugins["core"] = {} /\ h.plugins["sdk"] = {} /\ h.timetables = {} /\ ~h.integrated
        /\ h.macros = g.macros /\ h.submodules = g.submodules /\ h.settings = g.settings
    BY ClearedFields
  <2>. HIDE DEF h
  <2>3. Spares(g, h, snap)
    BY <2>2 DEF Spares, Steady
  <2>4. Undone(s, h, snap)
    BY <1>5, <2>2 DEF Undone
  <2>5. \A x \in StepNames : Undone(x, g, snap) => Undone(x, h, snap)
    BY <2>2 DEF Undone
  <2>. QED BY <2>1, <2>3, <2>4, <2>5
<1>6. CASE s = "macros"
  <2>. DEFINE h == [g EXCEPT !.macros = g.macros \cap snap.macros]
  <2>1. RestoredBy(g, s) = h
    BY <1>6 DEF RestoredBy, RestoredMacros, Lists, Registries
  <2>2. /\ h \in Registries
        /\ h.modules = g.modules /\ h.lists = g.lists /\ h.noop = g.noop
        /\ h.plugins = g.plugins /\ h.timetables = g.timetables /\ h.integrated = g.integrated
        /\ h.macros = g.macros \cap snap.macros /\ h.submodules = g.submodules /\ h.settings = g.settings
    BY DEF Registries
  <2>. HIDE DEF h
  <2>3. Spares(g, h, snap)
    BY <2>2 DEF Spares, Steady
  <2>4. Undone(s, h, snap)
    BY <1>6, <2>2 DEF Undone
  <2>5. \A x \in StepNames : Undone(x, g, snap) => Undone(x, h, snap)
    BY <2>2 DEF Undone
  <2>. QED BY <2>1, <2>3, <2>4, <2>5
<1>7. CASE s = "settings"
  <2>. DEFINE h == [g EXCEPT !.settings = g.settings \cap snap.settings]
  <2>1. RestoredBy(g, s) = h
    BY <1>7 DEF RestoredBy, RestoredSettings, Lists, Registries
  <2>2. /\ h \in Registries
        /\ h.modules = g.modules /\ h.lists = g.lists /\ h.noop = g.noop
        /\ h.plugins = g.plugins /\ h.timetables = g.timetables /\ h.integrated = g.integrated
        /\ h.macros = g.macros /\ h.submodules = g.submodules /\ h.settings = g.settings \cap snap.settings
    BY DEF Registries
  <2>. HIDE DEF h
  <2>3. Spares(g, h, snap)
    BY <2>2 DEF Spares, Steady
  <2>4. Undone(s, h, snap)
    BY <1>7, <2>2 DEF Undone
  <2>5. \A x \in StepNames : Undone(x, g, snap) => Undone(x, h, snap)
    BY <2>2 DEF Undone
  <2>. QED BY <2>1, <2>3, <2>4, <2>5
<1>. QED BY <1>1, <1>2, <1>3, <1>4, <1>5, <1>6, <1>7 DEF StepNames

\* The step raised.
LEMMA LeftBySpares ==
  ASSUME NEW g \in Registries, Steady(g), snap \in Registries, Steady(snap),
         snap.lists["policies"] \subseteq g.lists["policies"], NEW s \in StepNames, NEW h \in LeftBy(g, s)
  PROVE  /\ Spares(g, h, snap)
         /\ \A x \in StepNames : x # s /\ Undone(x, g, snap) => Undone(x, h, snap)
<1>1. CASE h = g
  BY <1>1 DEF Spares
<1>2. CASE s \in {"executors", "core", "task"} /\ h = [g EXCEPT !.lists[s] = {}]
  <2>1. s \in Lists \ {"policies"}
    BY <1>2 DEF Lists
  <2>. QED BY <1>2, <2>1, ListRestored
<1>3. CASE s = "caches" /\ h = [Cleared(g) EXCEPT !.plugins["sdk"] = g.plugins["sdk"]]
  <2>. DEFINE b == Cleared(g)
  <2>1. /\ b \in Registries
        /\ b.modules = g.modules /\ b.lists = g.lists /\ b.noop = g.noop
        /\ b.macros = g.macros /\ b.submodules = g.submodules /\ b.settings = g.settings
    BY ClearedFields
  <2>2. h = [b EXCEPT !.plugins["sdk"] = g.plugins["sdk"]]
    BY <1>3
  <2>. HIDE DEF b
  <2>3. g.plugins["sdk"] \in SUBSET Components
    BY Fields
  <2>4. /\ h \in Registries
        /\ h.modules = b.modules /\ h.lists = b.lists /\ h.noop = b.noop
        /\ h.macros = b.macros /\ h.submodules = b.submodules /\ h.settings = b.settings
    BY <2>1, <2>2, <2>3 DEF Registries
  <2>5. Spares(g, h, snap)
    BY <2>1, <2>4 DEF Spares, Steady
  <2>6. \A x \in StepNames : x # s /\ Undone(x, g, snap) => Undone(x, h, snap)
    BY <1>3, <2>1, <2>4 DEF Undone
  <2>. QED BY <2>5, <2>6
<1>. QED BY <1>1, <1>2, <1>3 DEF LeftBy

LEMMA CleanAmongMore ==
  ASSUME NEW g, NEW R, NEW S, R \subseteq S, Clean(g, R)
  PROVE  Clean(g, S)
BY DEF Clean

\* When every step has either raised or done its work, nothing of the test is left.
LEMMA AllUndone ==
  ASSUME NEW g \in Registries, Steady(g), snap \in Registries, NEW R, Clean(snap, R),
         \A s \in StepNames : (s = "task" /\ ~sdk) \/ s \in R \/ Undone(s, g, snap)
  PROVE  Clean(g, R) /\ ("caches" \in R \/ Based(g))
<1>1. \A l \in Lists : g.lists[l] \subseteq {Base} \/ l \in R
  <2>1. \A l \in {"executors", "secrets", "core", "task"} : g.lists[l] \subseteq {Base} \/ l \in R
    BY DEF Undone, Clean, Steady, StepNames, Lists
  <2>2. g.lists["policies"] \subseteq {Base} \/ "policies" \in R
    BY DEF Undone, Clean, StepNames, Lists
  <2>. QED BY <2>1, <2>2 DEF Lists
<1>2. ~g.noop => "noop" \in R
  BY DEF Undone, Clean, StepNames
<1>3. "caches" \notin R => /\ g.plugins["core"] = {} /\ g.plugins["sdk"] = {}
                          /\ g.timetables = {} /\ ~g.integrated
  BY DEF Undone, StepNames
<1>4. g.macros \subseteq {Base} \/ "macros" \in R \/ "caches" \in R
  BY DEF Undone, Clean, StepNames
<1>5. g.submodules \subseteq {Base} \/ "modules" \in R \/ "caches" \in R
  BY DEF Undone, Clean, StepNames
<1>6. g.settings \subseteq {Base} \/ "settings" \in R
  BY DEF Undone, Clean, StepNames
<1>7. "caches" \in R \/ Based(g)
  BY <1>3 DEF Based
<1>8. Clean(g, R)
  BY <1>1, <1>2, <1>3, <1>4, <1>5, <1>6 DEF Clean
<1>. QED BY <1>7, <1>8

\* What a restore step leaves, whether it raises or not.
LEMMA StepLeaves ==
  ASSUME SandboxInv, Step
  PROVE  /\ snap # Closed /\ snap \in Registries /\ Taken(snap, Raised) /\ running \in Tests
         /\ running = done + 1 /\ done < MaxSandboxTests
         /\ Spares(reg, reg', snap)
         /\ Raised \subseteq Raised' /\ raised'[running] \subseteq Raised'
         /\ raised' \in [Tests -> SUBSET StepNames]
         /\ steps' = Tail(steps) /\ steps' \in Seq(StepNames)
         /\ \A x \in StepNames :
              \/ x = "task" /\ ~sdk
              \/ Ahead(x, steps')
              \/ x \in raised'[running]
              \/ Undone(x, reg', snap)
<1>1. /\ steps # <<>> /\ steps \in Seq(StepNames) /\ reg \in Registries /\ Steady(reg)
      /\ raised \in [Tests -> SUBSET StepNames]
  BY DEF Step, SandboxInv, SandboxTypeOK
<1>2. snap # Closed /\ Taken(snap, Raised) /\ snap.lists["policies"] \subseteq reg.lists["policies"]
  BY <1>1 DEF SandboxInv
<1>3. snap \in Registries /\ Steady(snap) /\ \A m \in Modules : snap.modules[m] \in {"absent", "kept"}
  BY <1>2 DEF Taken
<1>4. running \in Tests /\ running = done + 1 /\ done < MaxSandboxTests
  BY <1>2, SandboxBounds DEF SandboxInv, SandboxTypeOK, Components, Tests
<1>. DEFINE s == Head(steps)
<1>5. s \in StepNames
  BY <1>1
<1>6. /\ steps' = Tail(steps) /\ Tail(steps) \in Seq(StepNames)
      /\ \/ reg' = RestoredBy(reg, s) /\ raised' = raised
         \/ reg' \in LeftBy(reg, s) /\ raised' = [raised EXCEPT ![running] = @ \cup {s}]
  BY <1>1 DEF Step, After
<1>7. \A x \in StepNames : Ahead(x, steps) => x = s \/ Ahead(x, Tail(steps))
  <2>1. ASSUME NEW x \in StepNames, NEW i \in 1..Len(steps), steps[i] = x PROVE x = s \/ Ahead(x, Tail(steps))
    <3>1. CASE i = 1
      BY <2>1, <3>1, <1>1
    <3>2. CASE i # 1
      <4>1. i - 1 \in 1..Len(Tail(steps)) /\ Tail(steps)[i - 1] = x
        BY <2>1, <3>2, <1>1
      <4>. QED BY <4>1 DEF Ahead
    <3>. QED BY <3>1, <3>2
  <2>. QED BY <2>1 DEF Ahead
<1>8. \A x \in StepNames : (x = "task" /\ ~sdk) \/ Ahead(x, steps) \/ x \in raised[running] \/ Undone(x, reg, snap)
  BY <1>1 DEF SandboxInv
<1>. HIDE DEF s
<1>9. /\ Raised \subseteq Raised' /\ raised'[running] \subseteq Raised'
      /\ raised' \in [Tests -> SUBSET StepNames] /\ raised[running] \subseteq raised'[running]
  <2>1. raised' \in [Tests -> SUBSET StepNames] /\ \A t \in Tests : raised[t] \subseteq raised'[t]
    BY <1>1, <1>4, <1>5, <1>6
  <2>2. raised'[running] \subseteq Raised'
    BY <1>4 DEF Raised
  <2>3. Raised \subseteq Raised'
    BY <2>1 DEF Raised
  <2>. QED BY <2>1, <2>2, <2>3, <1>4
<1>10. CASE reg' = RestoredBy(reg, s) /\ raised' = raised
  <2>. DEFINE h == RestoredBy(reg, s)
  <2>1. /\ Spares(reg, h, snap)
        /\ Undone(s, h, snap)
        /\ \A x \in StepNames : Undone(x, reg, snap) => Undone(x, h, snap)
    BY <1>1, <1>2, <1>3, <1>5, RestoredBySpares
  <2>2. reg' = h
    BY <1>10
  <2>. HIDE DEF h
  <2>. QED BY <2>1, <2>2, <1>2, <1>3, <1>4, <1>6, <1>7, <1>8, <1>9
<1>11. CASE reg' \in LeftBy(reg, s) /\ raised' = [raised EXCEPT ![running] = @ \cup {s}]
  <2>1. PICK h \in LeftBy(reg, s) : reg' = h
    BY <1>11
  <2>2. /\ Spares(reg, h, snap)
        /\ \A x \in StepNames : x # s /\ Undone(x, reg, snap) => Undone(x, h, snap)
    BY <1>1, <1>2, <1>3, <1>5, LeftBySpares
  <2>3. s \in raised'[running]
    BY <1>1, <1>4, <1>11
  <2>. QED BY <2>1, <2>2, <2>3, <1>2, <1>3, <1>4, <1>6, <1>7, <1>8, <1>9
<1>. QED BY <1>6, <1>10, <1>11

LEMMA StepStep == ASSUME SandboxInv, Step PROVE SandboxInv'
<1>. DEFINE h == reg'
            R == Raised'
<1>1. /\ snap # Closed /\ snap \in Registries /\ Taken(snap, Raised) /\ running \in Tests
      /\ running = done + 1 /\ done < MaxSandboxTests
      /\ Spares(reg, h, snap)
      /\ Raised \subseteq R /\ raised'[running] \subseteq R
      /\ raised' \in [Tests -> SUBSET StepNames]
      /\ steps' \in Seq(StepNames)
      /\ \A x \in StepNames :
           \/ x = "task" /\ ~sdk
           \/ Ahead(x, steps')
           \/ x \in raised'[running]
           \/ Undone(x, h, snap)
  BY StepLeaves
<1>2. SandboxTypeOK /\ sdk' = sdk
  BY DEF SandboxInv, Step
<1>3. \/ /\ steps' = <<>> /\ running' = Base /\ done' = done + 1 /\ snap' = Closed /\ ~claimed'
         /\ claimed' \in BOOLEAN
      \/ steps' # <<>> /\ UNCHANGED <<running, done, snap, claimed>>
  BY DEF Step
<1>4. SandboxTypeOK'
  BY <1>1, <1>2, <1>3, SandboxBounds DEF SandboxTypeOK, Spares, Components
<1>5. Steady(reg)'
  BY <1>1, <1>2 DEF Spares, Steady
<1>6. Taken(snap, R)
  BY <1>1, CleanAmongMore DEF Taken
<1>7. CASE steps' = <<>> /\ running' = Base /\ done' = done + 1 /\ snap' = Closed /\ ~claimed'
  <2>1. \A x \in StepNames : ~Ahead(x, <<>>)
    BY DEF Ahead
  <2>2. \A x \in StepNames : (x = "task" /\ ~sdk) \/ x \in R \/ Undone(x, h, snap)
    BY <1>1, <1>7, <2>1
  <2>3. Clean(snap, R) /\ h \in Registries /\ Steady(h)
    BY <1>1, <1>6 DEF Taken, Spares
  <2>. HIDE DEF h, R
  <2>4. Clean(h, R) /\ ("caches" \in R \/ Based(h))
    BY <1>1, <2>2, <2>3, AllUndone
  <2>5. (Clean(reg, Raised))' /\ ("caches" \in Raised \/ Based(reg))'
    BY <2>4 DEF h, R
  <2>. QED BY <1>4, <1>5, <1>7, <2>5 DEF SandboxInv
<1>8. CASE steps' # <<>> /\ UNCHANGED <<running, done, snap, claimed>>
  <2>1. (Taken(snap, Raised))'
    BY <1>2, <1>6, <1>8 DEF Taken, Steady
  <2>2. (snap.lists["policies"] \subseteq reg.lists["policies"])'
    BY <1>1, <1>8 DEF Spares
  <2>3. (\A x \in StepNames :
           \/ x = "task" /\ ~sdk
           \/ Ahead(x, steps)
           \/ x \in raised[running]
           \/ Undone(x, reg, snap))'
    BY <1>1, <1>2, <1>8
  <2>4. running' # Base /\ snap' # Closed /\ running' = done' + 1 /\ done' < MaxSandboxTests
    BY <1>1, <1>8 DEF Tests, Base
  <2>. QED BY <1>4, <1>5, <1>8, <2>1, <2>2, <2>3, <2>4 DEF SandboxInv
<1>. QED BY <1>3, <1>7, <1>8

LEMMA SandboxStep == SandboxInv /\ [SandboxNext]_sandboxVars => SandboxInv'
<1>. SUFFICES ASSUME SandboxInv, [SandboxNext]_sandboxVars PROVE SandboxInv'
  OBVIOUS
<1>1. CASE Open
  BY <1>1, OpenStep
<1>2. CASE MakeDag
  BY <1>2, MakeDagStep
<1>3. CASE Plugin \/ Timetable
  BY <1>3, PluginStep
<1>4. CASE Executor \/ SecretsBackend \/ Listener \/ Policy
  BY <1>4, RegisterStep
<1>5. CASE Touch
  BY <1>5, TouchStep
<1>6. CASE BeginTest
  BY <1>6, BeginTestStep
<1>7. CASE EndTest
  BY <1>7, EndTestStep
<1>8. CASE Step
  BY <1>8, StepStep
<1>9. CASE UNCHANGED sandboxVars
  <2>1. /\ reg' = reg /\ sdk' = sdk /\ running' = running /\ done' = done /\ snap' = snap
        /\ steps' = steps /\ raised' = raised /\ claimed' = claimed
    BY <1>9 DEF sandboxVars
  <2>2. Raised' = Raised
    BY <2>1 DEF Raised
  <2>3. SandboxTypeOK' /\ Steady(reg)'
    BY <2>1 DEF SandboxInv, SandboxTypeOK, Steady
  <2>4. (snap # Closed => Taken(snap, Raised) /\ snap.lists["policies"] \subseteq reg.lists["policies"])'
    BY <2>1, <2>2 DEF SandboxInv, Taken, Steady
  <2>5. (snap = Closed => Clean(reg, Raised) /\ steps = <<>> /\ ~claimed)'
    BY <2>1, <2>2 DEF SandboxInv
  <2>6. (steps = <<>> => /\ "caches" \in Raised \/ Based(reg)
                         /\ claimed => Found(reg, running))'
    BY <2>1, <2>2 DEF SandboxInv
  <2>7. (steps # <<>> =>
           \A s \in StepNames :
             \/ s = "task" /\ ~sdk
             \/ Ahead(s, steps)
             \/ s \in raised[running]
             \/ Undone(s, reg, snap))'
    BY <2>1 DEF SandboxInv
  <2>8. ((running # Base => running = done + 1 /\ done < MaxSandboxTests) /\ (running = Base => snap = Closed))'
    BY <2>1 DEF SandboxInv
  <2>. QED BY <2>3, <2>4, <2>5, <2>6, <2>7, <2>8 DEF SandboxInv
<1>. QED BY <1>1, <1>2, <1>3, <1>4, <1>5, <1>6, <1>7, <1>8, <1>9 DEF SandboxNext, SandboxEnded

\* The strengthening is inductive: a snapshot holds nothing of the test it was taken
\* for, and every restore step still to run, done, or raised accounts for its registry.
THEOREM SandboxInvariant == SandboxSpec => []SandboxInv
BY SandboxStarts, SandboxStep, PTL DEF SandboxSpec

LEMMA SandboxIsSound == SandboxInv => RegistriesSound
<1>. SUFFICES ASSUME SandboxInv PROVE RegistriesSound
  OBVIOUS
<1>1. NothingLeaks
  <2>. SUFFICES ASSUME running = Base PROVE NothingLeaks
    BY DEF NothingLeaks
  <2>1. Clean(reg, Raised) /\ Steady(reg) /\ reg \in Registries
    BY DEF SandboxInv, SandboxTypeOK
  <2>2. \A l \in Lists : reg.lists[l] \ {Base} # {} => l \in Raised
    BY <2>1 DEF Clean
  <2>3. ~reg.noop => "noop" \in Raised
    BY <2>1 DEF Clean
  <2>4. (UNION {reg.plugins["core"], reg.plugins["sdk"], reg.timetables}) \ {Base} # {} => "caches" \in Raised
    BY <2>1 DEF Clean
  <2>5. reg.macros \ {Base} # {} => {"macros", "caches"} \cap Raised # {}
    BY <2>1 DEF Clean
  <2>6. reg.submodules \ {Base} # {} => {"modules", "caches"} \cap Raised # {}
    BY <2>1 DEF Clean
  <2>7. reg.settings # {Base} => "settings" \in Raised
    BY <2>1 DEF Clean, Steady
  <2>. QED BY <2>2, <2>3, <2>4, <2>5, <2>6, <2>7 DEF NothingLeaks
<1>2. RegisteredIsFound
  <2>1. InTest /\ claimed => reg \in Registries /\ Found(reg, running)
    BY Here
  <2>. QED BY <2>1, LookedUpKeeps DEF RegisteredIsFound, Found
<1>3. BaselineSurvives
  BY DEF SandboxInv, BaselineSurvives, Based
<1>. QED BY <1>1, <1>2, <1>3 DEF RegistriesSound, SandboxInv

\* Between tests no registry holds a component of one, unless the very step that takes it
\* out raised; within a test its own are found; and those of the run survive.
THEOREM RegistriesStaySound == SandboxSpec => []RegistriesSound
BY SandboxInvariant, SandboxIsSound, PTL

LEMMA TeardownIsWhole == SandboxInv /\ [SandboxNext]_sandboxVars => [TeardownStep]_sandboxVars
<1>. SUFFICES ASSUME SandboxInv, SandboxNext, steps # <<>> PROVE TeardownStep
  BY DEF TeardownStep
<1>1. CASE Step
  <2>1. /\ running \in Tests /\ Spares(reg, reg', snap) /\ snap \in Registries /\ Taken(snap, Raised)
        /\ Raised \subseteq Raised'
        /\ steps' = <<>> => \A x \in StepNames :
                              (x = "task" /\ ~sdk) \/ x \in raised'[running] \/ Undone(x, reg', snap)
    BY <1>1, StepLeaves DEF Ahead
  <2>2. reg.modules["lib"] # "absent" => reg'.modules["lib"] # "absent"
    BY <2>1 DEF Spares
  <2>3. ASSUME steps' = <<>>, NEW l \in Lists PROVE reg'.lists[l] = snap.lists[l] \/ l \in raised'[running]
    <3>1. (l = "task" /\ ~sdk) \/ l \in raised'[running] \/ Undone(l, reg', snap)
      BY <2>1, <2>3 DEF StepNames
    <3>2. CASE l = "policies"
      BY <3>1, <3>2, <2>1 DEF Undone, Spares
    <3>3. CASE l # "policies"
      <4>1. ~sdk => reg'.lists["task"] = {} /\ snap.lists["task"] = {}
        BY <2>1 DEF Spares, Taken, Steady
      <4>2. l \in {"executors", "secrets", "core", "task"}
        BY <3>3 DEF Lists
      <4>. QED BY <3>1, <4>1, <4>2 DEF Undone
    <3>. QED BY <3>2, <3>3
  <2>4. ASSUME steps' = <<>>, NEW m \in {"stem", "existing"}
        PROVE  reg'.modules[m] = snap.modules[m] \/ "modules" \in raised'[running]
    BY <2>1, <2>4 DEF Undone, StepNames
  <2>. QED BY <2>2, <2>3, <2>4 DEF TeardownStep
<1>2. CASE ~Step
  <2>1. BeginTest \/ SandboxEnded
    BY <1>2 DEF SandboxNext, Open, MakeDag, Plugin, Timetable, Executor, SecretsBackend, Listener, Policy,
                Touch, EndTest, Sandboxed, InTest
  <2>2. steps = <<>>
    BY <2>1 DEF BeginTest, SandboxEnded, SandboxInv
  <2>. QED BY <2>2
<1>. QED BY <1>1, <1>2

\* A teardown unloads no library first imported while the test ran; when it ends, what was
\* there when the sandbox was opened is there again, unless the step that puts it back raised.
THEOREM TeardownPutsBack == SandboxSpec => TeardownRestores
BY SandboxInvariant, TeardownIsWhole, PTL DEF SandboxSpec, TeardownRestores

-----------------------------------------------------------------------------
(***************************************************************************)
(* ComponentChecks                                                         *)
(*                                                                         *)
(* A gate that lets a component in has read every hookspec pluggy will     *)
(* validate it against, so no registry refuses what an earlier one took,   *)
(* for every release and every component.                                  *)
(***************************************************************************)

\* The hookimpls of the component when it is a listener.
Listening == Component.impls["listener"]

\* A registration that gets as far as the checks.
PutToTheChecks == call.op # "check" /\ ~Unfit

\* The gate and the registries agree: what was read before the first change still
\* describes the component when the last registry is entered.
ChecksInv ==
  /\ ChecksTypeOK
  /\ outcome \in {"open", "reported", "refused", "unsupported"} => entered = {}
  /\ outcome = "reported" => call.op = "check" /\ problems = Report(call.kind, Component)
  /\ outcome = "refused" => PutToTheChecks /\ Blocking # {}
  /\ outcome \in {"entering", "broken", "registered"} => PutToTheChecks /\ Blocking = {} /\ ~Unsupported
  /\ outcome = "entering" =>
       \/ pending = Targets /\ entered = {}
       \/ GateKind = "listener" /\ Asked = {"core", "task"} /\ pending = <<"task">> /\ entered = {"core"}
  /\ outcome = "registered" => /\ GateKind = "listener" => entered = Asked
                               /\ GateKind = "policy" => entered = {"policy"}
  /\ Airflow.v3 => outcome # "broken"

\* The release and the component are of their types.
LEMMA TypesHold ==
  ASSUME ChecksTypeOK
  PROVE  Airflow \in ReleaseType /\ Component \in ComponentType
BY ReleasesReal, OfferedReal DEF ChecksTypeOK, Airflow, Component

\* What is known of the hookspecs of the release installed.
LEMMA SpecsHold ==
  ASSUME ChecksTypeOK
  PROVE  /\ \A s \in Scopes : Airflow.seen[s] \subseteq Airflow.specs[s]
         /\ ~Airflow.sdk => Airflow.specs["task"] = {}
         /\ "policy" \in Airflow.importable => Airflow.seen["policy"] = Airflow.specs["policy"]
BY ReleasesReal DEF ChecksTypeOK, Airflow

\* A call that is not refused at once has one of the kinds that are registered.
LEMMA KindHolds ==
  ASSUME ChecksTypeOK, PutToTheChecks
  PROVE  /\ GateKind \in {"policy", "plugin", "listener", "executor", "secrets-backend", "timetable", "weight-strategy"}
         /\ GateKind = "policy" => call.op = "policy"
         /\ GateKind = "listener" => call.op \in {"listener", "round_trip"}
         /\ Asked \subseteq {"core", "task"}
<1>1. call.op \in {"listener", "plugin", "policy", "secrets_backend", "executor", "timetable", "schedule",
                   "serialization_round_trip", "priority_weight_strategy", "round_trip"}
  BY DEF ChecksTypeOK, Calls, PutToTheChecks
<1>2. call.op = "listener" => call.managers \subseteq {"core", "task"}
  BY DEF ChecksTypeOK, Calls
<1>3. call.op = "round_trip" => GateKind \in RoundTripKinds
  <2>. SUFFICES ASSUME call.op = "round_trip" PROVE GateKind \in RoundTripKinds
    OBVIOUS
  <2>. DEFINE S == Classified(Component) \cap RoundTripKinds
  <2>1. Cardinality(S) = 1
    BY DEF PutToTheChecks, Unfit
  <2>2. S # {}
    BY <2>1, FS_EmptySet
  <2>3. GateKind = CHOOSE k \in S : TRUE
    BY DEF GateKind
  <2>. QED BY <2>2, <2>3
<1>4. call.op # "round_trip" => GateKind = CASE call.op \in {"plugin", "listener", "policy", "executor", "timetable"} -> call.op
    [] call.op = "secrets_backend" -> "secrets-backend"
    [] call.op \in {"schedule", "serialization_round_trip"} -> "timetable"
    [] call.op = "priority_weight_strategy" -> "weight-strategy"
  BY <1>1 DEF GateKind
<1>5. Asked \subseteq {"core", "task"}
  BY <1>2 DEF Asked
<1>. QED BY <1>1, <1>3, <1>4, <1>5 DEF RoundTripKinds

\* A listener is refused exactly for a hookimpl without hookspec, one with an argument
\* too many, and one only a manager not asked for would call.
LEMMA ListenerGate ==
  ASSUME Airflow.v3, GateKind = "listener"
  PROVE  Blocking = {} <=>
           /\ ~Unmatched(Listening, {"core", "task"}) /\ ~Misnamed(Listening, {"core", "task"})
           /\ "core" \notin Asked => ~OutOfReach(Listening, "core", "task")
           /\ "task" \notin Asked => ~OutOfReach(Listening, "task", "core")
<1>1. Blocking = ListenerProblems(Component) \ Mooted
  BY DEF Blocking, ProblemsOf
<1>. QED BY <1>1 DEF ListenerProblems, Mooted, Problem, Listening

\* A policy is refused exactly for a hook Airflow does not have, or an argument too many.
LEMMA PolicyGate ==
  ASSUME Airflow.v3, GateKind = "policy", call.op = "policy", ~Unfit
  PROVE  Blocking = {} <=> /\ ~Unmatched(Component.impls["policy"], {"policy"})
                           /\ ~Misnamed(Component.impls["policy"], {"policy"})
<1>1. Blocking = PolicyProblems(Component)
  BY DEF Blocking, ProblemsOf
<1>2. "policy" \in Airflow.importable
  BY DEF Unfit
<1>. QED BY <1>1, <1>2 DEF PolicyProblems, Problem

\* What is let in pluggy does not reject, in any registry it is to enter.
LEMMA NoneInvalid ==
  ASSUME ChecksTypeOK, Airflow.v3, PutToTheChecks, Blocking = {}, GateKind \in {"listener", "policy"},
         NEW m \in Scopes, (m = "policy") <=> (GateKind = "policy")
  PROVE  ~Invalid(m)
<1>1. CASE GateKind = "listener"
  <2>1. \A i \in Listening : i.hook \in Seen({"core", "task"}) /\ i.args \subseteq Airflow.accepts[i.hook]
    BY <1>1, ListenerGate DEF Unmatched, Misnamed
  <2>. QED BY <1>1, <2>1 DEF Invalid, Listening
<1>2. CASE GateKind = "policy"
  <2>1. call.op = "policy"
    BY <1>2, KindHolds
  <2>2. \A i \in Component.impls["policy"] : i.hook \in Seen({"policy"}) /\ i.args \subseteq Airflow.accepts[i.hook]
    BY <1>2, <2>1, PolicyGate DEF Unmatched, Misnamed, PutToTheChecks
  <2>. QED BY <1>2, <2>2 DEF Invalid
<1>. QED BY <1>1, <1>2

\* What the release, the component and the call determine.
LEMMA Determined ==
  ASSUME UNCHANGED <<release, offered, call>>
  PROVE  /\ Airflow' = Airflow /\ Component' = Component
         /\ Report(call.kind, Component)' = Report(call.kind, Component)
         /\ GateKind' = GateKind /\ Asked' = Asked /\ Blocking' = Blocking /\ Targets' = Targets
         /\ (PutToTheChecks' <=> PutToTheChecks) /\ (Unsupported' <=> Unsupported)
<1>1. Airflow' = Airflow /\ Component' = Component /\ call' = call
  BY DEF Airflow, Component
<1>2. \A s : Seen(s)' = Seen(s)
  BY <1>1 DEF Seen
<1>3. \A c : ListenerProblems(c)' = ListenerProblems(c)
  BY <1>1, <1>2 DEF ListenerProblems, Unmatched, Misnamed, OutOfReach, Seen
<1>4. \A c : PolicyProblems(c)' = PolicyProblems(c)
  BY <1>1, <1>2 DEF PolicyProblems, Unmatched, Misnamed, Seen
<1>5. \A k, c : ProblemsOf(k, c)' = ProblemsOf(k, c)
  BY <1>1, <1>3, <1>4 DEF ProblemsOf, ExecutorProblems, SentryFlagWrong, XComProblems, WeightStrategyProblems,
       NotifierProblems, SecretsBackendProblems, ProviderProblems
<1>6. \A c : Classified(c)' = Classified(c)
  BY <1>1 DEF Classified
<1>7. Report(call.kind, Component)' = Report(call.kind, Component)
  BY <1>1, <1>5, <1>6 DEF Report
<1>8. GateKind' = GateKind
  BY <1>1, <1>6 DEF GateKind
<1>9. Asked' = Asked
  BY <1>1 DEF Asked
<1>10. Blocking' = Blocking
  BY <1>1, <1>5, <1>8, <1>9 DEF Blocking, Mooted
<1>11. Targets' = Targets
  BY <1>8, <1>9 DEF Targets
<1>12. PutToTheChecks' <=> PutToTheChecks
  BY <1>1, <1>6 DEF PutToTheChecks, Unfit
<1>13. Unsupported' <=> Unsupported
  BY <1>1, <1>8, <1>9 DEF Unsupported
<1>. QED BY <1>1, <1>7, <1>8, <1>9, <1>10, <1>11, <1>12, <1>13

LEMMA TargetsHold ==
  ASSUME ChecksTypeOK, PutToTheChecks, ~Unsupported
  PROVE  /\ Targets \in Seq(Entrances) /\ Targets # <<>>
         /\ GateKind = "listener" => \/ Targets = <<"core">> /\ Asked = {"core"}
                                     \/ Targets = <<"task">> /\ Asked = {"task"}
                                     \/ Targets = <<"core", "task">> /\ Asked = {"core", "task"}
         /\ GateKind = "policy" => Targets = <<"policy">>
         /\ GateKind \notin {"listener", "policy"} =>
              Targets \in {<<"secrets">>, <<"executors">>, <<"plugins">>}
<1>1. GateKind = "listener" => Asked # {} /\ Asked \subseteq {"core", "task"}
  BY KindHolds DEF Unsupported
<1>2. /\ GateKind = "listener" => \/ Targets = <<"core">> /\ Asked = {"core"}
                                  \/ Targets = <<"task">> /\ Asked = {"task"}
                                  \/ Targets = <<"core", "task">> /\ Asked = {"core", "task"}
      /\ GateKind = "policy" => Targets = <<"policy">>
      /\ GateKind \notin {"listener", "policy"} =>
           Targets \in {<<"secrets">>, <<"executors">>, <<"plugins">>}
  BY <1>1, KindHolds DEF Targets
<1>3. \A e \in Entrances : <<e>> \in Seq(Entrances) /\ <<e>> # <<>>
  OBVIOUS
<1>4. <<"core", "task">> \in Seq(Entrances) /\ <<"core", "task">> # <<>>
  BY DEF Entrances
<1>5. {"core", "task", "policy", "secrets", "executors", "plugins"} \subseteq Entrances
  BY DEF Entrances
<1>. QED BY <1>2, <1>3, <1>4, <1>5

\* A queue of one registry, or of the two managers.
LEMMA OneByOne ==
  /\ \A e \in Entrances : <<e>> \in Seq(Entrances) /\ <<e>> # <<>> /\ Head(<<e>>) = e /\ Tail(<<e>>) = <<>>
  /\ Head(<<"core", "task">>) = "core" /\ Tail(<<"core", "task">>) = <<"task">>
  /\ {"core", "task", "policy", "secrets", "executors", "plugins"} \subseteq Entrances
BY DEF Entrances

LEMMA EntersOne ==
  ASSUME ChecksInv, EnterOne
  PROVE  ChecksInv'
<1>1. /\ outcome = "entering" /\ UNCHANGED <<release, offered, call, problems>>
      /\ entered' = entered \cup {Head(pending)}
      /\ outcome' \in {"broken", "entering", "registered"}
  BY DEF EnterOne
<1>2. ChecksTypeOK /\ PutToTheChecks /\ Blocking = {} /\ ~Unsupported
  BY <1>1 DEF ChecksInv
<1>3. /\ Airflow' = Airflow /\ GateKind' = GateKind /\ Asked' = Asked /\ Blocking' = {} /\ Targets' = Targets
      /\ PutToTheChecks' /\ ~Unsupported'
  BY <1>1, <1>2, Determined
<1>4. /\ Targets \in Seq(Entrances) /\ Targets # <<>>
      /\ GateKind = "listener" => \/ Targets = <<"core">> /\ Asked = {"core"}
                                  \/ Targets = <<"task">> /\ Asked = {"task"}
                                  \/ Targets = <<"core", "task">> /\ Asked = {"core", "task"}
      /\ GateKind = "policy" => Targets = <<"policy">>
      /\ GateKind \notin {"listener", "policy"} => Targets \in {<<"secrets">>, <<"executors">>, <<"plugins">>}
  BY <1>2, TargetsHold
<1>5. \/ pending = Targets /\ entered = {}
      \/ GateKind = "listener" /\ Asked = {"core", "task"} /\ pending = <<"task">> /\ entered = {"core"}
  BY <1>1 DEF ChecksInv
<1>6. /\ GateKind = "listener" => Head(pending) \in {"core", "task"}
      /\ GateKind = "policy" => Head(pending) = "policy"
      /\ GateKind \notin {"listener", "policy"} => Head(pending) \notin Scopes
      /\ pending \in Seq(Entrances) /\ pending # <<>> /\ Head(pending) \in Entrances
  BY <1>4, <1>5 DEF Scopes, Entrances
<1>7. Airflow.v3 => ~(Head(pending) \in Scopes /\ Invalid(Head(pending)))
  <2>. SUFFICES ASSUME Airflow.v3, Head(pending) \in Scopes PROVE ~Invalid(Head(pending))
    OBVIOUS
  <2>1. GateKind \in {"listener", "policy"} /\ ((Head(pending) = "policy") <=> (GateKind = "policy"))
    BY <1>6
  <2>. QED BY <1>2, <2>1, NoneInvalid
<1>8. ChecksTypeOK'
  <2>1. pending' \in Seq(Entrances)
    BY <1>6 DEF EnterOne
  <2>2. entered' \subseteq Entrances
    BY <1>1, <1>2, <1>6 DEF ChecksTypeOK
  <2>. QED BY <1>1, <1>2, <2>1, <2>2 DEF ChecksTypeOK, Outcomes
<1>9. Airflow.v3 => outcome' # "broken"
  BY <1>7 DEF EnterOne
<1>10. CASE outcome' = "broken"
  BY <1>3, <1>8, <1>9, <1>10 DEF ChecksInv
<1>11. CASE outcome' # "broken"
  <2>1. pending' = Tail(pending) /\ outcome' = IF pending' = <<>> THEN "registered" ELSE "entering"
    BY <1>11 DEF EnterOne
  <2>2. CASE GateKind = "listener"
    <3>1. \/ pending = <<"core">> /\ Asked = {"core"} /\ entered = {}
          \/ pending = <<"task">> /\ Asked = {"task"} /\ entered = {}
          \/ pending = <<"core", "task">> /\ Asked = {"core", "task"} /\ entered = {}
          \/ pending = <<"task">> /\ Asked = {"core", "task"} /\ entered = {"core"}
      BY <2>2, <1>4, <1>5
    <3>2. \/ pending' = <<>> /\ outcome' = "registered" /\ entered' = Asked
          \/ /\ pending' = <<"task">> /\ outcome' = "entering" /\ entered' = {"core"} /\ Asked = {"core", "task"}
      <4>1. CASE pending = <<"core", "task">> /\ Asked = {"core", "task"} /\ entered = {}
        <5>1. pending' = <<"task">> /\ entered' = {"core"} /\ <<"task">> # <<>>
          BY <4>1, <1>1, <2>1, OneByOne
        <5>. QED BY <4>1, <5>1, <2>1
      <4>2. CASE pending = <<"core">> /\ Asked = {"core"} /\ entered = {}
        BY <4>2, <1>1, <2>1, OneByOne
      <4>3. CASE pending = <<"task">> /\ ((Asked = {"task"} /\ entered = {}) \/ (Asked = {"core", "task"} /\ entered = {"core"}))
        <5>1. pending' = <<>> /\ entered' = entered \cup {"task"}
          BY <4>3, <1>1, <2>1, OneByOne
        <5>. QED BY <4>3, <5>1, <2>1
      <4>. QED BY <4>1, <4>2, <4>3, <3>1
    <3>. QED BY <2>2, <3>2, <1>3, <1>8 DEF ChecksInv
  <2>3. CASE GateKind # "listener"
    <3>1. pending' = <<>> /\ outcome' = "registered" /\ (GateKind = "policy" => entered' = {"policy"})
      <4>1. pending = Targets /\ entered = {}
        BY <2>3, <1>5
      <4>2. pending \in {<<"policy">>, <<"secrets">>, <<"executors">>, <<"plugins">>}
        BY <4>1, <2>3, <1>4
      <4>. QED BY <4>1, <4>2, <1>1, <1>6, <2>1
    <3>. QED BY <2>3, <3>1, <1>3, <1>8 DEF ChecksInv
  <2>. QED BY <2>2, <2>3
<1>. QED BY <1>10, <1>11

LEMMA PassesGate ==
  ASSUME ChecksInv, Gate
  PROVE  ChecksInv'
<1>1. /\ outcome = "open" /\ call.op # "check" /\ UNCHANGED <<release, offered, call, entered>>
      /\ ChecksTypeOK /\ entered = {}
  BY DEF Gate, ChecksInv
<1>2. /\ Airflow' = Airflow /\ GateKind' = GateKind /\ Asked' = Asked /\ Blocking' = Blocking /\ Targets' = Targets
      /\ (PutToTheChecks' <=> PutToTheChecks) /\ (Unsupported' <=> Unsupported)
  BY <1>1, Determined
<1>3. CASE Unfit
  <2>1. outcome' = "unsupported" /\ pending' = pending
    BY <1>3 DEF Gate
  <2>2. ChecksTypeOK'
    BY <1>1, <2>1 DEF ChecksTypeOK, Outcomes
  <2>. QED BY <1>1, <2>1, <2>2 DEF ChecksInv
<1>4. CASE ~Unfit
  <2>1. /\ outcome' = IF Blocking # {} THEN "refused" ELSE IF Unsupported THEN "unsupported" ELSE "entering"
        /\ pending' = IF outcome' = "entering" THEN Targets ELSE <<>>
    BY <1>4 DEF Gate
  <2>2. PutToTheChecks
    BY <1>1, <1>4 DEF PutToTheChecks
  <2>3. CASE Blocking # {}
    <3>1. outcome' = "refused" /\ pending' = <<>>
      BY <2>1, <2>3
    <3>2. ChecksTypeOK'
      BY <1>1, <3>1 DEF ChecksTypeOK, Outcomes
    <3>. QED BY <1>1, <1>2, <2>2, <2>3, <3>1, <3>2 DEF ChecksInv
  <2>4. CASE Blocking = {} /\ Unsupported
    <3>1. outcome' = "unsupported" /\ pending' = <<>>
      BY <2>1, <2>4
    <3>2. ChecksTypeOK'
      BY <1>1, <3>1 DEF ChecksTypeOK, Outcomes
    <3>. QED BY <1>1, <3>1, <3>2 DEF ChecksInv
  <2>5. CASE Blocking = {} /\ ~Unsupported
    <3>1. outcome' = "entering" /\ pending' = Targets
      BY <2>1, <2>5
    <3>2. ChecksTypeOK'
      BY <1>1, <2>2, <2>5, <3>1, TargetsHold DEF ChecksTypeOK, Outcomes
    <3>. QED BY <1>1, <1>2, <2>2, <2>5, <3>1, <3>2 DEF ChecksInv
  <2>. QED BY <2>3, <2>4, <2>5
<1>. QED BY <1>3, <1>4

\* What a component needs to have passed is kept while it enters the registries, for
\* every release and component.
THEOREM ChecksInvariant == ChecksSpec => []ChecksInv
<1>1. ChecksInit => ChecksInv
  <2>. SUFFICES ASSUME ChecksInit PROVE ChecksInv
    OBVIOUS
  <2>1. ChecksTypeOK
    BY DEF ChecksInit, ChecksTypeOK, Outcomes
  <2>. QED BY <2>1 DEF ChecksInit, ChecksInv
<1>2. ChecksInv /\ [ChecksNext]_checkVars => ChecksInv'
  <2>. SUFFICES ASSUME ChecksInv, [ChecksNext]_checkVars PROVE ChecksInv'
    OBVIOUS
  <2>1. CASE CheckComponent
    <3>1. /\ problems' = Report(call.kind, Component) /\ outcome' = "reported" /\ call.op = "check" /\ outcome = "open"
          /\ UNCHANGED <<release, offered, call, pending, entered>> /\ entered = {} /\ ChecksTypeOK
      BY <2>1 DEF CheckComponent, ChecksInv
    <3>2. ChecksTypeOK'
      BY <3>1 DEF ChecksTypeOK, Outcomes
    <3>3. problems' = Report(call.kind, Component)'
      BY <3>1, Determined
    <3>. QED BY <3>1, <3>2, <3>3 DEF ChecksInv
  <2>2. CASE UNCHANGED checkVars
    <3>1. UNCHANGED <<release, offered, call>> /\ UNCHANGED <<problems, outcome, pending, entered>>
      BY <2>2 DEF checkVars
    <3>2. ChecksTypeOK'
      BY <3>1 DEF ChecksInv, ChecksTypeOK
    <3>. QED BY <3>1, <3>2, Determined DEF ChecksInv
  <2>. QED BY <2>1, <2>2, EntersOne, PassesGate DEF ChecksNext, Settled
<1>. QED BY <1>1, <1>2, PTL DEF ChecksSpec

\* Whatever the release and the component: no listener is left registered with one
\* manager and rejected by the other, every hookimpl let in is called, and none is kept
\* out that would have been.
THEOREM GateStaysSound == ChecksSpec => []GateSound
<1>1. ASSUME ChecksInv PROVE GateSound
  <2>0. ChecksTypeOK
    BY <1>1 DEF ChecksInv
  <2>1. NeverHalfRegistered /\ RefusedStaysOut
    BY <1>1 DEF ChecksInv, NeverHalfRegistered, RefusedStaysOut
  <2>2. HookimplsFire
    <3>. SUFFICES ASSUME Airflow.v3, outcome = "registered", GateKind \in {"listener", "policy"},
                         \A m \in entered : Airflow.seen[m] # {},
                         NEW i \in Component.impls[GateKind]
                  PROVE  Fires(i, entered)
      BY DEF HookimplsFire
    <3>1. PutToTheChecks /\ Blocking = {} /\ ~Unsupported
      BY <1>1 DEF ChecksInv
    <3>2. CASE GateKind = "listener"
      <4>1. entered = Asked /\ Asked # {} /\ Asked \subseteq {"core", "task"}
        BY <1>1, <2>0, <3>1, <3>2, KindHolds DEF ChecksInv, Unsupported
      <4>2. i \in Listening
        BY <3>2 DEF Listening
      <4>3. i.hook \in Seen({"core", "task"}) /\ i.args \subseteq Airflow.accepts[i.hook]
        BY <3>1, <3>2, <4>2, ListenerGate DEF Unmatched, Misnamed
      <4>4. i.hook \in Airflow.seen["core"] \/ i.hook \in Airflow.seen["task"]
        BY <4>3 DEF Seen
      <4>5. \E m \in Asked : i.hook \in Airflow.seen[m]
        <5>1. "core" \notin Asked => ~OutOfReach(Listening, "core", "task")
          BY <3>1, <3>2, ListenerGate
        <5>2. "task" \notin Asked => ~OutOfReach(Listening, "task", "core")
          BY <3>1, <3>2, ListenerGate
        <5>3. CASE "core" \notin Asked
          <6>1. Airflow.seen["task"] # {} /\ "task" \in Asked
            BY <4>1, <5>3
          <6>. QED BY <6>1, <5>1, <5>3, <4>2, <4>4 DEF OutOfReach, Seen
        <5>4. CASE "task" \notin Asked
          <6>1. Airflow.seen["core"] # {} /\ "core" \in Asked
            BY <4>1, <5>4
          <6>. QED BY <6>1, <5>2, <5>4, <4>2, <4>4 DEF OutOfReach, Seen
        <5>. QED BY <5>3, <5>4, <4>4
      <4>. QED BY <4>1, <4>3, <4>5, <2>0, SpecsHold DEF Fires, Scopes
    <3>3. CASE GateKind = "policy"
      <4>1. call.op = "policy" /\ ~Unfit
        BY <3>1, <3>3, <2>0, KindHolds DEF PutToTheChecks
      <4>2. i.hook \in Seen({"policy"}) /\ i.args \subseteq Airflow.accepts[i.hook]
        BY <3>1, <3>3, <4>1, PolicyGate DEF Unmatched, Misnamed
      <4>3. i.hook \in Airflow.specs["policy"]
        BY <4>2, <2>0, SpecsHold DEF Seen, Scopes
      <4>4. entered = {"policy"}
        BY <1>1, <3>3 DEF ChecksInv
      <4>. QED BY <4>2, <4>3, <4>4 DEF Fires
    <3>. QED BY <3>2, <3>3
  <2>3. RefusalsJustified
    <3>. SUFFICES ASSUME outcome = "refused", Airflow.seen = Airflow.specs, GateKind \in {"listener", "policy"}
                  PROVE  \E i \in Component.impls[GateKind] :
                           ~Fires(i, IF GateKind = "listener" THEN Asked ELSE {"policy"})
      BY DEF RefusalsJustified
    <3>1. PutToTheChecks /\ Blocking # {}
      BY <1>1 DEF ChecksInv
    <3>2. Airflow.v3
      BY <3>1 DEF Blocking, ProblemsOf
    <3>3. CASE GateKind = "listener"
      <4>1. Asked \subseteq {"core", "task"}
        BY <2>0, <3>1, KindHolds
      <4>2. \/ Unmatched(Listening, {"core", "task"}) \/ Misnamed(Listening, {"core", "task"})
            \/ "core" \notin Asked /\ OutOfReach(Listening, "core", "task")
            \/ "task" \notin Asked /\ OutOfReach(Listening, "task", "core")
        BY <3>1, <3>2, <3>3, ListenerGate
      <4>3. \E i \in Listening : ~Fires(i, Asked)
        <5>1. CASE Unmatched(Listening, {"core", "task"})
          BY <5>1, <4>1 DEF Unmatched, Fires, Seen
        <5>2. CASE Misnamed(Listening, {"core", "task"})
          BY <5>2 DEF Misnamed, Fires
        <5>3. CASE "core" \notin Asked /\ OutOfReach(Listening, "core", "task")
          BY <5>3, <4>1 DEF OutOfReach, Fires, Seen
        <5>4. CASE "task" \notin Asked /\ OutOfReach(Listening, "task", "core")
          BY <5>4, <4>1 DEF OutOfReach, Fires, Seen
        <5>. QED BY <4>2, <5>1, <5>2, <5>3, <5>4
      <4>. QED BY <3>3, <4>3 DEF Listening
    <3>4. CASE GateKind = "policy"
      <4>1. call.op = "policy" /\ ~Unfit
        BY <3>1, <3>4, <2>0, KindHolds DEF PutToTheChecks
      <4>2. Unmatched(Component.impls["policy"], {"policy"}) \/ Misnamed(Component.impls["policy"], {"policy"})
        BY <3>1, <3>2, <3>4, <4>1, PolicyGate
      <4>3. \E i \in Component.impls["policy"] : ~Fires(i, {"policy"})
        BY <4>2 DEF Unmatched, Misnamed, Fires, Seen
      <4>. QED BY <3>4, <4>3
    <3>. QED BY <3>3, <3>4
  <2>4. FoundAgain
    <3>. SUFFICES ASSUME outcome = "registered", GateKind \in {"timetable", "executor"}, Component.local PROVE FALSE
      BY DEF FoundAgain
    <3>1. PutToTheChecks /\ Blocking = {} /\ ~Unsupported
      BY <1>1 DEF ChecksInv
    <3>2. GateKind = "timetable"
      BY <3>1 DEF Unsupported
    <3>3. "timetable-local-qualname" \in ProblemsOf("timetable", Component)
      BY DEF ProblemsOf, TimetableProblems, Problem
    <3>4. "timetable-local-qualname" \in Blocking
      BY <3>2, <3>3 DEF Blocking
    <3>. QED BY <3>1, <3>4
  <2>5. CleanIsUsable
    <3>. SUFFICES ASSUME outcome = "reported", problems = {}, Airflow.v3,
                         NEW k \in IF call.kind = "any" THEN Classified(Component) ELSE {call.kind},
                         FailsInUse(k, Component)
                  PROVE  Unseen(k, Component)
      BY DEF CleanIsUsable
    <3>1. call.op = "check" /\ Report(call.kind, Component) = {}
      BY <1>1 DEF ChecksInv
    <3>2. ProblemsOf(k, Component) = {}
      BY <3>1 DEF Report
    <3>3. k \in Kinds
      BY <2>0, <3>1 DEF ChecksTypeOK, Calls, Classified
    <3>4. CASE k = "timetable"
      <4>1. TimetableProblems(Component) = {}
        BY <3>2, <3>4 DEF ProblemsOf
      <4>. QED BY <4>1, <3>4 DEF TimetableProblems, Problem, FailsInUse, Unseen, Undefined
    <3>5. CASE k = "executor"
      BY <3>2, <3>5 DEF ProblemsOf, ExecutorProblems, Problem, FailsInUse, Undefined
    <3>6. CASE k = "xcom"
      BY <3>2, <3>6 DEF ProblemsOf, XComProblems, Problem, FailsInUse, Unseen
    <3>7. CASE k = "weight-strategy"
      <4>1. Component.hash \in {"None", "base", "own"}
        BY <2>0, TypesHold DEF ComponentType
      <4>. QED BY <4>1, <3>2, <3>7 DEF ProblemsOf, WeightStrategyProblems, Problem, FailsInUse, Unseen
    <3>8. CASE k = "notifier"
      BY <3>2, <3>8 DEF ProblemsOf, NotifierProblems, Problem, FailsInUse, Unseen
    <3>9. CASE k = "plugin"
      BY <3>2, <3>9 DEF ProblemsOf, PluginProblems, Problem, FailsInUse
    <3>10. CASE k = "provider"
      BY <3>2, <3>10 DEF ProblemsOf, ProviderProblems, Problem, FailsInUse, Unseen
    <3>11. CASE k \in {"listener", "policy", "secrets-backend"}
      BY <3>11 DEF FailsInUse
    <3>. QED BY <3>3, <3>4, <3>5, <3>6, <3>7, <3>8, <3>9, <3>10, <3>11 DEF Kinds, Bases
  <2>. QED BY <2>0, <2>1, <2>2, <2>3, <2>4, <2>5 DEF GateSound
<1>. QED BY <1>1, ChecksInvariant, PTL
=============================================================================
