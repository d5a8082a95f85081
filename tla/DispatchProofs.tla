--------------------------- MODULE DispatchProofs ---------------------------
(***************************************************************************)
(* Proofs about MockDispatch under the tests of TestRuns, for every table  *)
(* of rules, stubs and endpoints and any interleaving of requests, servers *)
(* and runs: the outputs of a rule happen at most once and in their order  *)
(* around the reply; no stub outlives the runs of its test; a stub         *)
(* expectation that is MATCHED was called; and one that is not, of a run   *)
(* that has its test to itself, was called too seldom.                     *)
(***************************************************************************)
EXTENDS TestRuns, FiniteSetTheorems, WellFoundedInduction, TLAPS

\* The outputs of request q up to its next one have been tried in their order,
\* those after it are tasks or have been; there are none before the reply.
InTurn(f, out, T, replied) ==
    /\ f \in Seq(Nat) /\ out \in Nat /\ out >= 1
    /\ out - 1 <= Len(f)
    /\ \A i \in 1..Len(f) : i < out => f[i] = i
    /\ \A i \in 1..Len(f) : i >= out => f[i] > out /\ f[i] \notin T
    /\ \A i, j \in 1..Len(f) : f[i] = f[j] => i = j
    /\ \A k \in T : k \in Nat => k > out
    /\ ~replied => Len(f) = out - 1 /\ T = {}

TasksOf(q) == {t[2] : t \in {u \in tasks : u[1] = q}}
IsRequest(r) == DOMAIN r = {"at", "server", "kind", "seen", "rule", "out", "answer"}
AllInTurn ==
    /\ \A q \in Requests : InTurn(fired[q], req[q].out, TasksOf(q), req[q].at = "replied")
    /\ \A q \in Requests : IsRequest(req[q])
    /\ req = [q \in Requests |-> req[q]] /\ fired = [q \in Requests |-> fired[q]]
    /\ \A t \in tasks : t = <<t[1], t[2]>>

LEMMA TurnInit == Init => AllInTurn
<1> SUFFICES ASSUME Init PROVE AllInTurn
  OBVIOUS
<1>1. ASSUME NEW q \in Requests
      PROVE  InTurn(fired[q], req[q].out, TasksOf(q), req[q].at = "replied") /\ IsRequest(req[q])
  <2>1. req[q] = NotSent
    BY DEF Init, DispatchInit
  <2>2. IsRequest(NotSent)
    BY DEF IsRequest, NotSent
  <2>3. fired[q] = <<>> /\ req[q].out = 1 /\ req[q].at = "unsent" /\ TasksOf(q) = {}
    BY <2>1 DEF Init, DispatchInit, NotSent, TasksOf
  <2> QED
    BY <2>1, <2>2, <2>3 DEF InTurn
<1> QED
  BY <1>1 DEF Init, DispatchInit, AllInTurn

\* The next output in turn, and one of the outputs after the reply.
LEMMA NextInTurn ==
  ASSUME NEW f, NEW k, NEW T, InTurn(f, k, T, FALSE)
  PROVE  InTurn(Append(f, k), k + 1, T, FALSE)
<1> DEFINE g == Append(f, k)
<1>1. f \in Seq(Nat) /\ k \in Nat /\ Len(f) = k - 1 /\ T = {} /\ k >= 1
      /\ \A i \in 1..Len(f) : f[i] = i
  BY DEF InTurn
<1>2. g \in Seq(Nat) /\ Len(g) = k
  BY <1>1
<1>3. \A i \in 1..Len(g) : g[i] = i
  BY <1>1, <1>2
<1> HIDE DEF g
<1> QED
  BY <1>1, <1>2, <1>3 DEF InTurn

LEMMA LaterInTurn ==
  ASSUME NEW f, NEW out, NEW T, NEW k \in T, k \in Nat, InTurn(f, out, T, TRUE)
  PROVE  InTurn(Append(f, k), out, T \ {k}, TRUE)
<1> DEFINE g == Append(f, k)
<1>1. f \in Seq(Nat) /\ out \in Nat /\ out - 1 <= Len(f) /\ k > out /\ Len(f) \in Nat
  BY DEF InTurn
<1>2. g \in Seq(Nat) /\ Len(g) = Len(f) + 1 /\ g[Len(f) + 1] = k
      /\ \A i \in 1..Len(f) : g[i] = f[i]
  BY <1>1
<1>3. \A i \in 1..Len(f) : f[i] # k
  BY <1>1 DEF InTurn
<1> HIDE DEF g
<1>4. ASSUME NEW i \in 1..Len(g)
      PROVE  (i < out => g[i] = i) /\ (i >= out => g[i] > out /\ g[i] \notin T \ {k})
  <2>1. CASE i = Len(f) + 1
    BY <1>1, <1>2, <2>1
  <2>2. CASE i # Len(f) + 1
    <3>1. i \in 1..Len(f) /\ g[i] = f[i]
      BY <1>1, <1>2, <2>2
    <3> QED
      BY <3>1 DEF InTurn
  <2> QED
    BY <2>1, <2>2
<1>5. ASSUME NEW i \in 1..Len(g), NEW j \in 1..Len(g), g[i] = g[j] PROVE i = j
  <2>1. \A x \in 1..Len(g) : x = Len(f) + 1 \/ x \in 1..Len(f)
    BY <1>1, <1>2
  <2>2. \A x \in 1..Len(f) : g[x] # g[Len(f) + 1]
    BY <1>2, <1>3
  <2>3. CASE i \in 1..Len(f) /\ j \in 1..Len(f)
    <3>1. f[i] = f[j]
      BY <1>2, <1>5, <2>3
    <3> QED
      BY <2>3, <3>1 DEF InTurn
  <2>4. CASE i = Len(f) + 1 /\ j \in 1..Len(f)
    BY <1>5, <2>2, <2>4
  <2>5. CASE j = Len(f) + 1 /\ i \in 1..Len(f)
    BY <1>5, <2>2, <2>5
  <2>6. CASE i = Len(f) + 1 /\ j = Len(f) + 1
    BY <2>6
  <2> QED
    BY <2>1, <2>3, <2>4, <2>5, <2>6
<1> QED
  BY <1>1, <1>2, <1>4, <1>5 DEF InTurn

\* A request that moves on and keeps its outputs.
LEMMA MovesOn ==
  ASSUME AllInTurn, NEW q \in Requests, NEW s, IsRequest(s), s.out = req[q].out,
         req[q].at # "replied",
         req' = [req EXCEPT ![q] = s], UNCHANGED <<tasks, fired>>
  PROVE  AllInTurn'
<1>1. \A p \in Requests : req'[p] = IF p = q THEN s ELSE req[p]
  BY DEF AllInTurn
<1>2. \A p \in Requests : TasksOf(p)' = TasksOf(p)
  BY DEF TasksOf
<1>3. ASSUME NEW p \in Requests
      PROVE  InTurn(fired[p], req'[p].out, TasksOf(p), req'[p].at = "replied")
  BY <1>1 DEF AllInTurn, InTurn
<1>4. req' = [p \in Requests |-> req'[p]] /\ fired' = [p \in Requests |-> fired'[p]]
  BY DEF AllInTurn
<1> QED
  BY <1>1, <1>2, <1>3, <1>4 DEF AllInTurn

-----------------------------------------------------------------------------
LEMMA TurnStep ==
  ASSUME AllInTurn, [Next]_vars
  PROVE  AllInTurn'
<1>1. CASE UNCHANGED dispatchVars
  BY <1>1 DEF dispatchVars, AllInTurn, TasksOf
<1>2. ASSUME NEW q \in Requests, SendRequest(q) PROVE AllInTurn'
  <2>1. PICK c \in Sends : req' = [req EXCEPT ![q] = [@ EXCEPT !.at = "arrived", !.server = c[1], !.kind = c[2]]]
    BY <1>2 DEF SendRequest
  <2> DEFINE s == [req[q] EXCEPT !.at = "arrived", !.server = c[1], !.kind = c[2]]
  <2>2. req' = [req EXCEPT ![q] = s]
    BY <2>1
  <2>3. IsRequest(s) /\ s.out = req[q].out /\ s.at = "arrived"
    BY DEF AllInTurn, IsRequest
  <2> HIDE DEF s
  <2> QED
    BY <1>2, <2>2, <2>3, MovesOn DEF SendRequest
<1>3. ASSUME NEW q \in Requests, Dispatch(q) PROVE AllInTurn'
  <2> DEFINE s == [req[q] EXCEPT !.at = "matching", !.seen = stubs]
  <2>1. req' = [req EXCEPT ![q] = s]
    BY <1>3 DEF Dispatch
  <2>2. IsRequest(s) /\ s.out = req[q].out /\ s.at = "matching"
    BY DEF AllInTurn, IsRequest
  <2> HIDE DEF s
  <2> QED
    BY <1>3, <2>1, <2>2, MovesOn DEF Dispatch
<1>4. ASSUME NEW q \in Requests, NEW answer PROVE
        LET s == [req[q] EXCEPT !.at = "replied", !.answer = answer, !.seen = <<>>] IN
        /\ Replied(q, answer) = [req EXCEPT ![q] = s]
        /\ IsRequest(s) /\ s.out = req[q].out /\ s.at = "replied"
  BY DEF AllInTurn, IsRequest, Replied
<1>5. ASSUME NEW q \in Requests, ReplyFromStub(q) \/ ReplyFromConfiguration(q) PROVE AllInTurn'
  <2>1. PICK answer : req' = Replied(q, answer)
    BY <1>5 DEF ReplyFromStub, ReplyFromConfiguration
  <2> DEFINE s == [req[q] EXCEPT !.at = "replied", !.answer = answer, !.seen = <<>>]
  <2>2. req' = [req EXCEPT ![q] = s] /\ IsRequest(s) /\ s.out = req[q].out /\ s.at = "replied"
    BY <1>4, <2>1
  <2> HIDE DEF s
  <2>3. req[q].at = "matching" /\ UNCHANGED <<tasks, fired>>
    BY <1>5 DEF ReplyFromStub, ReplyFromConfiguration
  <2> QED
    BY <2>2, <2>3, MovesOn
<1>6. ASSUME NEW q \in Requests, MatchRule(q) PROVE AllInTurn'
  <2>1. PICK i : req' = [req EXCEPT ![q].at = "outputs", ![q].seen = <<>>, ![q].rule = i]
    BY <1>6 DEF MatchRule
  <2> DEFINE s == [req[q] EXCEPT !.at = "outputs", !.seen = <<>>, !.rule = i]
  <2>2. req' = [req EXCEPT ![q] = s]
    BY <2>1
  <2>3. IsRequest(s) /\ s.out = req[q].out /\ s.at = "outputs"
    BY DEF AllInTurn, IsRequest
  <2> HIDE DEF s
  <2> QED
    BY <1>6, <2>2, <2>3, MovesOn DEF MatchRule
<1>7. ASSUME NEW q \in Requests, PreOutput(q) PROVE AllInTurn'
  <2> DEFINE k == req[q].out
             s == [req[q] EXCEPT !.out = k + 1]
  <2>1. /\ req' = [req EXCEPT ![q] = s] /\ fired' = [fired EXCEPT ![q] = Append(@, k)]
        /\ tasks' = tasks /\ req[q].at = "outputs"
    BY <1>7 DEF PreOutput, Execute
  <2>2. IsRequest(s) /\ s.out = k + 1 /\ s.at = req[q].at
    BY DEF AllInTurn, IsRequest
  <2> HIDE DEF s
  <2>3. InTurn(fired[q], k, TasksOf(q), FALSE)
    BY <2>1 DEF AllInTurn
  <2>4. InTurn(Append(fired[q], k), k + 1, TasksOf(q), FALSE)
    BY <2>3, NextInTurn
  <2>5. \A p \in Requests : TasksOf(p)' = TasksOf(p)
    BY <2>1 DEF TasksOf
  <2>6. \A p \in Requests : /\ req'[p] = IF p = q THEN s ELSE req[p]
                           /\ fired'[p] = IF p = q THEN Append(fired[q], k) ELSE fired[p]
    BY <2>1 DEF AllInTurn
  <2>7. req' = [p \in Requests |-> req'[p]] /\ fired' = [p \in Requests |-> fired'[p]]
    BY <2>1 DEF AllInTurn
  <2>8. ASSUME NEW p \in Requests
        PROVE  InTurn(fired'[p], req'[p].out, TasksOf(p)', req'[p].at = "replied") /\ IsRequest(req'[p])
    <3>1. CASE p = q
      BY <2>1, <2>2, <2>4, <2>5, <2>6, <3>1
    <3>2. CASE p # q
      BY <2>5, <2>6, <3>2 DEF AllInTurn
    <3> QED
      BY <3>1, <3>2
  <2> QED
    BY <2>1, <2>7, <2>8 DEF AllInTurn
<1>8. ASSUME NEW q \in Requests, ReplyFromRule(q) PROVE AllInTurn'
  <2> DEFINE s == [req[q] EXCEPT !.at = "replied", !.answer = "rule", !.seen = <<>>]
             K == (req[q].out + 1)..Len(Outputs(q))
  <2>1. req' = [req EXCEPT ![q] = s] /\ IsRequest(s) /\ s.out = req[q].out /\ s.at = "replied"
    BY <1>4, <1>8 DEF ReplyFromRule
  <2> HIDE DEF s
  <2>2. /\ fired' = fired /\ req[q].at = "outputs"
        /\ tasks' = tasks \cup {<<q, k>> : k \in K}
    BY <1>8 DEF ReplyFromRule
  <2>3. InTurn(fired[q], req[q].out, TasksOf(q), FALSE)
    BY <2>2 DEF AllInTurn
  <2>4. \A k \in K : k > req[q].out
    BY <2>3 DEF InTurn
  <2> HIDE DEF K
  <2>5. TasksOf(q)' = K
    <3>1. TasksOf(q) = {}
      BY <2>3 DEF InTurn
    <3>2. ASSUME NEW k \in TasksOf(q)' PROVE k \in K
      BY <2>2, <3>1, <3>2 DEF TasksOf
    <3>3. ASSUME NEW k \in K PROVE k \in TasksOf(q)'
      <4>1. <<q, k>> \in tasks' /\ <<q, k>>[1] = q /\ <<q, k>>[2] = k
        BY <2>2
      <4> QED
        BY <4>1 DEF TasksOf
    <3> QED
      BY <3>2, <3>3
  <2>6. \A p \in Requests \ {q} : TasksOf(p)' = TasksOf(p)
    BY <2>2 DEF TasksOf
  <2>7. InTurn(fired[q], req[q].out, K, TRUE)
    BY <2>3, <2>4 DEF InTurn
  <2>8. \A p \in Requests : req'[p] = IF p = q THEN s ELSE req[p]
    BY <2>1 DEF AllInTurn
  <2>9. req' = [p \in Requests |-> req'[p]] /\ \A t \in tasks' : t = <<t[1], t[2]>>
    BY <2>1, <2>2 DEF AllInTurn
  <2>10. ASSUME NEW p \in Requests
         PROVE  InTurn(fired[p], req'[p].out, TasksOf(p)', req'[p].at = "replied") /\ IsRequest(req'[p])
    <3>1. CASE p = q
      BY <2>1, <2>5, <2>7, <2>8, <3>1
    <3>2. CASE p # q
      BY <2>6, <2>8, <3>2 DEF AllInTurn
    <3> QED
      BY <3>1, <3>2
  <2> QED
    BY <2>2, <2>9, <2>10 DEF AllInTurn
<1>9. ASSUME NEW q \in Requests, NEW k \in 1..3, PostOutput(q, k) PROVE AllInTurn'
  <2>1. /\ <<q, k>> \in tasks /\ req' = req /\ fired' = [fired EXCEPT ![q] = Append(@, k)]
        /\ tasks' = tasks \ {<<q, k>>}
    BY <1>9 DEF PostOutput, Execute
  <2>2. k \in TasksOf(q) /\ k \in Nat
    BY <2>1 DEF TasksOf
  <2>3. TasksOf(q)' = TasksOf(q) \ {k}
    BY <2>1 DEF TasksOf, AllInTurn
  <2>4. \A p \in Requests \ {q} : TasksOf(p)' = TasksOf(p)
    BY <2>1 DEF TasksOf
  <2>5. req[q].at = "replied" /\ InTurn(fired[q], req[q].out, TasksOf(q), TRUE)
    BY <2>2 DEF AllInTurn, InTurn
  <2>6. InTurn(Append(fired[q], k), req[q].out, TasksOf(q) \ {k}, TRUE)
    BY <2>2, <2>5, LaterInTurn
  <2>7. \A p \in Requests : fired'[p] = IF p = q THEN Append(fired[q], k) ELSE fired[p]
    BY <2>1 DEF AllInTurn
  <2>8. fired' = [p \in Requests |-> fired'[p]]
    BY <2>1 DEF AllInTurn
  <2>9. ASSUME NEW p \in Requests
        PROVE  InTurn(fired'[p], req[p].out, TasksOf(p)', req[p].at = "replied")
    <3>1. CASE p = q
      BY <2>3, <2>5, <2>6, <2>7, <3>1
    <3>2. CASE p # q
      BY <2>4, <2>7, <3>2 DEF AllInTurn
    <3> QED
      BY <3>1, <3>2
  <2> QED
    BY <2>1, <2>8, <2>9 DEF AllInTurn
<1>10. ASSUME NEW r \in Runs, RunStep(r) \/ BeginRun(r) \/ SkipRun(r) PROVE UNCHANGED dispatchVars
  BY <1>10 DEF RunStep, RunAction, BeginRun, SkipRun, MarkItem, RegisterStub, Registered, WhenItem,
     PlainItem, Expectation, AwaitStub, Fulfilled, TimesOut, Verdict, CleanUp
<1>11. CASE Next
  BY <1>1, <1>2, <1>3, <1>5, <1>6, <1>7, <1>8, <1>9, <1>10, <1>11 DEF Next, ServerStep
<1> QED
  BY <1>1, <1>11 DEF vars

\* However requests, servers and runs interleave, an output of a rule is tried at
\* most once, those before the reply in their order and before it, and those
\* after the reply not before it.
THEOREM OutputsHappenOnce == Spec => []OutputsOnce
<1>1. ASSUME AllInTurn PROVE OutputsOnce
  <2> SUFFICES ASSUME NEW q \in Requests
               PROVE /\ IsInjective(fired[q])
                     /\ \A a, b \in DOMAIN fired[q] :
                           a < b /\ fired[q][b] < req[q].out => fired[q][a] < fired[q][b]
                     /\ (\E a \in DOMAIN fired[q] : fired[q][a] > req[q].out) => req[q].at = "replied"
    BY DEF OutputsOnce
  <2>1. /\ InTurn(fired[q], req[q].out, TasksOf(q), req[q].at = "replied")
        /\ DOMAIN fired[q] = 1..Len(fired[q])
        /\ \A i \in 1..Len(fired[q]) : fired[q][i] \in Nat
    BY <1>1 DEF AllInTurn, InTurn
  <2>2. IsInjective(fired[q])
    BY <2>1 DEF InTurn, IsInjective
  <2>3. ASSUME NEW a \in 1..Len(fired[q]), NEW b \in 1..Len(fired[q]), a < b, fired[q][b] < req[q].out
        PROVE  fired[q][a] < fired[q][b]
    <3>1. b < req[q].out
      BY <2>1, <2>3 DEF InTurn
    <3>2. fired[q][b] = b /\ fired[q][a] = a
      BY <2>1, <2>3, <3>1 DEF InTurn
    <3> QED
      BY <2>3, <3>2
  <2>4. ASSUME NEW a \in 1..Len(fired[q]), fired[q][a] > req[q].out
        PROVE  req[q].at = "replied"
    BY <2>1, <2>4 DEF InTurn
  <2> QED
    BY <2>1, <2>2, <2>3, <2>4
<1> QED
  BY <1>1, TurnInit, TurnStep, PTL DEF Spec

(***************************************************************************)
(* The runs.                                                               *)
(***************************************************************************)

Outcomes == {"n/a", "MATCHED", "NO_MATCH", "TIMEOUT", "SKIPPED_DUE_TO_FAULT"}
RunFields == {"pc", "item", "target", "sent", "faulted", "results", "error", "status"}
Noted     == {"disturbed", "before", "early", "answered"}

\* A run that is at its item i has i - 1 results.
RunOK(r, u) ==
    /\ DOMAIN u = RunFields
    /\ u.pc \in {"idle", "register", "marked", "when", "then", "waiting", "clean", "ended"}
    /\ u.item \in Nat \ {0}
    /\ u.results \in Seq(Outcomes)
    /\ u.pc \in {"idle", "register", "marked", "when"} => u.results = <<>>
    /\ u.pc \in {"idle"} => u.item = 1
    /\ u.pc \in {"marked", "waiting"} => u.item \in DOMAIN Then(r) /\ Then(r)[u.item].do = "stub"
    /\ u.pc \in {"then", "waiting"} => Len(u.results) = u.item - 1

RunsFormed ==
    /\ run = [r \in Runs |-> run[r]] /\ \A r \in Runs : RunOK(r, run[r])
    /\ history = [r \in Runs |-> history[r]] /\ \A r \in Runs : DOMAIN history[r] = Noted

\* Whether run r, in state u, has been at its item i to mark it.
HasMarked(u, i) ==
    /\ u.pc # "idle"
    /\ u.pc = "register" => i < u.item
    /\ u.pc = "marked" => i <= u.item

\* What the steps of a run have in common.
Moved(r) ==
    /\ run' = [p \in Runs |-> run'[p]]
    /\ \A p \in Runs \ {r} : run'[p] = run[p]
    /\ RunOK(r, run'[r])
    /\ run[r].pc # "ended" /\ run'[r].pc # "idle"
    /\ \A i \in Nat : HasMarked(run[r], i) => HasMarked(run'[r], i)

LEMMA ItemsType ==
  ASSUME NEW r \in Runs
  PROVE  /\ TestOf[r] \in Tests
         /\ \E n \in 0..3 : DOMAIN Then(r) = 1..n /\ \A i \in 1..n : Then(r)[i].times \in Nat
  BY TestRunsAssumption DEF Then

LEMMA RunsFormedInit == Init => RunsFormed
<1> SUFFICES ASSUME Init PROVE RunsFormed
  OBVIOUS
<1>1. \A r \in Runs : run[r] = Idle /\ history[r] = Unwritten
  BY DEF Init
<1>2. DOMAIN Idle = RunFields /\ DOMAIN Unwritten = Noted
  BY DEF Idle, Unwritten, RunFields, Noted
<1>3. Idle.pc = "idle" /\ Idle.item = 1 /\ Idle.results = <<>>
  BY DEF Idle
<1>4. run = [r \in Runs |-> run[r]] /\ history = [r \in Runs |-> history[r]]
  BY DEF Init
<1>5. <<>> \in Seq(Outcomes) /\ 1 \in Nat \ {0}
  OBVIOUS
<1>6. \A r \in Runs : RunOK(r, Idle)
  BY <1>2, <1>3, <1>5 DEF RunOK
<1> QED
  BY <1>1, <1>2, <1>4, <1>6 DEF RunsFormed

\* A result is that of the item at which the run is.
LEMMA ResultMoves ==
  ASSUME RunsFormed, NEW r \in Runs, NEW outcome \in Outcomes, Result(r, outcome),
         run[r].pc \in {"then", "waiting"}
  PROVE  /\ Moved(r) /\ run'[r].pc = "then"
         /\ run'[r].results = Append(run[r].results, outcome)
         /\ history' = [p \in Runs |-> history'[p]]
         /\ \A p \in Runs : DOMAIN history'[p] = Noted /\ history'[p].before = history[p].before
<1>1. /\ run'[r] = [run[r] EXCEPT !.pc = "then", !.item = @ + 1, !.target = NoStubId,
                                  !.results = Append(@, outcome)]
      /\ run' = [p \in Runs |-> run'[p]]
      /\ \A p \in Runs \ {r} : run'[p] = run[p]
  BY DEF Result, RunsFormed
<1>2. DOMAIN run[r] = RunFields /\ RunOK(r, run[r])
  BY DEF RunsFormed, RunOK
<1>3. /\ run'[r].pc = "then" /\ run'[r].item = run[r].item + 1 /\ DOMAIN run'[r] = RunFields
      /\ run'[r].results = Append(run[r].results, outcome)
  BY <1>1, <1>2 DEF RunFields
<1>4. RunOK(r, run'[r])
  BY <1>2, <1>3 DEF RunOK
<1>5. PICK n : history' = [history EXCEPT ![r].answered = n]
  BY DEF Result
<1>6. /\ history' = [p \in Runs |-> history'[p]]
      /\ \A p \in Runs : DOMAIN history'[p] = Noted /\ history'[p].before = history[p].before
  BY <1>5 DEF RunsFormed, Noted
<1> QED
  BY <1>1, <1>3, <1>4, <1>6 DEF Moved, HasMarked

LEMMA FailMoves ==
  ASSUME RunsFormed, NEW r \in Runs, Fail(r), run[r].pc \in {"when", "then"}
  PROVE  Moved(r) /\ run'[r].pc = "clean" /\ run'[r].results = run[r].results
<1>1. /\ run'[r] = [run[r] EXCEPT !.pc = "clean", !.error = TRUE, !.status = "FAILED"]
      /\ run' = [p \in Runs |-> run'[p]]
      /\ \A p \in Runs \ {r} : run'[p] = run[p]
  BY DEF Fail, RunsFormed
<1>2. DOMAIN run[r] = RunFields /\ RunOK(r, run[r])
  BY DEF RunsFormed, RunOK
<1>3. /\ run'[r].pc = "clean" /\ run'[r].item = run[r].item /\ DOMAIN run'[r] = RunFields
      /\ run'[r].results = run[r].results
  BY <1>1, <1>2 DEF RunFields
<1>4. RunOK(r, run'[r])
  BY <1>2, <1>3 DEF RunOK
<1> QED
  BY <1>1, <1>3, <1>4 DEF Moved, HasMarked

LEMMA BeginMoves ==
  ASSUME RunsFormed, NEW r \in Runs, BeginRun(r) \/ SkipRun(r)
  PROVE  /\ Moved(r) /\ run[r].pc = "idle" /\ run'[r].pc \in {"register", "clean"}
         /\ run'[r].item = 1 /\ run'[r].results = <<>>
         /\ history' = [p \in Runs |-> history'[p]]
         /\ \A p \in Runs : DOMAIN history'[p] = Noted
         /\ \A p \in Runs \ {r} : history'[p].before = history[p].before
         /\ history'[r].before = UNION {calls[c] : c \in StubIds}
<1>1. /\ DOMAIN run[r] = RunFields /\ RunOK(r, run[r]) /\ run[r].pc = "idle"
      /\ run = [p \in Runs |-> run[p]]
  BY DEF RunsFormed, RunOK, BeginRun, SkipRun, MayBegin
<1>2. /\ run' = [p \in Runs |-> run'[p]] /\ \A p \in Runs \ {r} : run'[p] = run[p]
      /\ \/ run'[r] = [run[r] EXCEPT !.pc = "register"]
         \/ run'[r] = [run[r] EXCEPT !.pc = "clean", !.status = "SKIPPED"]
  BY <1>1 DEF BeginRun, SkipRun
<1>3. /\ run'[r].pc \in {"register", "clean"} /\ run'[r].item = 1
      /\ run'[r].results = <<>> /\ DOMAIN run'[r] = RunFields
  BY <1>1, <1>2 DEF RunFields, RunOK
<1>4. RunOK(r, run'[r])
  BY <1>3 DEF RunOK
<1>5. NoteBegin(r)
  BY DEF BeginRun, SkipRun
<1>6. /\ history' = [p \in Runs |-> history'[p]]
      /\ \A p \in Runs : DOMAIN history'[p] = Noted
      /\ \A p \in Runs \ {r} : history'[p].before = history[p].before
      /\ history'[r].before = UNION {calls[c] : c \in StubIds}
  BY <1>5 DEF NoteBegin, RunsFormed, Noted
<1> QED
  BY <1>1, <1>2, <1>3, <1>4, <1>6 DEF Moved, HasMarked

\* What a run notes of those that it disturbs.
LEMMA DisturbingNotes ==
  ASSUME RunsFormed, NEW r \in Runs
  PROVE  /\ Disturbing(r) = [p \in Runs |-> Disturbing(r)[p]]
         /\ Disturbing(r)[r] = history[r]
         /\ \A p \in Runs :
               /\ DOMAIN Disturbing(r)[p] = Noted
               /\ Disturbing(r)[p].before = history[p].before
               /\ Disturbing(r)[p].early = history[p].early
               /\ Disturbing(r)[p].answered = history[p].answered
               /\ ~Disturbing(r)[p].disturbed => ~history[p].disturbed
               /\ p \in Active \ {r} /\ TestOf[p] = TestOf[r] => Disturbing(r)[p].disturbed
<1>1. \A p \in Runs : DOMAIN history[p] = Noted
  BY DEF RunsFormed
<1> QED
  BY <1>1 DEF Disturbing, Noted

\* Marking and registration.
LEMMA MarkMoves ==
  ASSUME RunsFormed, NEW r \in Runs, MarkItem(r)
  PROVE  /\ Moved(r) /\ run'[r].results = run[r].results
         /\ history' = history \/ history' = Disturbing(r)
         /\ run[r].pc = "register" /\ run'[r].pc \in {"register", "marked"}
         /\ \/ /\ run'[r].pc = "marked" /\ Then(r)[run[r].item].do = "stub"
               /\ stubId' = [stubId EXCEPT ![TestOf[r]][run[r].item] = <<r, run[r].item>>]
            \/ /\ run'[r].pc = "register" /\ Then(r)[run[r].item].do # "stub"
               /\ stubId' = stubId
         /\ \A i \in Nat : i # run[r].item /\ HasMarked(run'[r], i) => HasMarked(run[r], i)
<1>1. /\ DOMAIN run[r] = RunFields /\ RunOK(r, run[r]) /\ run[r].pc = "register"
      /\ run[r].item \in DOMAIN Then(r) /\ run = [p \in Runs |-> run[p]]
  BY DEF RunsFormed, RunOK, MarkItem
<1>2. CASE Then(r)[run[r].item].do = "stub"
  <2>1. /\ run'[r] = [run[r] EXCEPT !.pc = "marked"]
        /\ run' = [p \in Runs |-> run'[p]] /\ \A p \in Runs \ {r} : run'[p] = run[p]
    BY <1>1, <1>2 DEF MarkItem
  <2>2. /\ run'[r].pc = "marked" /\ run'[r].item = run[r].item
        /\ run'[r].results = run[r].results /\ DOMAIN run'[r] = RunFields
    BY <1>1, <2>1 DEF RunFields
  <2>3. RunOK(r, run'[r])
    BY <1>1, <1>2, <2>2 DEF RunOK
  <2>4. \A i \in Nat : /\ HasMarked(run[r], i) => HasMarked(run'[r], i)
                       /\ i # run[r].item /\ HasMarked(run'[r], i) => HasMarked(run[r], i)
    BY <1>1, <2>2 DEF HasMarked, RunOK
  <2> QED
    BY <1>1, <1>2, <2>1, <2>2, <2>3, <2>4 DEF Moved, MarkItem
<1>3. CASE Then(r)[run[r].item].do # "stub"
  <2>1. /\ run'[r] = [run[r] EXCEPT !.item = @ + 1]
        /\ run' = [p \in Runs |-> run'[p]] /\ \A p \in Runs \ {r} : run'[p] = run[p]
    BY <1>1, <1>3 DEF MarkItem
  <2>2. /\ run'[r].pc = "register" /\ run'[r].item = run[r].item + 1
        /\ run'[r].results = run[r].results /\ DOMAIN run'[r] = RunFields
    BY <1>1, <2>1 DEF RunFields
  <2>3. RunOK(r, run'[r])
    BY <1>1, <2>2 DEF RunOK
  <2>4. \A i \in Nat : /\ HasMarked(run[r], i) => HasMarked(run'[r], i)
                       /\ i # run[r].item /\ HasMarked(run'[r], i) => HasMarked(run[r], i)
    BY <1>1, <2>2 DEF HasMarked, RunOK
  <2> QED
    BY <1>1, <1>3, <2>1, <2>2, <2>3, <2>4 DEF Moved, MarkItem
<1> QED
  BY <1>2, <1>3

\* What it leaves of the notes: no more than that others are disturbed.
LEMMA MarkNotes ==
  ASSUME RunsFormed, NEW r \in Runs, MarkItem(r)
  PROVE  /\ history' = [p \in Runs |-> history'[p]] /\ history'[r] = history[r]
         /\ \A p \in Runs :
               /\ DOMAIN history'[p] = Noted
               /\ history'[p].before = history[p].before
               /\ history'[p].early = history[p].early
               /\ history'[p].answered = history[p].answered
               /\ ~history'[p].disturbed => ~history[p].disturbed
<1>1. CASE history' = history
  BY <1>1 DEF RunsFormed
<1>2. CASE history' = Disturbing(r)
  <2> DEFINE D == Disturbing(r)
  <2>1. /\ D = [p \in Runs |-> D[p]] /\ D[r] = history[r]
        /\ \A p \in Runs :
              /\ DOMAIN D[p] = Noted /\ D[p].before = history[p].before
              /\ D[p].early = history[p].early /\ D[p].answered = history[p].answered
              /\ ~D[p].disturbed => ~history[p].disturbed
    BY DisturbingNotes
  <2>2. history' = D
    BY <1>2
  <2> HIDE DEF D
  <2> QED
    BY <2>1, <2>2
<1> QED
  BY <1>1, <1>2, MarkMoves

LEMMA RegisterMoves ==
  ASSUME RunsFormed, NEW r \in Runs, RegisterStub(r)
  PROVE  /\ Moved(r) /\ run'[r].results = run[r].results /\ run'[r].pc = "register"
         /\ HasMarked(run[r], run[r].item) /\ run[r].item \in DOMAIN Then(r)
         /\ \A i \in Nat : HasMarked(run'[r], i) => HasMarked(run[r], i)
<1>1. /\ DOMAIN run[r] = RunFields /\ RunOK(r, run[r]) /\ run[r].pc = "marked"
      /\ run = [p \in Runs |-> run[p]]
  BY DEF RunsFormed, RunOK, RegisterStub
<1>2. /\ run'[r] = [run[r] EXCEPT !.pc = "register", !.item = @ + 1]
      /\ run' = [p \in Runs |-> run'[p]] /\ \A p \in Runs \ {r} : run'[p] = run[p]
  BY <1>1 DEF RegisterStub
<1>3. /\ run'[r].pc = "register" /\ run'[r].item = run[r].item + 1
      /\ run'[r].results = run[r].results /\ DOMAIN run'[r] = RunFields
  BY <1>1, <1>2 DEF RunFields
<1>4. RunOK(r, run'[r])
  BY <1>1, <1>3 DEF RunOK
<1>5. \A i \in Nat : HasMarked(run[r], i) <=> HasMarked(run'[r], i)
  BY <1>1, <1>3 DEF HasMarked, RunOK
<1> QED
  BY <1>1, <1>2, <1>3, <1>4, <1>5 DEF Moved, HasMarked, RunOK

\* A run whose stubs are registered has marked all its items.
LEMMA RegisteredMoves ==
  ASSUME RunsFormed, NEW r \in Runs, Registered(r)
  PROVE  /\ Moved(r) /\ run'[r].results = run[r].results /\ run'[r].pc \in {"then", "when"}
         /\ \A i \in DOMAIN Then(r) : HasMarked(run[r], i)
         /\ history' = [p \in Runs |-> history'[p]]
         /\ \A p \in Runs : DOMAIN history'[p] = Noted /\ history'[p].before = history[p].before
<1>1. /\ DOMAIN run[r] = RunFields /\ RunOK(r, run[r]) /\ run[r].pc = "register"
      /\ run[r].item \notin DOMAIN Then(r) /\ run = [p \in Runs |-> run[p]]
  BY DEF RunsFormed, RunOK, Registered
<1>2. PICK there \in {"then", "when"} : run' = [run EXCEPT ![r].pc = there, ![r].item = 1]
  BY DEF Registered
<1>3. /\ run'[r] = [run[r] EXCEPT !.pc = there, !.item = 1]
      /\ run' = [p \in Runs |-> run'[p]] /\ \A p \in Runs \ {r} : run'[p] = run[p]
  BY <1>1, <1>2
<1>4. /\ run'[r].pc = there /\ run'[r].item = 1
      /\ run'[r].results = run[r].results /\ DOMAIN run'[r] = RunFields
  BY <1>1, <1>3 DEF RunFields
<1>5. RunOK(r, run'[r])
  BY <1>1, <1>4 DEF RunOK
<1>6. \A i \in DOMAIN Then(r) : HasMarked(run[r], i)
  <2>1. PICK n \in 0..3 : DOMAIN Then(r) = 1..n
    BY ItemsType
  <2>2. run[r].item \in Nat \ {0} /\ run[r].item > n
    BY <1>1, <2>1 DEF RunOK
  <2> QED
    BY <1>1, <2>1, <2>2 DEF HasMarked
<1>7. PICK e : history' = [history EXCEPT ![r].early = e]
  BY DEF Registered
<1>8. /\ history' = [p \in Runs |-> history'[p]]
      /\ \A p \in Runs : DOMAIN history'[p] = Noted /\ history'[p].before = history[p].before
  BY <1>7 DEF RunsFormed, Noted
<1> QED
  BY <1>1, <1>3, <1>4, <1>5, <1>6, <1>8 DEF Moved, HasMarked

\* The when phase, and what of the then phase has no result.
LEMMA WhenMoves ==
  ASSUME RunsFormed, NEW r \in Runs, WhenItem(r)
  PROVE  /\ Moved(r) /\ run'[r].results = run[r].results
         /\ run[r].pc = "when" /\ run'[r].pc \in {"when", "then", "clean"}
<1>1. /\ DOMAIN run[r] = RunFields /\ RunOK(r, run[r]) /\ run[r].pc = "when"
      /\ run = [p \in Runs |-> run[p]]
  BY DEF RunsFormed, RunOK, WhenItem
<1>2. CASE Fail(r)
  BY <1>1, <1>2, FailMoves
<1> DEFINE Next1 == IF run[r].item < Len(When(r)) THEN [run EXCEPT ![r].item = @ + 1]
                    ELSE [run EXCEPT ![r].item = 1, ![r].pc = "then"]
<1>3. /\ DOMAIN Next1[r] = RunFields /\ Next1 = [p \in Runs |-> Next1[p]]
      /\ \A p \in Runs \ {r} : Next1[p] = run[p]
      /\ Next1[r].results = run[r].results
      /\ \/ Next1[r].pc = "when" /\ Next1[r].item = run[r].item + 1
         \/ Next1[r].pc = "then" /\ Next1[r].item = 1
  <2>1. CASE run[r].item < Len(When(r))
    BY <1>1, <2>1 DEF RunFields
  <2>2. CASE ~(run[r].item < Len(When(r)))
    BY <1>1, <2>2 DEF RunFields
  <2> QED
    BY <2>1, <2>2
<1> HIDE DEF Next1
<1>4. ASSUME ~Fail(r)
      PROVE  /\ DOMAIN run'[r] = RunFields /\ run' = [p \in Runs |-> run'[p]]
             /\ \A p \in Runs \ {r} : run'[p] = run[p]
             /\ run'[r].results = Next1[r].results /\ run'[r].pc = Next1[r].pc
             /\ run'[r].item = Next1[r].item
  <2>1. \/ run' = Next1
        \/ run' = [Next1 EXCEPT ![r].sent = @ \cup {run[r].item},
                                ![r].faulted = IF When(r)[run[r].item].fault = "unchecked"
                                               THEN @ \cup {run[r].item} ELSE @]
    BY <1>4 DEF WhenItem, Next1
  <2>2. CASE run' = Next1
    BY <1>3, <2>2
  <2>3. CASE run' # Next1
    <3>1. \E a, b : run' = [Next1 EXCEPT ![r].sent = a, ![r].faulted = b]
      BY <1>3, <2>1, <2>3
    <3>2. PICK a, b : run' = [Next1 EXCEPT ![r].sent = a, ![r].faulted = b]
      BY <3>1
    <3> QED
      BY <1>3, <3>2 DEF RunFields
  <2> QED
    BY <2>2, <2>3
<1>5. ASSUME ~Fail(r) PROVE RunOK(r, run'[r])
  BY <1>1, <1>3, <1>4, <1>5 DEF RunOK
<1> QED
  BY <1>1, <1>2, <1>3, <1>4, <1>5 DEF Moved, HasMarked

LEMMA AwaitMoves ==
  ASSUME RunsFormed, NEW r \in Runs, AwaitStub(r), run'[r].pc = "waiting"
  PROVE  /\ Moved(r) /\ run'[r].results = run[r].results /\ run'[r].item = run[r].item
         /\ run'[r].target = stubId[TestOf[r]][run[r].item]
         /\ history' = history
<1>1. /\ DOMAIN run[r] = RunFields /\ RunOK(r, run[r]) /\ run[r].pc = "then"
      /\ run = [p \in Runs |-> run[p]]
      /\ run[r].item \in DOMAIN Then(r) /\ Then(r)[run[r].item].do = "stub"
  BY DEF RunsFormed, RunOK, AwaitStub, ThisItem
<1> DEFINE s == stubId[TestOf[r]][run[r].item]
<1>2. ~Result(r, "NO_MATCH")
  BY <1>1, ResultMoves DEF Outcomes
<1>3. run' = [run EXCEPT ![r].pc = "waiting", ![r].target = s] /\ history' = history
  BY <1>2 DEF AwaitStub
<1> HIDE DEF s
<1>4. /\ run'[r] = [run[r] EXCEPT !.pc = "waiting", !.target = s]
      /\ run' = [p \in Runs |-> run'[p]] /\ \A p \in Runs \ {r} : run'[p] = run[p]
  BY <1>1, <1>3
<1>5. /\ run'[r].item = run[r].item /\ run'[r].target = s
      /\ run'[r].results = run[r].results /\ DOMAIN run'[r] = RunFields
  BY <1>1, <1>4 DEF RunFields
<1>6. RunOK(r, run'[r])
  BY <1>1, <1>5 DEF RunOK
<1> QED
  BY <1>1, <1>3, <1>4, <1>5, <1>6 DEF Moved, HasMarked, s

LEMMA VerdictMoves ==
  ASSUME RunsFormed, NEW r \in Runs, Verdict(r)
  PROVE  Moved(r) /\ run'[r].results = run[r].results /\ run'[r].pc = "clean"
<1>1. /\ DOMAIN run[r] = RunFields /\ RunOK(r, run[r]) /\ run[r].pc = "then"
      /\ run = [p \in Runs |-> run[p]]
  BY DEF RunsFormed, RunOK, Verdict
<1>2. PICK st : run' = [run EXCEPT ![r].pc = "clean", ![r].status = st]
  BY DEF Verdict
<1>3. /\ run'[r] = [run[r] EXCEPT !.pc = "clean", !.status = st]
      /\ run' = [p \in Runs |-> run'[p]] /\ \A p \in Runs \ {r} : run'[p] = run[p]
  BY <1>1, <1>2
<1>4. /\ run'[r].pc = "clean" /\ run'[r].item = run[r].item
      /\ run'[r].results = run[r].results /\ DOMAIN run'[r] = RunFields
  BY <1>1, <1>3 DEF RunFields
<1>5. RunOK(r, run'[r])
  BY <1>1, <1>4 DEF RunOK
<1> QED
  BY <1>1, <1>3, <1>4, <1>5 DEF Moved, HasMarked

LEMMA CleanMoves ==
  ASSUME RunsFormed, NEW r \in Runs, CleanUp(r)
  PROVE  /\ Moved(r) /\ run'[r].results = <<>> /\ run'[r].pc = "ended"
         /\ history' = [p \in Runs |-> history'[p]]
         /\ \A p \in Runs : DOMAIN history'[p] = Noted
         /\ \A p \in Runs \ {r} : history'[p] = Disturbing(r)[p]
         /\ history'[r] = Unwritten
<1>1. run' = [run EXCEPT ![r] = [Idle EXCEPT !.pc = "ended", !.status = run[r].status]]
  BY DEF CleanUp
<1>2. /\ run'[r] = [Idle EXCEPT !.pc = "ended", !.status = run[r].status]
      /\ run' = [p \in Runs |-> run'[p]] /\ \A p \in Runs \ {r} : run'[p] = run[p]
  BY <1>1 DEF RunsFormed
<1>3. /\ run'[r].pc = "ended" /\ run'[r].item = 1 /\ run'[r].results = <<>>
      /\ DOMAIN run'[r] = RunFields
  BY <1>2 DEF Idle, RunFields
<1>4. RunOK(r, run'[r])
  BY <1>3 DEF RunOK
<1>5. /\ history' = [p \in Runs |-> history'[p]]
      /\ \A p \in Runs : DOMAIN history'[p] = Noted
      /\ \A p \in Runs \ {r} : history'[p] = Disturbing(r)[p]
      /\ history'[r] = Unwritten
  <2> DEFINE D == Disturbing(r)
  <2>1. history' = [D EXCEPT ![r] = Unwritten] /\ DOMAIN Unwritten = Noted
    BY DEF CleanUp, Unwritten, Noted
  <2>2. D = [p \in Runs |-> D[p]] /\ \A p \in Runs : DOMAIN D[p] = Noted
    BY DisturbingNotes
  <2> HIDE DEF D
  <2>3. /\ history' = [p \in Runs |-> history'[p]]
        /\ \A p \in Runs \ {r} : history'[p] = D[p]
        /\ history'[r] = Unwritten
    BY <2>1, <2>2
  <2>4. \A p \in Runs : DOMAIN history'[p] = Noted
    BY <2>1, <2>2, <2>3
  <2> QED
    BY <2>3, <2>4 DEF D
<1> QED
  BY <1>2, <1>3, <1>4, <1>5 DEF Moved, HasMarked, CleanUp

\* Items of other kinds: a stub expectation that is not awaited is not MATCHED.
LEMMA ItemMoves ==
  ASSUME RunsFormed, NEW r \in Runs, PlainItem(r) \/ Expectation(r)
  PROVE  /\ Moved(r) /\ run[r].pc = "then" /\ run'[r].pc \in {"then", "clean"}
         /\ \/ run'[r].results = run[r].results
            \/ \E outcome \in Outcomes :
                  /\ run'[r].results = Append(run[r].results, outcome)
                  /\ outcome = "MATCHED" => Then(r)[run[r].item].do # "stub"
         /\ history' = [p \in Runs |-> history'[p]]
         /\ \A p \in Runs : DOMAIN history'[p] = Noted /\ history'[p].before = history[p].before
<1>1. run[r].pc = "then"
  BY DEF PlainItem, Expectation
<1>2. CASE Fail(r) /\ UNCHANGED history
  BY <1>1, <1>2, FailMoves DEF RunsFormed
<1>3. CASE ~(Fail(r) /\ UNCHANGED history)
  <2>1. \E outcome \in Outcomes :
           Result(r, outcome) /\ (outcome = "MATCHED" => Then(r)[run[r].item].do # "stub")
    <3>1. CASE PlainItem(r)
      BY <1>3, <3>1 DEF PlainItem, Assertion, Outcomes, ThisItem
    <3>2. CASE Expectation(r)
      BY <3>2 DEF Expectation, Outcomes, ThisItem
    <3> QED
      BY <3>1, <3>2
  <2>2. PICK outcome \in Outcomes :
           Result(r, outcome) /\ (outcome = "MATCHED" => Then(r)[run[r].item].do # "stub")
    BY <2>1
  <2> QED
    BY <1>1, <2>2, ResultMoves
<1> QED
  BY <1>2, <1>3

\* What the end of a wait for a stub has of it.
LEMMA WaitMoves ==
  ASSUME RunsFormed, NEW r \in Runs, Fulfilled(r) \/ TimesOut(r)
  PROVE  /\ Moved(r) /\ run[r].pc = "waiting" /\ run'[r].pc = "then"
         /\ \E outcome \in Outcomes :
               /\ run'[r].results = Append(run[r].results, outcome)
               /\ outcome = "MATCHED" => IsFulfilled(run[r].target)
         /\ history' = [p \in Runs |-> history'[p]]
         /\ \A p \in Runs : DOMAIN history'[p] = Noted /\ history'[p].before = history[p].before
<1>1. run[r].pc = "waiting"
  BY DEF Fulfilled, TimesOut
<1>2. \E outcome \in Outcomes : Result(r, outcome) /\ (outcome = "MATCHED" => IsFulfilled(run[r].target))
  BY DEF Fulfilled, TimesOut, Outcomes
<1>3. PICK outcome \in Outcomes : Result(r, outcome) /\ (outcome = "MATCHED" => IsFulfilled(run[r].target))
  BY <1>2
<1> QED
  BY <1>1, <1>3, ResultMoves

LEMMA LookupMoves ==
  ASSUME RunsFormed, NEW r \in Runs, AwaitStub(r)
  PROVE  /\ Moved(r) /\ run[r].pc = "then"
         /\ \/ /\ run'[r].pc = "waiting" /\ run'[r].results = run[r].results
               /\ run'[r].item = run[r].item
               /\ run'[r].target = stubId[TestOf[r]][run[r].item]
            \/ run'[r].pc = "then" /\ run'[r].results = Append(run[r].results, "NO_MATCH")
         /\ history' = [p \in Runs |-> history'[p]]
         /\ \A p \in Runs : DOMAIN history'[p] = Noted /\ history'[p].before = history[p].before
<1>1. run[r].pc = "then"
  BY DEF AwaitStub
<1>2. CASE Result(r, "NO_MATCH")
  BY <1>1, <1>2, ResultMoves DEF Outcomes
<1>3. CASE run'[r].pc = "waiting"
  BY <1>1, <1>3, AwaitMoves DEF RunsFormed
<1>4. Result(r, "NO_MATCH") \/ run'[r].pc = "waiting"
  <2>1. DOMAIN run[r] = RunFields /\ run = [p \in Runs |-> run[p]]
    BY DEF RunsFormed, RunOK
  <2>2. Result(r, "NO_MATCH")
        \/ \E s : run' = [run EXCEPT ![r].pc = "waiting", ![r].target = s]
    BY DEF AwaitStub
  <2> QED
    BY <2>1, <2>2 DEF RunFields
<1> QED
  BY <1>2, <1>3, <1>4

LEMMA EveryMove ==
  ASSUME RunsFormed, NEW r \in Runs, RunAction(r) \/ BeginRun(r) \/ SkipRun(r)
  PROVE  /\ Moved(r) /\ UNCHANGED <<dispatchVars, calls>>
         /\ history' = [p \in Runs |-> history'[p]]
         /\ \A p \in Runs : DOMAIN history'[p] = Noted
         /\ \A p \in Runs \ {r} : history'[p].before = history[p].before
<1>0. history = [p \in Runs |-> history[p]] /\ \A p \in Runs : DOMAIN history[p] = Noted
  BY DEF RunsFormed
<1>1. CASE BeginRun(r) \/ SkipRun(r)
  BY <1>1, BeginMoves DEF BeginRun, SkipRun, stubVars
<1>2. CASE MarkItem(r)
  BY <1>2, MarkMoves, MarkNotes DEF MarkItem, stubVars
<1>3. CASE RegisterStub(r)
  BY <1>0, <1>3, RegisterMoves DEF RegisterStub, Register
<1>4. CASE Registered(r)
  BY <1>4, RegisteredMoves DEF Registered, stubVars
<1>5. CASE WhenItem(r)
  BY <1>0, <1>5, WhenMoves DEF WhenItem, stubVars
<1>6. CASE PlainItem(r) \/ Expectation(r)
  BY <1>6, ItemMoves DEF PlainItem, Expectation, stubVars
<1>7. CASE AwaitStub(r)
  BY <1>7, LookupMoves DEF AwaitStub, stubVars
<1>8. CASE Fulfilled(r) \/ TimesOut(r)
  BY <1>8, WaitMoves DEF Fulfilled, TimesOut, stubVars
<1>9. CASE Verdict(r)
  BY <1>0, <1>9, VerdictMoves DEF Verdict, stubVars
<1>10. CASE CleanUp(r)
  <2>1. \A p \in Runs : Disturbing(r)[p].before = history[p].before
    BY DisturbingNotes
  <2>2. /\ Moved(r) /\ history' = [p \in Runs |-> history'[p]]
        /\ \A p \in Runs : DOMAIN history'[p] = Noted
        /\ \A p \in Runs \ {r} : history'[p] = Disturbing(r)[p]
    BY <1>10, CleanMoves
  <2>3. UNCHANGED <<dispatchVars, calls>>
    BY <1>10 DEF CleanUp, CleanupTest
  <2> QED
    BY <2>1, <2>2, <2>3
<1> QED
  BY <1>1, <1>2, <1>3, <1>4, <1>5, <1>6, <1>7, <1>8, <1>9, <1>10 DEF RunAction

\* A step is one of a run, of a server or of its client, or changes nothing.
LEMMA StepKinds ==
  ASSUME [Next]_vars
  PROVE  \/ \E r \in Runs : RunAction(r) \/ BeginRun(r) \/ SkipRun(r)
         \/ \E q \in Requests : (SendRequest(q) \/ ServerStep(q)) /\ UNCHANGED <<runVars, history>>
         \/ UNCHANGED vars
  BY DEF Next, RunStep

LEMMA RunsFormedStep ==
  ASSUME RunsFormed, [Next]_vars
  PROVE  RunsFormed'
<1>1. ASSUME NEW r \in Runs, RunAction(r) \/ BeginRun(r) \/ SkipRun(r) PROVE RunsFormed'
  <2>1. /\ Moved(r) /\ history' = [p \in Runs |-> history'[p]]
        /\ \A p \in Runs : DOMAIN history'[p] = Noted
    BY <1>1, EveryMove
  <2>2. \A p \in Runs : RunOK(p, run'[p])
    BY <2>1 DEF Moved, RunsFormed
  <2> QED
    BY <2>1, <2>2 DEF Moved, RunsFormed, RunOK, Then
<1>2. CASE UNCHANGED <<runVars, history>>
  BY <1>2 DEF RunsFormed, RunOK, Then, runVars
<1> QED
  BY <1>1, <1>2, StepKinds DEF vars

-----------------------------------------------------------------------------
\* The table and the index by test agree.
StubsFormed ==
    /\ byTest = [t \in Tests |-> byTest[t]]
    /\ DOMAIN stubs \subseteq StubIds
    /\ \A s \in DOMAIN stubs : stubs[s] \in Nat /\ s \in byTest[TestOf[s[1]]]

LEMMA StubsFormedInit == Init => StubsFormed
  BY DEF Init, HttpStubsInit, StubsFormed

\* Registration and clean-up.
LEMMA StubIdsOf ==
  ASSUME NEW s \in StubIds PROVE s = <<s[1], s[2]>> /\ s[1] \in Runs /\ s[2] \in 1..3
  BY DEF StubIds

LEMMA RegisterForms ==
  ASSUME RunsFormed, StubsFormed, NEW r \in Runs, RegisterStub(r)
  PROVE  StubsFormed' /\ DOMAIN stubs' = DOMAIN stubs \cup {<<r, run[r].item>>}
                      /\ <<r, run[r].item>> \in StubIds
<1> DEFINE s == <<r, run[r].item>>
<1>1. PICK len \in 0..3 : DOMAIN Then(r) = 1..len
  BY ItemsType
<1>2. s \in StubIds /\ s[1] = r /\ TestOf[r] \in Tests
  BY <1>1, RegisterMoves, ItemsType DEF StubIds
<1>3. PICK n \in 1..(Cardinality(StubIds) + 1) :
         stubs' = [u \in DOMAIN stubs \cup {s} |-> IF u = s THEN n ELSE stubs[u]]
  BY DEF RegisterStub, Register
<1>4. n \in Nat
  OBVIOUS
<1>5. byTest' = [byTest EXCEPT ![TestOf[r]] = @ \cup {s}]
  BY DEF RegisterStub, Register
<1> HIDE DEF s
<1>6. byTest' = [t \in Tests |-> byTest'[t]]
      /\ \A t \in Tests : byTest'[t] = IF t = TestOf[r] THEN byTest[t] \cup {s} ELSE byTest[t]
  BY <1>2, <1>5 DEF StubsFormed
<1>7. \A u \in DOMAIN stubs : u \in StubIds /\ TestOf[u[1]] \in Tests
  BY StubIdsOf, ItemsType DEF StubsFormed
<1>8. DOMAIN stubs' = DOMAIN stubs \cup {s}
      /\ \A u \in DOMAIN stubs' : stubs'[u] = IF u = s THEN n ELSE stubs[u]
  BY <1>3
<1>9. \A u \in DOMAIN stubs' : stubs'[u] \in Nat /\ u \in byTest'[TestOf[u[1]]]
  BY <1>2, <1>4, <1>6, <1>7, <1>8 DEF StubsFormed
<1> QED
  BY <1>2, <1>6, <1>7, <1>8, <1>9 DEF StubsFormed, StubIds, s

LEMMA CleanForms ==
  ASSUME RunsFormed, StubsFormed, NEW r \in Runs, CleanUp(r)
  PROVE  StubsFormed' /\ DOMAIN stubs' \subseteq DOMAIN stubs
                      /\ \A s \in DOMAIN stubs' : TestOf[s[1]] # TestOf[r]
<1>1. /\ stubs' = [s \in DOMAIN stubs \ byTest[TestOf[r]] |-> stubs[s]]
      /\ byTest' = [byTest EXCEPT ![TestOf[r]] = {}]
  BY DEF CleanUp, CleanupTest
<1>2. \A s \in DOMAIN stubs' : s \in DOMAIN stubs /\ TestOf[s[1]] # TestOf[r] /\ stubs'[s] = stubs[s]
  BY <1>1 DEF StubsFormed
<1>3. byTest' = [t \in Tests |-> byTest'[t]]
      /\ \A t \in Tests : t # TestOf[r] => byTest'[t] = byTest[t]
  BY <1>1 DEF StubsFormed
<1>4. \A s \in DOMAIN stubs : s \in StubIds /\ TestOf[s[1]] \in Tests
  BY StubIdsOf, ItemsType DEF StubsFormed
<1> QED
  BY <1>2, <1>3, <1>4 DEF StubsFormed, StubIds

\* Only registration and clean-up change the table.
LEMMA TableKept ==
  ASSUME NEW r \in Runs, RunAction(r) \/ BeginRun(r) \/ SkipRun(r), ~RegisterStub(r), ~CleanUp(r)
  PROVE  UNCHANGED stubVars
  BY DEF RunAction, BeginRun, SkipRun, MarkItem, Registered, WhenItem, PlainItem, Expectation,
     AwaitStub, Fulfilled, TimesOut, Verdict

LEMMA ServersKeepTable ==
  ASSUME NEW q \in Requests, SendRequest(q) \/ ServerStep(q)
  PROVE  UNCHANGED <<stubs, byTest>>
  BY DEF SendRequest, ServerStep, Dispatch, ReplyFromStub, MatchRule, PreOutput, ReplyFromRule,
     ReplyFromConfiguration, PostOutput, RecordCall, stubVars

\* A run that is under way stays so until its clean-up.
LEMMA StillActive ==
  ASSUME RunsFormed, NEW r \in Runs, RunAction(r) \/ BeginRun(r) \/ SkipRun(r)
  PROVE  /\ Active \ {r} \subseteq Active'
         /\ ~CleanUp(r) => r \in Active' /\ Active \subseteq Active'
<1>1. Moved(r)
  BY EveryMove
<1>2. \A p \in Runs \ {r} : run'[p] = run[p]
  BY <1>1 DEF Moved
<1>3. ASSUME ~CleanUp(r) PROVE run'[r].pc # "ended"
  BY ZenonT(60), <1>3, BeginMoves, MarkMoves, RegisterMoves, RegisteredMoves, WhenMoves, ItemMoves, LookupMoves,
     WaitMoves, VerdictMoves DEF RunAction
<1>4. run'[r].pc # "idle"
  BY <1>1 DEF Moved
<1> QED
  BY <1>2, <1>3, <1>4 DEF Active

LEMMA StubsFormedStep ==
  ASSUME RunsFormed, StubsFormed, [Next]_vars
  PROVE  StubsFormed'
<1>1. CASE UNCHANGED <<stubs, byTest>>
  BY <1>1 DEF StubsFormed, StubIds
<1>2. ASSUME NEW r \in Runs, RunAction(r) \/ BeginRun(r) \/ SkipRun(r) PROVE StubsFormed'
  BY <1>1, <1>2, RegisterForms, CleanForms, TableKept DEF stubVars
<1> QED
  BY <1>1, <1>2, StepKinds, ServersKeepTable DEF vars, stubVars

\* When no run of a test is under way the cache holds none of its stubs, whatever
\* way its runs ended and however they overlapped.
THEOREM NothingIsLeftBehind == Spec => []NothingLeftBehind
<1>1. Init => NothingLeftBehind
  BY DEF Init, HttpStubsInit, NothingLeftBehind
<1>2. ASSUME RunsFormed, StubsFormed, NothingLeftBehind, [Next]_vars
      PROVE  NothingLeftBehind'
  <2>1. ASSUME UNCHANGED <<stubs, run>> PROVE NothingLeftBehind'
    BY <1>2, <2>1 DEF NothingLeftBehind, Active
  <2>2. ASSUME NEW r \in Runs, RunAction(r) \/ BeginRun(r) \/ SkipRun(r) PROVE NothingLeftBehind'
    <3>1. Active \ {r} \subseteq Active' /\ (~CleanUp(r) => r \in Active' /\ Active \subseteq Active')
      BY <1>2, <2>2, StillActive
    <3>2. CASE RegisterStub(r)
      <4>1. ~CleanUp(r)
        BY <3>2 DEF RegisterStub, CleanUp
      <4>2. DOMAIN stubs' = DOMAIN stubs \cup {<<r, run[r].item>>}
        BY <1>2, <3>2, RegisterForms
      <4> QED
        BY <1>2, <3>1, <4>1, <4>2 DEF NothingLeftBehind
    <3>3. CASE CleanUp(r)
      <4>1. \A s \in DOMAIN stubs' : s \in DOMAIN stubs /\ TestOf[s[1]] # TestOf[r]
        BY <1>2, <3>3, CleanForms
      <4> QED
        BY <1>2, <3>1, <4>1 DEF NothingLeftBehind
    <3>4. CASE ~RegisterStub(r) /\ ~CleanUp(r)
      <4>1. stubs' = stubs
        BY <2>2, <3>4, TableKept DEF stubVars
      <4> QED
        BY <1>2, <3>1, <3>4, <4>1 DEF NothingLeftBehind
    <3> QED
      BY <3>2, <3>3, <3>4
  <2> QED
    BY <1>2, <2>1, <2>2, StepKinds, ServersKeepTable DEF vars, runVars, stubVars
<1> QED
  BY <1>1, <1>2, RunsFormedInit, RunsFormedStep, StubsFormedInit, StubsFormedStep, PTL DEF Spec

-----------------------------------------------------------------------------
\* A set of natural numbers that is not empty has a least element.
LEMMA Smallest ==
  ASSUME NEW S, S \subseteq Nat, S # {} PROVE \E x \in S : \A y \in S : x <= y
<1>1. \E x \in S : \A y \in S : ~ (<<y, x>> \in OpToRel(<, Nat))
  BY NatLessThanWellFounded, WFMin
<1>2. ASSUME NEW x \in S, NEW y \in S, ~ (<<y, x>> \in OpToRel(<, Nat)) PROVE x <= y
  BY <1>2 DEF OpToRel
<1> QED
  BY <1>1, <1>2

\* match takes one of the stubs that accept the request.
LEMMA FirstIsCandidate ==
  ASSUME NEW seen, NEW server, NEW kind, \A s \in DOMAIN seen : seen[s] \in Nat,
         Candidates(seen, server, kind) # {}
  PROVE  FirstStub(seen, server, kind) \in Candidates(seen, server, kind)
<1> DEFINE C == Candidates(seen, server, kind)
           places == {seen[s] : s \in C}
<1>1. C \subseteq DOMAIN seen /\ C # {}
  BY DEF Candidates
<1> HIDE DEF C
<1>2. places \subseteq Nat /\ places # {}
  BY <1>1
<1>3. PICK n \in places : \A m \in places : n <= m
  BY <1>2, Smallest
<1>4. \E s \in C : \A u \in C : seen[s] <= seen[u]
  BY <1>3
<1> QED
  BY <1>4 DEF FirstStub, C

\* The requests that a stub has answered and that an item accepts.
AnsweredFor(item) ==
    {q \in Requests : req[q].answer = "stub" /\ Accepts(item, req[q].server, req[q].kind)}

\* A stub is called, registered or seen by a request only once its run has marked
\* its item; what it has recorded are requests that it accepts and answered.
CallsFormed ==
    /\ calls = [s \in StubIds |-> calls[s]]
    /\ \A q \in Requests : /\ DOMAIN req[q].seen \subseteq StubIds
                           /\ \A s \in DOMAIN req[q].seen : req[q].seen[s] \in Nat
                           /\ req[q].answer = "stub" => req[q].at = "replied"
    /\ \A s \in StubIds : /\ calls[s] \subseteq AnsweredFor(ItemOf(s))
                          /\ ~HasMarked(run[s[1]], s[2]) =>
                                /\ calls[s] = {} /\ s \notin DOMAIN stubs
                                /\ \A q \in Requests : s \notin DOMAIN req[q].seen
    /\ \A r \in Runs : history[r].before \subseteq {q \in Requests : req[q].answer = "stub"}

LEMMA CallsFormedInit == Init => CallsFormed
<1> SUFFICES ASSUME Init PROVE CallsFormed
  OBVIOUS
<1>1. \A q \in Requests : req[q].seen = <<>> /\ req[q].answer = "none"
  BY DEF Init, DispatchInit, NotSent
<1>2. DOMAIN <<>> = {}
  OBVIOUS
<1>3. calls = [s \in StubIds |-> {}] /\ DOMAIN stubs = {}
  BY DEF Init, HttpStubsInit
<1>4. \A r \in Runs : history[r].before = {}
  BY DEF Init, Unwritten
<1> QED
  BY <1>1, <1>2, <1>3, <1>4 DEF CallsFormed

\* A step of a server or of its client moves one request that has no reply yet.
LEMMA ServerMoves ==
  ASSUME AllInTurn, NEW q \in Requests, SendRequest(q) \/ ServerStep(q)
  PROVE  /\ \A p \in Requests \ {q} : req'[p] = req[p]
         /\ req[q].at = "replied" => req'[q] = req[q]
         /\ req'[q].seen \in {req[q].seen, <<>>, stubs}
         /\ ~ReplyFromStub(q) =>
               calls' = calls /\ (req'[q].answer = "stub" => req[q].answer = "stub")
<1>0. /\ req = [p \in Requests |-> req[p]]
      /\ DOMAIN req[q] = {"at", "server", "kind", "seen", "rule", "out", "answer"}
  BY DEF AllInTurn, IsRequest
<1>1. CASE SendRequest(q)
  <2>1. PICK c \in Sends : req' = [req EXCEPT ![q] = [@ EXCEPT !.at = "arrived", !.server = c[1], !.kind = c[2]]]
    BY <1>1 DEF SendRequest
  <2> QED
    BY <1>0, <1>1, <2>1 DEF SendRequest, stubVars
<1>2. CASE Dispatch(q)
  BY <1>0, <1>2 DEF Dispatch, stubVars
<1>3. CASE ReplyFromStub(q)
  BY <1>0, <1>3 DEF ReplyFromStub, Replied
<1>4. CASE MatchRule(q)
  <2>1. PICK i : req' = [req EXCEPT ![q].at = "outputs", ![q].seen = <<>>, ![q].rule = i]
    BY <1>4 DEF MatchRule
  <2> QED
    BY <1>0, <1>4, <2>1 DEF MatchRule, stubVars
<1>5. CASE PreOutput(q)
  BY <1>0, <1>5 DEF PreOutput, stubVars
<1>6. CASE ReplyFromRule(q)
  BY <1>0, <1>6 DEF ReplyFromRule, Replied, stubVars
<1>7. CASE ReplyFromConfiguration(q)
  <2>1. PICK a : req' = Replied(q, a) /\ a # "stub"
    BY <1>7 DEF ReplyFromConfiguration
  <2> QED
    BY <1>0, <1>7, <2>1 DEF ReplyFromConfiguration, Replied, stubVars
<1>8. ASSUME NEW k \in 1..3, PostOutput(q, k) PROVE UNCHANGED <<req, calls>>
  BY <1>8 DEF PostOutput, stubVars
<1> QED
  BY <1>1, <1>2, <1>3, <1>4, <1>5, <1>6, <1>7, <1>8 DEF ServerStep

LEMMA StubReplies ==
  ASSUME AllInTurn, CallsFormed, NEW q \in Requests, ReplyFromStub(q)
  PROVE  \E s \in DOMAIN req[q].seen :
            /\ Accepts(ItemOf(s), req[q].server, req[q].kind)
            /\ calls' = [calls EXCEPT ![s] = @ \cup {q}]
            /\ req[q].at = "matching" /\ req'[q].at = "replied" /\ req'[q].answer = "stub"
            /\ req'[q].server = req[q].server /\ req'[q].kind = req[q].kind
            /\ req'[q].seen = <<>>
<1>1. FirstStub(req[q].seen, req[q].server, req[q].kind) \in Candidates(req[q].seen, req[q].server, req[q].kind)
  BY FirstIsCandidate DEF ReplyFromStub, NoStub, CallsFormed
<1>2. /\ req = [p \in Requests |-> req[p]]
      /\ DOMAIN req[q] = {"at", "server", "kind", "seen", "rule", "out", "answer"}
  BY DEF AllInTurn, IsRequest
<1> QED
  BY <1>1, <1>2 DEF Candidates, ReplyFromStub, RecordCall, Replied

\* What a step of a server keeps and adds.
LEMMA ServerCalls ==
  ASSUME AllInTurn, CallsFormed, NEW q \in Requests, SendRequest(q) \/ ServerStep(q)
  PROVE  /\ \A item : AnsweredFor(item) \subseteq AnsweredFor(item)'
         /\ \A p \in Requests : req[p].answer = "stub" => req'[p].answer = "stub"
         /\ calls' = [s \in StubIds |-> calls'[s]]
         /\ \A s \in StubIds : /\ calls[s] \subseteq calls'[s]
                               /\ calls'[s] \subseteq AnsweredFor(ItemOf(s))'
                               /\ calls'[s] # calls[s] => s \in DOMAIN req[q].seen
                               /\ \A p \in calls'[s] \ calls[s] : req[p].answer # "stub"
<1>1. /\ \A p \in Requests \ {q} : req'[p] = req[p]
      /\ req[q].at = "replied" => req'[q] = req[q]
  BY ServerMoves
<1>2. \A p \in Requests : req[p].answer = "stub" => req'[p] = req[p]
  BY <1>1 DEF CallsFormed
<1>3. \A item : AnsweredFor(item) \subseteq AnsweredFor(item)'
  BY <1>2 DEF AnsweredFor, Accepts
<1>4. CASE calls' = calls
  BY <1>2, <1>3, <1>4 DEF CallsFormed
<1>5. CASE calls' # calls
  <2>1. ReplyFromStub(q)
    BY <1>5, ServerMoves
  <2>2. PICK s \in DOMAIN req[q].seen :
            /\ Accepts(ItemOf(s), req[q].server, req[q].kind)
            /\ calls' = [calls EXCEPT ![s] = @ \cup {q}]
            /\ req[q].at = "matching" /\ req'[q].at = "replied" /\ req'[q].answer = "stub"
            /\ req'[q].server = req[q].server /\ req'[q].kind = req[q].kind
    BY <2>1, StubReplies
  <2>3. s \in StubIds /\ req[q].answer # "stub"
    BY <2>2 DEF CallsFormed
  <2>4. /\ calls' = [u \in StubIds |-> calls'[u]]
        /\ \A u \in StubIds : calls'[u] = IF u = s THEN calls[s] \cup {q} ELSE calls[u]
    BY <2>2, <2>3 DEF CallsFormed
  <2>5. q \in AnsweredFor(ItemOf(s))'
    BY <2>2 DEF AnsweredFor, Accepts, ItemOf
  <2>6. \A u \in StubIds : calls[u] \subseteq AnsweredFor(ItemOf(u))'
    BY <1>3 DEF CallsFormed
  <2>7. \A u \in StubIds : ItemOf(u)' = ItemOf(u)
    BY DEF ItemOf
  <2> QED
    BY <1>2, <1>3, <2>2, <2>3, <2>4, <2>5, <2>6, <2>7
<1> QED
  BY <1>4, <1>5

LEMMA CallsFormedServer ==
  ASSUME AllInTurn, RunsFormed, StubsFormed, CallsFormed,
         NEW q \in Requests, SendRequest(q) \/ ServerStep(q), UNCHANGED <<runVars, history>>
  PROVE  CallsFormed'
<1>1. /\ \A p \in Requests \ {q} : req'[p] = req[p]
      /\ req[q].at = "replied" => req'[q] = req[q]
      /\ req'[q].seen \in {req[q].seen, <<>>, stubs}
      /\ ~ReplyFromStub(q) => (req'[q].answer = "stub" => req[q].answer = "stub")
  BY ServerMoves
<1>2. DOMAIN <<>> = {} /\ stubs' = stubs
  BY ServersKeepTable
<1>3. \A p \in Requests : req'[p].seen \in {req[p].seen, <<>>, stubs}
  BY <1>1
<1>4. ReplyFromStub(q) => req'[q].at = "replied"
  BY StubReplies
<1>5. \A p \in Requests : req'[p].answer = "stub" => req'[p].at = "replied"
  BY <1>1, <1>4 DEF CallsFormed
<1>6. \A p \in Requests : /\ DOMAIN req'[p].seen \subseteq StubIds
                          /\ \A s \in DOMAIN req'[p].seen : req'[p].seen[s] \in Nat
  BY <1>2, <1>3 DEF CallsFormed, StubsFormed
<1>7. ASSUME NEW s \in StubIds, ~HasMarked(run[s[1]], s[2])
      PROVE  calls'[s] = {} /\ s \notin DOMAIN stubs /\ \A p \in Requests : s \notin DOMAIN req'[p].seen
  <2>1. calls[s] = {} /\ s \notin DOMAIN stubs /\ \A p \in Requests : s \notin DOMAIN req[p].seen
    BY <1>7 DEF CallsFormed
  <2>2. calls'[s] = calls[s]
    BY <2>1, ServerCalls
  <2> QED
    BY <1>2, <1>3, <2>1, <2>2
<1>8. \A r \in Runs : history[r].before \subseteq {p \in Requests : req'[p].answer = "stub"}
  BY ServerCalls DEF CallsFormed
<1>9. /\ calls' = [s \in StubIds |-> calls'[s]]
      /\ \A s \in StubIds : calls'[s] \subseteq AnsweredFor(ItemOf(s))'
  BY ServerCalls
<1>10. run' = run /\ history' = history
  BY DEF runVars
<1> QED
  BY <1>2, <1>5, <1>6, <1>7, <1>8, <1>9, <1>10 DEF CallsFormed, StubIds, HasMarked

LEMMA CallsFormedRun ==
  ASSUME RunsFormed, StubsFormed, CallsFormed,
         NEW r \in Runs, RunAction(r) \/ BeginRun(r) \/ SkipRun(r)
  PROVE  CallsFormed'
<1>1. Moved(r) /\ req' = req /\ calls' = calls
      /\ \A p \in Runs \ {r} : history'[p].before = history[p].before
  BY EveryMove DEF dispatchVars
<1>2. \A s \in StubIds : HasMarked(run[s[1]], s[2]) => HasMarked(run'[s[1]], s[2])
  BY <1>1, StubIdsOf DEF Moved
<1>3. ASSUME NEW s \in DOMAIN stubs', s \notin DOMAIN stubs PROVE HasMarked(run[s[1]], s[2])
  <2>1. RegisterStub(r)
    BY <1>3, CleanForms, TableKept DEF stubVars
  <2>2. DOMAIN stubs' = DOMAIN stubs \cup {<<r, run[r].item>>}
    BY <2>1, RegisterForms
  <2>3. s = <<r, run[r].item>>
    BY <1>3, <2>2
  <2> QED
    BY <2>1, <2>3, RegisterMoves
<1>4. \A s \in StubIds : calls[s] \subseteq {q \in Requests : req[q].answer = "stub"}
  BY DEF CallsFormed, AnsweredFor
<1>5. history'[r].before \subseteq {q \in Requests : req[q].answer = "stub"}
  <2>1. CASE BeginRun(r) \/ SkipRun(r)
    BY <1>4, <2>1, BeginMoves
  <2>2. CASE CleanUp(r)
    <3>1. history'[r].before = {}
      BY <2>2, CleanMoves DEF Unwritten
    <3> QED
      BY <3>1
  <2>3. CASE RunAction(r) /\ ~CleanUp(r)
    <3>1. history'[r].before = history[r].before
      BY <2>3, MarkNotes, RegisteredMoves, ItemMoves, LookupMoves, WaitMoves
         DEF RunAction, RegisterStub, WhenItem, Verdict
    <3> QED
      BY <3>1 DEF CallsFormed
  <2> QED
    BY <2>1, <2>2, <2>3
<1>6. \A s \in StubIds : AnsweredFor(ItemOf(s))' = AnsweredFor(ItemOf(s))
  BY <1>1 DEF AnsweredFor, Accepts, ItemOf
<1>7. \A s \in StubIds : ~HasMarked(run'[s[1]], s[2]) =>
         calls[s] = {} /\ s \notin DOMAIN stubs' /\ \A q \in Requests : s \notin DOMAIN req[q].seen
  BY <1>2, <1>3 DEF CallsFormed
<1>8. \A p \in Runs : history'[p].before \subseteq {q \in Requests : req[q].answer = "stub"}
  BY <1>1, <1>5 DEF CallsFormed
<1>9. \A s \in StubIds : calls'[s] \subseteq AnsweredFor(ItemOf(s))'
  BY <1>1, <1>6 DEF CallsFormed
<1>10. /\ calls' = [s \in StubIds |-> calls'[s]]
       /\ \A q \in Requests : /\ DOMAIN req'[q].seen \subseteq StubIds
                              /\ \A s \in DOMAIN req'[q].seen : req'[q].seen[s] \in Nat
                              /\ req'[q].answer = "stub" => req'[q].at = "replied"
  BY <1>1 DEF CallsFormed
<1> QED
  BY SMTT(60), <1>1, <1>7, <1>8, <1>9, <1>10 DEF CallsFormed, StubIds, HasMarked

LEMMA CallsFormedStep ==
  ASSUME AllInTurn, RunsFormed, StubsFormed, CallsFormed, [Next]_vars
  PROVE  CallsFormed'
<1>1. CASE UNCHANGED vars
  <2>1. stubs' = stubs /\ calls' = calls /\ req' = req /\ run' = run /\ history' = history
    BY <1>1 DEF vars, stubVars, dispatchVars, runVars
  <2>2. \A s \in StubIds : AnsweredFor(ItemOf(s))' = AnsweredFor(ItemOf(s))
    BY <2>1 DEF AnsweredFor, Accepts, ItemOf
  <2>3. \A s \in StubIds : calls'[s] \subseteq AnsweredFor(ItemOf(s))'
    BY <2>1, <2>2 DEF CallsFormed
  <2>4. \A s \in StubIds : ~HasMarked(run'[s[1]], s[2]) =>
           calls'[s] = {} /\ s \notin DOMAIN stubs' /\ \A q \in Requests : s \notin DOMAIN req'[q].seen
    BY <2>1 DEF CallsFormed
  <2>5. /\ calls' = [s \in StubIds |-> calls'[s]]
        /\ \A q \in Requests : /\ DOMAIN req'[q].seen \subseteq StubIds
                               /\ \A s \in DOMAIN req'[q].seen : req'[q].seen[s] \in Nat
                               /\ req'[q].answer = "stub" => req'[q].at = "replied"
        /\ \A r \in Runs : history'[r].before \subseteq {q \in Requests : req'[q].answer = "stub"}
    BY <2>1 DEF CallsFormed
  <2> QED
    BY <2>3, <2>4, <2>5 DEF CallsFormed, StubIds, HasMarked
<1> QED
  BY <1>1, StepKinds, CallsFormedServer, CallsFormedRun

-----------------------------------------------------------------------------
\* s was made for item i of a run of r's test, and none of the requests that it
\* has recorded came before r began.
Theirs(r, i, s) ==
    /\ s \in StubIds /\ s[2] = i /\ TestOf[s[1]] = TestOf[r]
    /\ calls[s] \cap history[r].before = {}

\* The identity that a run has marked, or awaits, may be that of another run of
\* its test by now.
IdentitiesFormed ==
    /\ stubId = [t \in Tests |-> [i \in DOMAIN Thens[t] |-> stubId[t][i]]]
    /\ \A r \in Runs : run[r].pc \notin {"idle", "clean", "ended"} =>
          \A i \in DOMAIN Then(r) : Then(r)[i].do = "stub" /\ HasMarked(run[r], i) =>
              Theirs(r, i, stubId[TestOf[r]][i])
    /\ \A r \in Runs : run[r].pc = "waiting" => Theirs(r, run[r].item, run[r].target)

LEMMA IdentitiesFormedInit == Init => IdentitiesFormed
  BY DEF Init, IdentitiesFormed, Idle

\* No step adds to a recorded stub a request from before a run.
LEMMA TheirsStay ==
  ASSUME AllInTurn, CallsFormed, NEW q \in Requests, SendRequest(q) \/ ServerStep(q),
         UNCHANGED history, NEW r \in Runs, NEW i, NEW s, Theirs(r, i, s)
  PROVE  Theirs(r, i, s)'
<1>1. s \in StubIds /\ \A p \in calls'[s] \ calls[s] : req[p].answer # "stub"
  BY ServerCalls DEF Theirs
<1>2. history[r].before \subseteq {p \in Requests : req[p].answer = "stub"}
  BY DEF CallsFormed
<1> QED
  BY <1>1, <1>2 DEF Theirs, StubIds

\* Marking gives the item an identity that nothing has called.
LEMMA MarkedIsTheirs ==
  ASSUME RunsFormed, CallsFormed, NEW r \in Runs, MarkItem(r),
         NEW p \in Runs, TestOf[p] = TestOf[r]
  PROVE  Theirs(p, run[r].item, <<r, run[r].item>>)
<1>1. PICK n \in 0..3 : DOMAIN Then(r) = 1..n
  BY ItemsType
<1>2. run[r].item \in 1..3 /\ ~HasMarked(run[r], run[r].item)
  BY <1>1 DEF MarkItem, HasMarked
<1>3. <<r, run[r].item>> \in StubIds
  BY <1>2 DEF StubIds
<1>4. calls[<<r, run[r].item>>] = {}
  BY <1>2, <1>3 DEF CallsFormed
<1> QED
  BY <1>3, <1>4 DEF Theirs

\* The other steps of a run mark nothing.
LEMMA MarksKept ==
  ASSUME RunsFormed, NEW r \in Runs, RunAction(r), ~MarkItem(r),
         run'[r].pc \notin {"clean", "ended"}
  PROVE  /\ run[r].pc \notin {"idle", "clean", "ended"}
         /\ \A i \in DOMAIN Then(r) : HasMarked(run[r], i)  \/ ~HasMarked(run'[r], i)
         /\ history'[r].before = history[r].before /\ stubId' = stubId
         /\ run'[r].pc = "waiting" => AwaitStub(r)
<1>0. PICK n \in 0..3 : DOMAIN Then(r) = 1..n
  BY ItemsType
<1>1. CASE RegisterStub(r)
  <2>1. run'[r].pc = "register" /\ \A i \in Nat : HasMarked(run'[r], i) => HasMarked(run[r], i)
    BY <1>1, RegisterMoves
  <2>2. \A i \in DOMAIN Then(r) : i \in Nat
    BY <1>0
  <2>3. run[r].pc = "marked" /\ history' = history /\ stubId' = stubId
    BY <1>1 DEF RegisterStub
  <2> QED
    BY <2>1, <2>2, <2>3
<1>2. CASE Registered(r)
  BY <1>2, RegisteredMoves DEF Registered
<1>3. CASE WhenItem(r)
  BY <1>3, WhenMoves DEF WhenItem, HasMarked
<1>4. CASE PlainItem(r) \/ Expectation(r)
  BY <1>4, ItemMoves DEF PlainItem, Expectation, HasMarked
<1>5. CASE AwaitStub(r)
  BY <1>5, LookupMoves DEF AwaitStub, HasMarked
<1>6. CASE Fulfilled(r) \/ TimesOut(r)
  BY <1>6, WaitMoves DEF Fulfilled, TimesOut, HasMarked
<1>7. CASE Verdict(r)
  BY <1>7, VerdictMoves
<1>8. CASE CleanUp(r)
  BY <1>8, CleanMoves
<1> QED
  BY <1>1, <1>2, <1>3, <1>4, <1>5, <1>6, <1>7, <1>8 DEF RunAction

LEMMA IdentitiesKept ==
  ASSUME IdentitiesFormed, UNCHANGED <<runVars, history>>,
         \A r \in Runs : \A i, s : Theirs(r, i, s) => Theirs(r, i, s)'
  PROVE  IdentitiesFormed'
<1>1. run' = run /\ stubId' = stubId /\ history' = history
  BY DEF runVars
<1>2. \A r \in Runs : \A i, s : Theirs(r, i, s) => Theirs(r, i, s)'
  OBVIOUS
<1>3. ASSUME NEW r \in Runs, run[r].pc \notin {"idle", "clean", "ended"},
             NEW i \in DOMAIN Then(r), Then(r)[i].do = "stub", HasMarked(run[r], i)
      PROVE  Theirs(r, i, stubId[TestOf[r]][i])'
  <2>1. Theirs(r, i, stubId[TestOf[r]][i])
    BY <1>3 DEF IdentitiesFormed
  <2> QED
    BY <1>1, <1>2, <2>1 DEF Theirs
<1>4. ASSUME NEW r \in Runs, run[r].pc = "waiting"
      PROVE  Theirs(r, run[r].item, run[r].target)'
  <2>1. Theirs(r, run[r].item, run[r].target)
    BY <1>4 DEF IdentitiesFormed
  <2> QED
    BY <1>1, <1>2, <2>1 DEF Theirs
<1>5. stubId' = [t \in Tests |-> [i \in DOMAIN Thens[t] |-> stubId'[t][i]]]
  BY <1>1 DEF IdentitiesFormed
<1> QED
  BY <1>1, <1>3, <1>4, <1>5 DEF IdentitiesFormed, Then, HasMarked

\* What a step of r does to the identities: at most one is marked.
LEMMA IdentityMoves ==
  ASSUME RunsFormed, IdentitiesFormed, NEW r \in Runs, RunAction(r) \/ BeginRun(r) \/ SkipRun(r)
  PROVE  /\ stubId' = [t \in Tests |-> [i \in DOMAIN Thens[t] |-> stubId'[t][i]]]
         /\ \A t \in Tests : \A i \in DOMAIN Thens[t] :
               \/ stubId'[t][i] = stubId[t][i]
               \/ /\ MarkItem(r) /\ t = TestOf[r] /\ i = run[r].item
                  /\ stubId'[t][i] = <<r, run[r].item>>
<1>1. CASE stubId' = stubId
  BY <1>1 DEF IdentitiesFormed
<1>2. CASE stubId' # stubId
  <2> DEFINE t0 == TestOf[r]
             k == run[r].item
  <2>1. MarkItem(r)
    BY <1>2 DEF RunAction, BeginRun, SkipRun, RegisterStub, Registered, WhenItem,
       PlainItem, Expectation, AwaitStub, Fulfilled, TimesOut, Verdict, CleanUp
  <2>2. /\ t0 \in Tests /\ k \in DOMAIN Thens[t0]
        /\ stubId' = [stubId EXCEPT ![t0] = [@ EXCEPT ![k] = <<r, k>>]]
    BY <1>2, <2>1, MarkMoves, ItemsType DEF MarkItem, Then
  <2> HIDE DEF t0, k
  <2>3. /\ DOMAIN stubId = Tests /\ \A t \in Tests : DOMAIN stubId[t] = DOMAIN Thens[t]
        /\ \A t \in Tests : stubId[t] = [i \in DOMAIN Thens[t] |-> stubId[t][i]]
    BY DEF IdentitiesFormed
  <2>4. /\ stubId' = [t \in Tests |-> stubId'[t]]
        /\ \A t \in Tests \ {t0} : stubId'[t] = stubId[t]
        /\ stubId'[t0] = [stubId[t0] EXCEPT ![k] = <<r, k>>]
    BY <2>2, <2>3
  <2>5. /\ stubId'[t0] = [i \in DOMAIN Thens[t0] |-> stubId'[t0][i]]
        /\ \A i \in DOMAIN Thens[t0] : stubId'[t0][i] = IF i = k THEN <<r, k>> ELSE stubId[t0][i]
    BY <2>2, <2>3, <2>4
  <2>6. \A t \in Tests : stubId'[t] = [i \in DOMAIN Thens[t] |-> stubId'[t][i]]
    BY <2>3, <2>4, <2>5
  <2> QED
    BY <2>1, <2>2, <2>4, <2>5, <2>6 DEF t0, k
<1> QED
  BY <1>1, <1>2

LEMMA IdentitiesRun ==
  ASSUME RunsFormed, CallsFormed, IdentitiesFormed,
         NEW r \in Runs, RunAction(r) \/ BeginRun(r) \/ SkipRun(r)
  PROVE  IdentitiesFormed'
<1>1. /\ Moved(r) /\ calls' = calls
      /\ \A p \in Runs \ {r} : history'[p].before = history[p].before
      /\ \A p \in Runs \ {r} : run'[p] = run[p]
  BY EveryMove DEF Moved
<1>3. /\ stubId' = [t \in Tests |-> [i \in DOMAIN Thens[t] |-> stubId'[t][i]]]
      /\ \A t \in Tests : \A i \in DOMAIN Thens[t] :
            \/ stubId'[t][i] = stubId[t][i]
            \/ /\ MarkItem(r) /\ t = TestOf[r] /\ i = run[r].item
               /\ stubId'[t][i] = <<r, run[r].item>>
  BY IdentityMoves
<1>4. \A p \in Runs : \A i, s :
         Theirs(p, i, s) /\ history'[p].before = history[p].before => Theirs(p, i, s)'
  BY <1>1 DEF Theirs, StubIds
\* The identity of an item of p is the one it had, or r has just marked it.
<1>5. ASSUME NEW p \in Runs, NEW i \in DOMAIN Then(p), Then(p)[i].do = "stub",
             history'[p].before = history[p].before,
             Theirs(p, i, stubId[TestOf[p]][i])
      PROVE  Theirs(p, i, stubId[TestOf[p]][i])' 
  <2>1. TestOf[p] \in Tests /\ i \in DOMAIN Thens[TestOf[p]]
    BY ItemsType DEF Then
  <2>2. CASE stubId'[TestOf[p]][i] = stubId[TestOf[p]][i]
    BY <1>4, <1>5, <2>2 DEF Theirs
  <2>3. CASE stubId'[TestOf[p]][i] # stubId[TestOf[p]][i]
    <3>1. MarkItem(r) /\ TestOf[p] = TestOf[r] /\ i = run[r].item
          /\ stubId'[TestOf[p]][i] = <<r, run[r].item>>
      BY <1>3, <2>1, <2>3
    <3>2. Theirs(p, i, <<r, run[r].item>>)
      BY <3>1, MarkedIsTheirs
    <3> QED
      BY SMTT(60), <1>4, <1>5, <3>1, <3>2 DEF Theirs
  <2> QED
    BY <2>2, <2>3
<1>6. ASSUME NEW p \in Runs, run'[p].pc \notin {"idle", "clean", "ended"},
             NEW i \in DOMAIN Then(p), Then(p)[i].do = "stub", HasMarked(run'[p], i)
      PROVE  Theirs(p, i, stubId[TestOf[p]][i])'
  <2>1. CASE p # r
    <3>1. run'[p] = run[p] /\ history'[p].before = history[p].before
      BY <1>1, <2>1
    <3>2. Theirs(p, i, stubId[TestOf[p]][i])
      BY <1>6, <3>1 DEF IdentitiesFormed
    <3> QED
      BY <1>5, <1>6, <3>1, <3>2
  <2>2. CASE p = r /\ (BeginRun(r) \/ SkipRun(r))
    <3>1. run'[r].pc = "register" /\ run'[r].item = 1 /\ i < 1
      BY <1>6, <2>2, BeginMoves DEF HasMarked
    <3>2. i \in Nat \ {0}
      BY ItemsType
    <3> QED
      BY <3>1, <3>2
  <2>3. CASE p = r /\ MarkItem(r)
    <3>0. i \in Nat /\ history'[r].before = history[r].before /\ run[r].pc = "register"
      BY <2>3, ItemsType, MarkMoves, DisturbingNotes DEF MarkItem
    <3>1. CASE i = run[r].item
      <4>1. Then(r)[run[r].item].do = "stub"
        BY <1>6, <2>3, <3>1
      <4>2. /\ stubId' = [stubId EXCEPT ![TestOf[r]][run[r].item] = <<r, run[r].item>>]
            /\ TestOf[r] \in Tests /\ run[r].item \in DOMAIN Thens[TestOf[r]]
        BY <2>3, <4>1, ItemsType DEF MarkItem, Then
      <4>3. stubId'[TestOf[r]][run[r].item] = <<r, run[r].item>>
        BY <4>2 DEF IdentitiesFormed
      <4>4. Theirs(r, run[r].item, <<r, run[r].item>>)
        BY <2>3, MarkedIsTheirs
      <4> QED
        BY <1>4, <2>3, <3>0, <3>1, <4>3, <4>4 DEF Theirs
    <3>2. CASE i # run[r].item
      <4>1. HasMarked(run[r], i)
        BY <1>6, <2>3, <3>0, <3>2, MarkMoves
      <4>2. Theirs(r, i, stubId[TestOf[r]][i])
        BY <1>6, <2>3, <3>0, <4>1 DEF IdentitiesFormed
      <4> QED
        BY <1>5, <1>6, <2>3, <3>0, <4>2
    <3> QED
      BY <3>1, <3>2
  <2>4. CASE p = r /\ RunAction(r) /\ ~MarkItem(r)
    <3>1. /\ run[r].pc \notin {"idle", "clean", "ended"} /\ HasMarked(run[r], i)
          /\ history'[r].before = history[r].before
      BY <1>6, <2>4, MarksKept
    <3>2. Theirs(r, i, stubId[TestOf[r]][i])
      BY <1>6, <2>4, <3>1 DEF IdentitiesFormed
    <3> QED
      BY <1>5, <1>6, <2>4, <3>1, <3>2
  <2> QED
    BY <2>1, <2>2, <2>3, <2>4
<1>7. ASSUME NEW p \in Runs, run'[p].pc = "waiting"
      PROVE  Theirs(p, run[p].item, run[p].target)'
  <2>1. CASE p # r
    <3>1. run'[p] = run[p] /\ history'[p].before = history[p].before
      BY <1>1, <2>1
    <3>2. Theirs(p, run[p].item, run[p].target)
      BY <1>7, <3>1 DEF IdentitiesFormed
    <3> QED
      BY <1>4, <3>1, <3>2 DEF Theirs
  <2>2. CASE p = r
    <3>1. RunAction(r) /\ ~MarkItem(r)
      BY <1>7, <2>2, BeginMoves, MarkMoves
    <3>2. AwaitStub(r) /\ history'[r].before = history[r].before
      BY <1>7, <2>2, <3>1, MarksKept
    <3>3. run'[r].item = run[r].item /\ run'[r].target = stubId[TestOf[r]][run[r].item]
      BY <1>7, <2>2, <3>2, AwaitMoves
    <3>4. run[r].pc = "then" /\ run[r].item \in DOMAIN Then(r) /\ Then(r)[run[r].item].do = "stub"
      BY <3>2 DEF AwaitStub, ThisItem
    <3>5. Theirs(r, run[r].item, stubId[TestOf[r]][run[r].item])
      BY <3>4 DEF IdentitiesFormed, HasMarked
    <3> QED
      BY SMTT(60), <1>4, <2>2, <3>2, <3>3, <3>5 DEF Theirs
  <2> QED
    BY <2>1, <2>2
<1> QED
  BY <1>3, <1>6, <1>7 DEF IdentitiesFormed, Then, HasMarked

LEMMA IdentitiesFormedStep ==
  ASSUME AllInTurn, RunsFormed, CallsFormed, IdentitiesFormed, [Next]_vars
  PROVE  IdentitiesFormed'
<1>1. CASE UNCHANGED vars
  <2>1. UNCHANGED <<runVars, history>> /\ calls' = calls /\ history' = history
    BY <1>1 DEF vars, stubVars
  <2>2. \A r \in Runs : \A i, s : Theirs(r, i, s) => Theirs(r, i, s)'
    BY <2>1 DEF Theirs, StubIds
  <2> QED
    BY <2>1, <2>2, IdentitiesKept
<1>2. ASSUME NEW q \in Requests, SendRequest(q) \/ ServerStep(q), UNCHANGED <<runVars, history>>
      PROVE  IdentitiesFormed'
  BY <1>2, TheirsStay, IdentitiesKept
<1> QED
  BY <1>1, <1>2, StepKinds, IdentitiesRun

\* The requests that count for item i of run r, and how they suffice for a wait.
Counted(r, i) == AnsweredFor(Then(r)[i]) \ history[r].before

LEMMA CountedGrows ==
  ASSUME AllInTurn, CallsFormed, NEW q \in Requests, SendRequest(q) \/ ServerStep(q), UNCHANGED history,
         NEW r \in Runs, NEW i
  PROVE  Counted(r, i) \subseteq Counted(r, i)'
<1>1. AnsweredFor(Then(r)[i]) \subseteq AnsweredFor(Then(r)[i])'
  BY ServerCalls DEF AnsweredFor, Then
<1> QED
  BY <1>1 DEF Counted

LEMMA CountedFinite ==
  ASSUME NEW r \in Runs, NEW i
  PROVE  IsFiniteSet(Counted(r, i)) /\ Cardinality(Counted(r, i)) \in Nat
<1>1. Counted(r, i) \subseteq Requests
  BY DEF Counted, AnsweredFor
<1> QED
  BY <1>1, TestRunsAssumption, FS_Subset, FS_CardinalityType

LEMMA FulfilledSuffices ==
  ASSUME RunsFormed, CallsFormed, IdentitiesFormed, NEW r \in Runs,
         run[r].pc = "waiting", IsFulfilled(run[r].target)
  PROVE  CallsFor(Then(r)[run[r].item].times) <= Cardinality(Counted(r, run[r].item))
<1> DEFINE s == run[r].target
           i == run[r].item
<1>1. Theirs(r, i, s)
  BY DEF IdentitiesFormed
<1>2. ItemOf(s) = Then(r)[i]
  BY <1>1 DEF Theirs, ItemOf, Then
<1>3. calls[s] \subseteq Counted(r, i)
  BY <1>1, <1>2 DEF Theirs, CallsFormed, Counted
<1>4. Cardinality(calls[s]) <= Cardinality(Counted(r, i)) /\ Cardinality(calls[s]) \in Nat
  BY <1>3, CountedFinite, FS_Subset, FS_CardinalityType
<1>5. Then(r)[i].times \in Nat
  BY ItemsType DEF RunsFormed, RunOK
<1>6. Cardinality(calls[s]) >= Then(r)[i].times /\ calls[s] # {}
  BY <1>2 DEF IsFulfilled
<1>7. Cardinality(calls[s]) # 0
  <2>1. IsFiniteSet(calls[s])
    BY <1>3, CountedFinite, FS_Subset
  <2> QED
    BY <1>6, <2>1, FS_EmptySet
<1> QED
  BY <1>4, <1>5, <1>6, <1>7, CountedFinite DEF CallsFor

\* MatchedWasCalled in terms of the requests that count.
Sufficient ==
    \A r \in Runs : \A i \in DOMAIN run[r].results :
        Then(r)[i].do = "stub" /\ run[r].results[i] = "MATCHED" =>
            Then(r)[i].times \in Nat /\ CallsFor(Then(r)[i].times) <= Cardinality(Counted(r, i))

LEMMA SufficientServer ==
  ASSUME AllInTurn, CallsFormed, Sufficient,
         NEW q \in Requests, SendRequest(q) \/ ServerStep(q), UNCHANGED <<runVars, history>>
  PROVE  Sufficient'
<1> SUFFICES ASSUME NEW r \in Runs, NEW i \in DOMAIN run'[r].results,
                    Then(r)[i].do = "stub", run'[r].results[i] = "MATCHED"
             PROVE  /\ Then(r)[i].times \in Nat
                    /\ CallsFor(Then(r)[i].times) <= Cardinality(Counted(r, i)')
  BY DEF Sufficient, Then
<1>1. Counted(r, i) \subseteq Counted(r, i)'
  BY CountedGrows
<1>2. IsFiniteSet(Counted(r, i)')
  <2>1. Counted(r, i)' \subseteq Requests
    BY DEF Counted, AnsweredFor
  <2> QED
    BY <2>1, TestRunsAssumption, FS_Subset
<1>3. Cardinality(Counted(r, i)) <= Cardinality(Counted(r, i)') /\ Cardinality(Counted(r, i)') \in Nat
  BY <1>1, <1>2, FS_Subset, FS_CardinalityType
<1>4. run' = run
  BY DEF runVars
<1>5. Then(r)[i].times \in Nat /\ CallsFor(Then(r)[i].times) <= Cardinality(Counted(r, i))
  BY <1>4 DEF Sufficient
<1> QED
  BY <1>3, <1>5, CountedFinite DEF CallsFor

\* The results that a step of run r leaves: it has none, those it had, or one more,
\* which is MATCHED for a stub only when the wait for it is over.
LEMMA ResultsOf ==
  ASSUME RunsFormed, NEW r \in Runs, RunAction(r) \/ BeginRun(r) \/ SkipRun(r)
  PROVE  \/ run'[r].results = <<>>
         \/ /\ history'[r].before = history[r].before
            /\ \/ run'[r].results = run[r].results
               \/ \E outcome \in Outcomes :
                     /\ run[r].pc \in {"then", "waiting"}
                     /\ run'[r].results = Append(run[r].results, outcome)
                     /\ outcome = "MATCHED" /\ Then(r)[run[r].item].do = "stub" =>
                           run[r].pc = "waiting" /\ IsFulfilled(run[r].target)
<1>1. CASE BeginRun(r) \/ SkipRun(r)
  BY <1>1, BeginMoves
<1>2. CASE CleanUp(r)
  BY <1>2, CleanMoves
<1>3. CASE MarkItem(r) \/ RegisterStub(r) \/ WhenItem(r) \/ Verdict(r)
  BY <1>3, MarkMoves, MarkNotes, RegisterMoves, WhenMoves, VerdictMoves DEF RegisterStub, WhenItem, Verdict
<1>4. CASE Registered(r)
  BY <1>4, RegisteredMoves
<1>5. CASE PlainItem(r) \/ Expectation(r)
  BY <1>5, ItemMoves
<1>6. CASE AwaitStub(r)
  BY <1>6, LookupMoves DEF Outcomes
<1>7. CASE Fulfilled(r) \/ TimesOut(r)
  BY <1>7, WaitMoves
<1> QED
  BY <1>1, <1>2, <1>3, <1>4, <1>5, <1>6, <1>7 DEF RunAction

LEMMA SufficientRun ==
  ASSUME RunsFormed, CallsFormed, IdentitiesFormed, Sufficient,
         NEW p \in Runs, RunAction(p) \/ BeginRun(p) \/ SkipRun(p)
  PROVE  Sufficient'
<1> SUFFICES ASSUME NEW r \in Runs, NEW i \in DOMAIN run'[r].results,
                    Then(r)[i].do = "stub", run'[r].results[i] = "MATCHED"
             PROVE  /\ Then(r)[i].times \in Nat
                    /\ CallsFor(Then(r)[i].times) <= Cardinality(Counted(r, i)')
  BY DEF Sufficient, Then
<1>1. /\ req' = req
      /\ \A o \in Runs \ {p} : run'[o] = run[o] /\ history'[o].before = history[o].before
  BY EveryMove DEF dispatchVars, Moved
<1>2. ASSUME history'[r].before = history[r].before
      PROVE  Counted(r, i)' = Counted(r, i)
  BY <1>1, <1>2 DEF Counted, AnsweredFor, Accepts, Then
<1>3. CASE /\ history'[r].before = history[r].before
           /\ i \in DOMAIN run[r].results /\ run'[r].results[i] = run[r].results[i]
  BY <1>2, <1>3 DEF Sufficient
<1>4. CASE r # p
  BY <1>1, <1>3, <1>4
<1>5. CASE r = p
  <2>1. CASE run'[r].results = <<>>
    BY <2>1
  <2>2. CASE history'[r].before = history[r].before /\ run'[r].results = run[r].results
    BY <1>3, <2>2
  <2>3. ASSUME history'[r].before = history[r].before,
               NEW outcome \in Outcomes,
               run[r].pc \in {"then", "waiting"},
               run'[r].results = Append(run[r].results, outcome),
               outcome = "MATCHED" /\ Then(r)[run[r].item].do = "stub" =>
                  run[r].pc = "waiting" /\ IsFulfilled(run[r].target)
        PROVE  /\ Then(r)[i].times \in Nat
               /\ CallsFor(Then(r)[i].times) <= Cardinality(Counted(r, i)')
    <3>1. /\ run[r].results \in Seq(Outcomes) /\ Len(run[r].results) = run[r].item - 1
          /\ run[r].item \in Nat \ {0}
          /\ run[r].pc = "waiting" => run[r].item \in DOMAIN Then(r)
      BY <2>3 DEF RunsFormed, RunOK
    <3>2. \/ i \in DOMAIN run[r].results /\ run'[r].results[i] = run[r].results[i]
          \/ i = run[r].item /\ run'[r].results[i] = outcome
      BY <2>3, <3>1
    <3>3. CASE i = run[r].item /\ run'[r].results[i] = outcome
      <4>1. run[r].pc = "waiting" /\ IsFulfilled(run[r].target)
        BY <2>3, <3>3
      <4>2. Then(r)[i].times \in Nat
        BY <3>1, <3>3, <4>1, ItemsType
      <4>3. CallsFor(Then(r)[i].times) <= Cardinality(Counted(r, i))
        BY <3>3, <4>1, FulfilledSuffices
      <4> QED
        BY <1>2, <2>3, <4>2, <4>3
    <3> QED
      BY <1>3, <2>3, <3>2, <3>3
  <2> QED
    BY <1>5, <2>1, <2>2, <2>3, ResultsOf
<1> QED
  BY <1>4, <1>5

LEMMA SufficientStep ==
  ASSUME AllInTurn, RunsFormed, CallsFormed, IdentitiesFormed, Sufficient, [Next]_vars
  PROVE  Sufficient'
<1>1. CASE UNCHANGED vars
  <2>1. run' = run /\ req' = req /\ history' = history
    BY <1>1 DEF vars, dispatchVars, runVars
  <2>2. ASSUME NEW r \in Runs, NEW i PROVE Counted(r, i)' = Counted(r, i)
    BY <2>1 DEF Counted, AnsweredFor, Accepts, Then
  <2> QED
    BY <2>1, <2>2 DEF Sufficient, Then
<1> QED
  BY <1>1, StepKinds, SufficientServer, SufficientRun

\* A stub expectation is MATCHED only if as many requests as it expects, but at
\* least one, of the kind it accepts, were answered by a stub after the run began,
\* even when a concurrent run of the test has replaced the identity of the stub.
THEOREM MatchedStubsWereCalled == Spec => []MatchedWasCalled
<1>1. Sufficient => MatchedWasCalled
  <2> SUFFICES ASSUME Sufficient, NEW r \in Runs, NEW i \in DOMAIN run[r].results,
                      Then(r)[i].do = "stub", run[r].results[i] = "MATCHED"
               PROVE  CallsFor(Then(r)[i].times) <= Cardinality(
                         {q \in Requests \ history[r].before :
                             req[q].answer = "stub" /\ Accepts(Then(r)[i], req[q].server, req[q].kind)})
    BY DEF MatchedWasCalled
  <2>1. Counted(r, i) = {q \in Requests \ history[r].before :
                            req[q].answer = "stub" /\ Accepts(Then(r)[i], req[q].server, req[q].kind)}
    BY DEF Counted, AnsweredFor
  <2> QED
    BY <2>1 DEF Sufficient
<1>2. Init => Sufficient
  <2> SUFFICES ASSUME Init PROVE Sufficient
    OBVIOUS
  <2>1. \A r \in Runs : run[r].results = <<>>
    BY DEF Init, Idle
  <2> QED
    BY <2>1 DEF Sufficient
<1> QED
  BY <1>1, <1>2, SufficientStep, TurnInit, TurnStep, RunsFormedInit, RunsFormedStep, StubsFormedInit,
     StubsFormedStep, CallsFormedInit, CallsFormedStep, IdentitiesFormedInit, IdentitiesFormedStep,
     PTL DEF Spec

-----------------------------------------------------------------------------
(***************************************************************************)
(* A run that no other run of its test has disturbed.  From its when phase *)
(* on its stubs are in the table and its identities are its own.  A        *)
(* request that was dispatched since then and that an item accepts was     *)
(* therefore matched with the stub of that item, unless another stub that  *)
(* accepts it as well has got it.                                          *)
(***************************************************************************)

IsStub(t, i)  == i \in DOMAIN Thens[t] /\ Thens[t][i].do = "stub"
InTable(u, i) == u.pc \in {"register", "marked"} => i < u.item

Settled(r)  == ~history[r].disturbed /\ run[r].pc \notin {"idle", "clean", "ended"}
Underway(r) == ~history[r].disturbed /\ run[r].pc \in {"when", "then", "waiting"}

IndexOfStubs == \A t \in Tests : \A s \in byTest[t] : TestOf[s[1]] = t

OwnsStub(r, i) ==
    /\ HasMarked(run[r], i) => stubId[TestOf[r]][i] = <<r, i>>
    /\ InTable(run[r], i) => <<r, i>> \in DOMAIN stubs
OwnsAll(r) ==
    /\ \A i \in DOMAIN Then(r) : Then(r)[i].do = "stub" => OwnsStub(r, i)
    /\ run[r].pc = "waiting" => run[r].target = <<r, run[r].item>>
OwnStubs == \A r \in Runs : Settled(r) => OwnsAll(r)

Noticed(r, i, q) ==
    /\ req[q].at # "outputs"
    /\ req[q].at = "matching" => <<r, i>> \in DOMAIN req[q].seen
    /\ req[q].at = "replied" => \E s \in StubIds : q \in calls[s]
NoneMissed ==
    \A r \in Runs : Underway(r) => \A q \in Requests \ history[r].early : \A i \in DOMAIN Then(r) :
        Then(r)[i].do = "stub" /\ Accepts(Then(r)[i], req[q].server, req[q].kind) => Noticed(r, i, q)

NotesFormed ==
    \A r \in Runs : /\ history[r].answered \in Seq(Nat)
                    /\ Len(history[r].answered) = Len(run[r].results)

\* What the auxiliary variable notes of a step of run r.
Noting(r) ==
    \A p \in Runs \ {r} : /\ history'[p].early = history[p].early
                          /\ history'[p].answered = history[p].answered
                          /\ ~history'[p].disturbed => ~history[p].disturbed

LEMMA BeginNotes ==
  ASSUME RunsFormed, NEW r \in Runs, BeginRun(r) \/ SkipRun(r)
  PROVE  Noting(r) /\ history'[r].answered = history[r].answered
<1>1. history' = [history EXCEPT ![r].before = UNION {calls[c] : c \in StubIds}]
  BY DEF BeginRun, SkipRun, NoteBegin
<1>2. history = [p \in Runs |-> history[p]] /\ \A p \in Runs : DOMAIN history[p] = Noted
  BY DEF RunsFormed
<1> QED
  BY <1>1, <1>2 DEF Noted, Noting

LEMMA ResultNotes ==
  ASSUME RunsFormed, NEW r \in Runs, NEW outcome, Result(r, outcome)
  PROVE  /\ Noting(r)
         /\ history'[r].disturbed = history[r].disturbed /\ history'[r].early = history[r].early
         /\ history'[r].answered = Append(history[r].answered, Cardinality(ForThisItem(r)))
<1> DEFINE n == Cardinality(ForThisItem(r))
<1>1. history' = [history EXCEPT ![r].answered = Append(@, n)]
  BY DEF Result
<1> HIDE DEF n
<1>2. DOMAIN history[r] = Noted /\ history = [p \in Runs |-> history[p]]
  BY DEF RunsFormed
<1> QED
  BY <1>1, <1>2 DEF Noted, Noting, n

\* A run step of run r but its last, and but the one that ends the registration.
LEMMA ActionNotes ==
  ASSUME RunsFormed, NEW r \in Runs, RunAction(r)
  PROVE  /\ Noting(r)
         /\ ~CleanUp(r) => history'[r].disturbed = history[r].disturbed
         /\ ~CleanUp(r) /\ ~Registered(r) => history'[r].early = history[r].early
<1>1. CASE UNCHANGED history
  BY <1>1 DEF Noting
<1>2. ASSUME NEW outcome, Result(r, outcome)
      PROVE  /\ Noting(r) /\ history'[r].disturbed = history[r].disturbed
             /\ history'[r].early = history[r].early
  BY <1>2, ResultNotes
<1>3. CASE RegisterStub(r) \/ WhenItem(r) \/ Verdict(r)
  BY <1>1, <1>3 DEF RegisterStub, WhenItem, Verdict
<1>4. CASE MarkItem(r)
  BY <1>4, MarkNotes DEF Noting
<1>5. CASE Registered(r)
  <2>1. PICK e : history' = [history EXCEPT ![r].early = e]
    BY <1>5 DEF Registered
  <2>2. DOMAIN history[r] = Noted /\ history = [p \in Runs |-> history[p]]
    BY DEF RunsFormed
  <2> QED
    BY <1>5, <2>1, <2>2 DEF Noted, Noting
<1>6. CASE PlainItem(r)
  BY <1>1, <1>2, <1>6 DEF PlainItem
<1>7. CASE Expectation(r)
  BY <1>2, <1>7 DEF Expectation
<1>8. CASE AwaitStub(r)
  BY <1>1, <1>2, <1>8 DEF AwaitStub
<1>9. CASE Fulfilled(r) \/ TimesOut(r)
  BY <1>2, <1>9 DEF Fulfilled, TimesOut
<1>10. CASE CleanUp(r)
  BY <1>10, CleanMoves, DisturbingNotes DEF Noting
<1> QED
  BY <1>3, <1>4, <1>5, <1>6, <1>7, <1>8, <1>9, <1>10 DEF RunAction

\* Who writes an identity or cleans up disturbs the other runs of its test.
LEMMA Disturbs ==
  ASSUME RunsFormed, NEW r \in Runs, NEW p \in Active \ {r}, TestOf[p] = TestOf[r],
         CleanUp(r) \/ (MarkItem(r) /\ stubId' # stubId)
  PROVE  history'[p].disturbed
<1>1. p \in Runs
  BY DEF Active
<1>2. CASE CleanUp(r)
  BY <1>1, <1>2, CleanMoves, DisturbingNotes
<1>3. CASE MarkItem(r) /\ stubId' # stubId
  <2>1. history' = Disturbing(r)
    BY <1>3, MarkMoves DEF MarkItem
  <2> QED
    BY <1>1, <2>1, DisturbingNotes
<1> QED
  BY <1>2, <1>3

LEMMA IndexInit == Init => IndexOfStubs
  BY DEF Init, HttpStubsInit, IndexOfStubs

LEMMA IndexStep ==
  ASSUME RunsFormed, StubsFormed, IndexOfStubs, [Next]_vars
  PROVE  IndexOfStubs'
<1>1. ASSUME NEW r \in Runs, RunAction(r) \/ BeginRun(r) \/ SkipRun(r) PROVE IndexOfStubs'
  <2>1. CASE RegisterStub(r)
    <3> DEFINE s == <<r, run[r].item>>
    <3>1. byTest' = [byTest EXCEPT ![TestOf[r]] = @ \cup {s}] /\ s[1] = r
      BY <2>1 DEF RegisterStub, Register
    <3> HIDE DEF s
    <3> QED
      BY <3>1 DEF StubsFormed, IndexOfStubs
  <2>2. CASE CleanUp(r)
    BY <2>2 DEF CleanUp, CleanupTest, StubsFormed, IndexOfStubs
  <2>3. CASE ~RegisterStub(r) /\ ~CleanUp(r)
    BY <1>1, <2>3, TableKept DEF stubVars, IndexOfStubs
  <2> QED
    BY <2>1, <2>2, <2>3
<1>2. CASE byTest' = byTest
  BY <1>2 DEF IndexOfStubs
<1> QED
  BY <1>1, <1>2, StepKinds, ServersKeepTable DEF vars, stubVars

\* A run that does something is under way.
LEMMA ActsWhenActive == ASSUME NEW r \in Runs, RunAction(r) PROVE r \in Active
  BY DEF RunAction, MarkItem, RegisterStub, Registered, WhenItem, PlainItem, Expectation, AwaitStub,
     Fulfilled, TimesOut, Verdict, CleanUp, Active

-----------------------------------------------------------------------------
LEMMA OwnInit == Init => OwnStubs
  BY DEF Init, Idle, OwnStubs, Settled

\* The steps of other runs: what they write and remove is not of p, which they do
\* not disturb.
LEMMA OwnOthers ==
  ASSUME RunsFormed, StubsFormed, IdentitiesFormed, IndexOfStubs, OwnStubs,
         NEW r \in Runs, RunAction(r) \/ BeginRun(r) \/ SkipRun(r),
         NEW p \in Runs \ {r}, Settled(p)'
  PROVE  OwnsAll(p)'
<1>1. run'[p] = run[p] /\ p \in Active
  BY EveryMove DEF Moved, Settled, Active
<1>2. ~history'[p].disturbed /\ ~history[p].disturbed
  BY BeginNotes, ActionNotes DEF Noting, Settled
<1>3. OwnsAll(p)
  BY <1>1, <1>2 DEF OwnStubs, Settled
<1>4. \A s \in DOMAIN stubs : TestOf[s[1]] = TestOf[p] => s \in DOMAIN stubs'
  <2>1. CASE CleanUp(r)
    <3>1. /\ DOMAIN stubs' = DOMAIN stubs \ byTest[TestOf[r]]
          /\ TestOf[r] \in Tests
      BY <2>1, ItemsType DEF CleanUp, CleanupTest
    <3>2. TestOf[p] # TestOf[r]
      BY <1>1, <1>2, <2>1, Disturbs
    <3> QED
      BY <3>1, <3>2 DEF IndexOfStubs
  <2>2. CASE RegisterStub(r)
    <3>1. DOMAIN stubs' = DOMAIN stubs \cup {<<r, run[r].item>>}
      BY <2>2, RegisterForms
    <3> QED
      BY <3>1
  <2>3. CASE ~CleanUp(r) /\ ~RegisterStub(r)
    BY <2>3, TableKept DEF stubVars
  <2> QED
    BY <2>1, <2>2, <2>3
<1>5. \A i \in DOMAIN Then(p) : stubId'[TestOf[p]][i] = stubId[TestOf[p]][i]
  <2>1. CASE stubId' = stubId
    BY <2>1
  <2>2. CASE stubId' # stubId /\ TestOf[p] # TestOf[r]
    BY <2>2, ItemsType, IdentityMoves DEF Then
  <2>3. CASE stubId' # stubId /\ ~MarkItem(r)
    BY <2>3, ItemsType, IdentityMoves DEF Then
  <2>4. CASE stubId' # stubId /\ TestOf[p] = TestOf[r] /\ MarkItem(r)
    BY <1>1, <1>2, <2>4, Disturbs
  <2> QED
    BY <2>1, <2>2, <2>3, <2>4
<1>6. ASSUME NEW i \in DOMAIN Then(p), Then(p)[i].do = "stub" PROVE OwnsStub(p, i)'
  <2>1. OwnsStub(p, i)
    BY <1>3, <1>6 DEF OwnsAll
  <2>2. TestOf[<<p, i>>[1]] = TestOf[p]
    OBVIOUS
  <2> QED
    BY <1>1, <1>4, <1>5, <2>1, <2>2 DEF OwnsStub, HasMarked, InTable
<1> QED
  BY <1>1, <1>3, <1>6 DEF OwnsAll, Then

\* Its own steps.
LEMMA OwnBegin ==
  ASSUME RunsFormed, NEW r \in Runs, BeginRun(r) \/ SkipRun(r), Settled(r)'
  PROVE  OwnsAll(r)'
<1>1. run'[r].pc = "register" /\ run'[r].item = 1 /\ run[r].pc = "idle"
  BY BeginMoves DEF Settled
<1>2. \A i \in DOMAIN Then(r) : ~HasMarked(run'[r], i) /\ ~InTable(run'[r], i)
  <2>1. \A i \in DOMAIN Then(r) : i \in Nat \ {0}
    BY ItemsType
  <2> QED
    BY <1>1, <2>1 DEF HasMarked, InTable
<1> QED
  BY <1>1, <1>2 DEF OwnsAll, OwnsStub, HasMarked, InTable, Then

LEMMA OwnAction ==
  ASSUME RunsFormed, StubsFormed, CallsFormed, IdentitiesFormed, OwnStubs,
         NEW r \in Runs, RunAction(r), Settled(r)'
  PROVE  OwnsAll(r)'
<1>0. /\ RunOK(r, run[r]) /\ RunOK(r, run'[r]) /\ run = [p \in Runs |-> run[p]]
      /\ DOMAIN run[r] = RunFields
  BY EveryMove DEF Moved, RunsFormed, RunOK
<1>1. PICK n \in 0..3 : DOMAIN Then(r) = 1..n
  BY ItemsType
<1>2. run'[r].pc \notin {"idle", "clean", "ended"} /\ ~CleanUp(r)
  BY CleanMoves DEF Settled
<1>3. run[r].pc \notin {"idle", "clean", "ended"}
  BY <1>2, MarksKept DEF MarkItem
<1>4. OwnsAll(r)
  <2>1. ~history[r].disturbed
    BY <1>2, ActionNotes DEF Settled
  <2> QED
    BY <1>3, <2>1 DEF OwnStubs, Settled
<1>5. ASSUME NEW i \in DOMAIN Then(r), Then(r)[i].do = "stub" PROVE OwnsStub(r, i)
  BY <1>4, <1>5 DEF OwnsAll
<1>6. CASE MarkItem(r)
  <2>1. stubs' = stubs
    BY <1>6 DEF MarkItem, stubVars
  <2>2. /\ run'[r].pc \in {"register", "marked"} /\ run[r].pc = "register"
        /\ run'[r].pc = "marked" => run'[r].item = run[r].item
        /\ run'[r].pc = "register" => /\ run'[r].item = run[r].item + 1
                                      /\ Then(r)[run[r].item].do # "stub"
    BY <1>0, <1>6, MarkMoves DEF MarkItem, RunFields
  <2>3. ASSUME NEW i \in DOMAIN Then(r), Then(r)[i].do = "stub" PROVE OwnsStub(r, i)'
    <3>0. OwnsStub(r, i) /\ i \in Nat /\ run[r].item \in Nat
      BY <1>0, <1>1, <1>5, <2>3 DEF RunOK
    <3>1. InTable(run'[r], i) => InTable(run[r], i)
      BY <2>2, <2>3, <3>0 DEF InTable
    <3>2. HasMarked(run'[r], i) => stubId'[TestOf[r]][i] = <<r, i>>
      <4>1. CASE i = run[r].item
        <5>1. MarkItem(r) /\ DOMAIN stubId = Tests /\ TestOf[r] \in Tests
              /\ DOMAIN stubId[TestOf[r]] = DOMAIN Thens[TestOf[r]]
          BY <1>6, ItemsType DEF IdentitiesFormed
        <5>2. stubId' = [stubId EXCEPT ![TestOf[r]][i] = <<r, i>>]
          BY <1>6, <2>3, <4>1 DEF MarkItem
        <5> QED
          BY <5>1, <5>2 DEF Then
      <4>2. CASE i # run[r].item
        <5>1. HasMarked(run'[r], i) => HasMarked(run[r], i)
          BY <1>6, <3>0, <4>2, MarkMoves
        <5>2. stubId'[TestOf[r]][i] = stubId[TestOf[r]][i]
          BY <4>2, ItemsType, IdentityMoves DEF Then
        <5> QED
          BY <3>0, <5>1, <5>2 DEF OwnsStub
      <4> QED
        BY <4>1, <4>2
    <3> QED
      BY <2>1, <3>0, <3>1, <3>2 DEF OwnsStub, HasMarked, InTable
  <2> QED
    BY <2>2, <2>3 DEF OwnsAll, Then
<1>7. CASE RegisterStub(r)
  <2>1. DOMAIN stubs' = DOMAIN stubs \cup {<<r, run[r].item>>} /\ stubId' = stubId
    BY <1>7, RegisterForms DEF RegisterStub
  <2>2. /\ run[r].pc = "marked" /\ run'[r].pc = "register" /\ run'[r].item = run[r].item + 1
        /\ \A i \in Nat : HasMarked(run'[r], i) => HasMarked(run[r], i)
    BY <1>0, <1>7, RegisterMoves DEF RegisterStub, RunFields
  <2>3. ASSUME NEW i \in DOMAIN Then(r), Then(r)[i].do = "stub" PROVE OwnsStub(r, i)'
    <3>0. OwnsStub(r, i) /\ i \in Nat /\ run[r].item \in Nat
      BY <1>0, <1>1, <1>5, <2>3 DEF RunOK
    <3>1. InTable(run'[r], i) => InTable(run[r], i) \/ i = run[r].item
      BY <2>2, <3>0 DEF InTable
    <3>2. HasMarked(run'[r], i) => HasMarked(run[r], i)
      BY <2>2, <3>0
    <3>3. InTable(run'[r], i) => <<r, i>> \in DOMAIN stubs'
      BY <2>1, <3>0, <3>1 DEF OwnsStub
    <3>4. HasMarked(run'[r], i) => stubId'[TestOf[r]][i] = <<r, i>>
      BY <2>1, <3>0, <3>2 DEF OwnsStub
    <3> QED
      BY <3>3, <3>4 DEF OwnsStub, HasMarked, InTable
  <2> QED
    BY <2>2, <2>3 DEF OwnsAll, Then
<1>8. CASE ~MarkItem(r) /\ ~RegisterStub(r)
  <2>1. stubs' = stubs /\ stubId' = stubId
    BY <1>2, <1>8, TableKept, MarksKept DEF stubVars
  <2>2. ASSUME NEW i \in DOMAIN Then(r), Then(r)[i].do = "stub" PROVE OwnsStub(r, i)'
    <3>1. HasMarked(run[r], i) \/ ~HasMarked(run'[r], i)
      BY <1>2, <1>8, MarksKept
    <3>2. InTable(run[r], i)
      <4>1. CASE Registered(r)
        BY <1>0, <1>1, <4>1 DEF Registered, InTable, RunOK
      <4>2. CASE ~Registered(r)
        BY <1>2, <1>8, <4>2 DEF RunAction, WhenItem, PlainItem, Expectation, AwaitStub,
           Fulfilled, TimesOut, Verdict, InTable
      <4> QED
        BY <4>1, <4>2
    <3> QED
      BY <1>5, <2>1, <2>2, <3>1, <3>2 DEF OwnsStub, HasMarked, InTable
  <2>3. ASSUME run'[r].pc = "waiting" PROVE run'[r].target = <<r, run'[r].item>>
    <3>1. AwaitStub(r)
      BY <1>2, <1>8, <2>3, MarksKept
    <3>2. run'[r].item = run[r].item /\ run'[r].target = stubId[TestOf[r]][run[r].item]
      BY <2>3, <3>1, AwaitMoves
    <3>3. run[r].pc = "then" /\ run[r].item \in DOMAIN Then(r) /\ Then(r)[run[r].item].do = "stub"
      BY <3>1 DEF AwaitStub, ThisItem
    <3> QED
      BY <1>5, <3>2, <3>3 DEF OwnsStub, HasMarked
  <2> QED
    BY <2>2, <2>3 DEF OwnsAll, Then
<1> QED
  BY <1>6, <1>7, <1>8

LEMMA OwnStep ==
  ASSUME RunsFormed, StubsFormed, CallsFormed, IdentitiesFormed, IndexOfStubs, OwnStubs, [Next]_vars
  PROVE  OwnStubs'
<1>1. ASSUME NEW r \in Runs, RunAction(r) \/ BeginRun(r) \/ SkipRun(r) PROVE OwnStubs'
  <2>1. \A p \in Runs : Settled(p)' => OwnsAll(p)'
    BY <1>1, OwnOthers, OwnBegin, OwnAction
  <2> QED
    BY <2>1 DEF OwnStubs
<1>2. CASE UNCHANGED <<stubs, runVars, history>>
  BY <1>2 DEF OwnStubs, OwnsAll, Settled, OwnsStub, HasMarked, InTable, Then, runVars
<1> QED
  BY <1>1, <1>2, StepKinds, ServersKeepTable DEF vars, stubVars

-----------------------------------------------------------------------------
LEMMA NoneMissedInit == Init => NoneMissed
  BY DEF Init, Idle, NoneMissed, Underway

\* A run's own step keeps what was noticed; the one that ends its registration
\* begins with requests that no server has dispatched.
LEMMA NoneMissedRun ==
  ASSUME RunsFormed, NoneMissed, NEW r \in Runs, RunAction(r) \/ BeginRun(r) \/ SkipRun(r)
  PROVE  NoneMissed'
<1>1. /\ req' = req /\ calls' = calls /\ \A p \in Runs \ {r} : run'[p] = run[p]
  BY EveryMove DEF Moved, dispatchVars
<1>2. ASSUME NEW p \in Runs, Underway(p)', NEW q \in Requests \ history'[p].early,
             NEW i \in DOMAIN Then(p), Then(p)[i].do = "stub",
             Accepts(Then(p)[i], req[q].server, req[q].kind)
      PROVE  Noticed(p, i, q)
  <2>1. CASE p # r \/ (RunAction(r) /\ ~Registered(r))
    <3>1. ~history[p].disturbed /\ history'[p].early = history[p].early
      <4>1. CASE p # r
        BY <1>2, <4>1, BeginNotes, ActionNotes DEF Noting, Underway
      <4>2. CASE p = r
        BY <1>2, <2>1, <4>2, ActionNotes, CleanMoves DEF Underway
      <4> QED
        BY <4>1, <4>2
    <3>2. run[p].pc \in {"when", "then", "waiting"}
      <4>1. CASE p # r
        BY <1>1, <1>2, <4>1 DEF Underway
      <4>2. CASE p = r
        BY <1>2, <2>1, <4>2, MarkMoves, RegisterMoves, CleanMoves, VerdictMoves
           DEF Underway, RunAction, WhenItem, PlainItem, Expectation, AwaitStub, Fulfilled, TimesOut
      <4> QED
        BY <4>1, <4>2
    <3> QED
      BY <1>2, <3>1, <3>2 DEF NoneMissed, Underway
  <2>2. CASE p = r /\ (BeginRun(r) \/ SkipRun(r))
    BY <1>2, <2>2, BeginMoves DEF Underway
  <2>3. CASE p = r /\ Registered(r)
    <3>1. history' = [history EXCEPT ![r].early = {x \in Requests : req[x].at \notin {"unsent", "arrived"}}]
      BY <2>3 DEF Registered
    <3>2. "early" \in DOMAIN history[r] /\ r \in DOMAIN history
      BY DEF RunsFormed, Noted
    <3>3. req[q].at \in {"unsent", "arrived"}
      BY <1>2, <2>3, <3>1, <3>2
    <3> QED
      BY <3>3 DEF Noticed
  <2> QED
    BY <2>1, <2>2, <2>3
<1> QED
  BY <1>1, <1>2 DEF NoneMissed, Noticed, Then

\* The request that a server or its client is at, step by step.
LEMMA RequestMoves ==
  ASSUME AllInTurn, NEW q \in Requests, SendRequest(q) \/ ServerStep(q)
  PROVE  \/ req'[q].at = "arrived"
         \/ /\ req'[q].server = req[q].server /\ req'[q].kind = req[q].kind
            /\ \/ req'[q].at = "matching" /\ req'[q].seen = stubs
               \/ ReplyFromStub(q) /\ req'[q].at = "replied"
               \/ req[q].at = "matching" /\ NoStub(q)
               \/ req[q].at = "outputs"
               \/ req'[q] = req[q] /\ calls' = calls
<1>0. /\ req = [p \in Requests |-> req[p]]
      /\ DOMAIN req[q] = {"at", "server", "kind", "seen", "rule", "out", "answer"}
  BY DEF AllInTurn, IsRequest
<1>1. CASE SendRequest(q)
  <2>1. PICK c \in Sends : req' = [req EXCEPT ![q] = [@ EXCEPT !.at = "arrived", !.server = c[1], !.kind = c[2]]]
    BY <1>1 DEF SendRequest
  <2> QED
    BY <1>0, <2>1
<1>2. CASE Dispatch(q)
  BY <1>0, <1>2 DEF Dispatch
<1>3. CASE ReplyFromStub(q)
  BY <1>0, <1>3 DEF ReplyFromStub, Replied
<1>4. CASE MatchRule(q)
  <2>1. PICK i : req' = [req EXCEPT ![q].at = "outputs", ![q].seen = <<>>, ![q].rule = i]
    BY <1>4 DEF MatchRule
  <2> QED
    BY <1>0, <1>4, <2>1 DEF MatchRule
<1>5. CASE PreOutput(q)
  BY <1>0, <1>5 DEF PreOutput
<1>6. CASE ReplyFromRule(q)
  BY <1>0, <1>6 DEF ReplyFromRule, Replied
<1>7. CASE ReplyFromConfiguration(q)
  <2>1. PICK a : req' = Replied(q, a)
    BY <1>7 DEF ReplyFromConfiguration
  <2> QED
    BY <1>0, <1>7, <2>1 DEF ReplyFromConfiguration, Replied
<1>8. ASSUME NEW k \in 1..3, PostOutput(q, k) PROVE UNCHANGED <<req, calls>>
  BY <1>8 DEF PostOutput, stubVars
<1> QED
  BY <1>1, <1>2, <1>3, <1>4, <1>5, <1>6, <1>7, <1>8 DEF ServerStep

LEMMA NoneMissedServer ==
  ASSUME AllInTurn, CallsFormed, OwnStubs, NoneMissed,
         NEW q \in Requests, SendRequest(q) \/ ServerStep(q), UNCHANGED <<runVars, history>>
  PROVE  NoneMissed'
<1>1. run' = run /\ history' = history /\ \A x \in Requests \ {q} : req'[x] = req[x]
  BY ServerMoves DEF runVars
<1>2. ASSUME NEW r \in Runs, Underway(r), NEW x \in Requests \ history[r].early,
             NEW i \in DOMAIN Then(r), Then(r)[i].do = "stub",
             Accepts(Then(r)[i], req'[x].server, req'[x].kind)
      PROVE  Noticed(r, i, x)'
  <2>0. OwnsStub(r, i) /\ InTable(run[r], i)
    BY <1>2 DEF OwnStubs, OwnsAll, Underway, Settled, InTable
  <2>1. \A s \in StubIds : calls[s] \subseteq calls'[s]
    BY ServerCalls
  <2>2. <<r, i>> \in StubIds
    BY ItemsType DEF StubIds
  <2>3. CASE x # q
    <3>1. req'[x] = req[x] /\ Noticed(r, i, x)
      BY <1>1, <1>2, <2>3 DEF NoneMissed
    <3> QED
      BY <2>1, <3>1 DEF Noticed
  <2>4. CASE x = q /\ req'[q].at = "arrived"
    BY <2>4 DEF Noticed
  <2>5. CASE /\ x = q /\ req'[q].server = req[q].server /\ req'[q].kind = req[q].kind
             /\ req'[q].at # "arrived"
    <3>1. Noticed(r, i, q) /\ Accepts(Then(r)[i], req[q].server, req[q].kind)
      BY <1>2, <2>5 DEF NoneMissed
    <3>2. CASE req'[q].at = "matching" /\ req'[q].seen = stubs
      BY <2>0, <2>5, <3>2 DEF Noticed, OwnsStub
    <3>3. CASE ReplyFromStub(q) /\ req'[q].at = "replied"
      <4>1. PICK s \in DOMAIN req[q].seen :
               /\ Accepts(ItemOf(s), req[q].server, req[q].kind)
               /\ calls' = [calls EXCEPT ![s] = @ \cup {q}]
               /\ req[q].at = "matching"
        BY <3>3, StubReplies
      <4>2. s \in StubIds /\ q \in calls'[s]
        BY <4>1 DEF CallsFormed
      <4> QED
        BY <2>5, <3>3, <4>2 DEF Noticed
    <3>4. CASE req[q].at = "matching" /\ NoStub(q)
      <4>1. <<r, i>> \in DOMAIN req[q].seen /\ ItemOf(<<r, i>>) = Then(r)[i]
        BY <3>1, <3>4 DEF Noticed, ItemOf, Then
      <4> QED
        BY <3>1, <3>4, <4>1 DEF NoStub, Candidates
    <3>5. CASE req[q].at = "outputs"
      BY <3>1, <3>5 DEF Noticed
    <3>6. CASE req'[q] = req[q] /\ calls' = calls
      BY <2>5, <3>1, <3>6 DEF Noticed
    <3> QED
      BY <2>5, <3>2, <3>3, <3>4, <3>5, <3>6, RequestMoves
  <2> QED
    BY <2>3, <2>4, <2>5, RequestMoves
<1> QED
  BY <1>1, <1>2 DEF NoneMissed, Underway, Then, Noticed

LEMMA NoneMissedStep ==
  ASSUME AllInTurn, RunsFormed, CallsFormed, OwnStubs, NoneMissed, [Next]_vars
  PROVE  NoneMissed'
<1>1. CASE UNCHANGED vars
  BY <1>1 DEF NoneMissed, Underway, Then, Noticed, vars, stubVars, dispatchVars, runVars
<1> QED
  BY <1>1, StepKinds, NoneMissedRun, NoneMissedServer

-----------------------------------------------------------------------------
\* A step of a run gives a result, or keeps the results and what was noted of them.
LEMMA ResultOrNot ==
  ASSUME RunsFormed, NEW r \in Runs, RunAction(r) \/ BeginRun(r) \/ SkipRun(r)
  PROVE  \/ \E outcome \in Outcomes : /\ Result(r, outcome) /\ run[r].pc \in {"then", "waiting"}
                                      /\ run[r].item \in DOMAIN Then(r)
         \/ CleanUp(r)
         \/ run'[r].results = run[r].results /\ history'[r].answered = history[r].answered
<1>1. CASE BeginRun(r) \/ SkipRun(r)
  <2>1. run[r].results = <<>>
    BY <1>1, BeginMoves DEF RunsFormed, RunOK
  <2> QED
    BY <1>1, <2>1, BeginMoves, BeginNotes
<1>2. CASE MarkItem(r) \/ RegisterStub(r) \/ WhenItem(r) \/ Verdict(r)
  BY <1>2, MarkMoves, MarkNotes, RegisterMoves, WhenMoves, VerdictMoves
     DEF RegisterStub, WhenItem, Verdict
<1>3. CASE Registered(r)
  <2>1. PICK e : history' = [history EXCEPT ![r].early = e]
    BY <1>3 DEF Registered
  <2>2. DOMAIN history[r] = Noted /\ history = [p \in Runs |-> history[p]]
    BY DEF RunsFormed
  <2> QED
    BY <1>3, <2>1, <2>2, RegisteredMoves DEF Noted
<1>4. CASE PlainItem(r)
  BY <1>4, FailMoves DEF PlainItem, Assertion, Outcomes
<1>5. CASE Expectation(r)
  BY <1>5 DEF Expectation, Outcomes
<1>6. CASE AwaitStub(r)
  <2>1. CASE run'[r].pc = "waiting"
    BY <1>6, <2>1, AwaitMoves
  <2>2. CASE run'[r].pc # "waiting"
    <3>1. run'[r].pc = "then"
      BY <1>6, <2>2, LookupMoves
    <3>2. Result(r, "NO_MATCH")
      BY <1>6, <2>2 DEF AwaitStub, RunsFormed, RunOK, RunFields
    <3> QED
      BY <1>6, <3>2 DEF AwaitStub, Outcomes
  <2> QED
    BY <2>1, <2>2
<1>7. CASE Fulfilled(r) \/ TimesOut(r)
  BY <1>7 DEF Fulfilled, TimesOut, Outcomes, RunsFormed, RunOK
<1> QED
  BY <1>1, <1>2, <1>3, <1>4, <1>5, <1>6, <1>7 DEF RunAction

LEMMA NotesInit == Init => NotesFormed
<1>1. Init => \A r \in Runs : history[r].answered = <<>> /\ run[r].results = <<>>
  BY DEF Init, Idle, Unwritten
<1>2. <<>> \in Seq(Nat) /\ Len(<<>>) = 0
  OBVIOUS
<1> QED
  BY <1>1, <1>2 DEF NotesFormed

LEMMA NotesStep ==
  ASSUME RunsFormed, NotesFormed, [Next]_vars
  PROVE  NotesFormed'
<1>1. ASSUME NEW r \in Runs, RunAction(r) \/ BeginRun(r) \/ SkipRun(r) PROVE NotesFormed'
  <2>1. ASSUME NEW p \in Runs \ {r}
        PROVE  run'[p] = run[p] /\ history'[p].answered = history[p].answered
    BY <1>1, <2>1, EveryMove, BeginNotes, ActionNotes DEF Moved, Noting
  <2>2. history'[r].answered \in Seq(Nat) /\ Len(history'[r].answered) = Len(run'[r].results)
    <3>1. ASSUME NEW outcome \in Outcomes, Result(r, outcome), run[r].pc \in {"then", "waiting"}
          PROVE  history'[r].answered \in Seq(Nat) /\ Len(history'[r].answered) = Len(run'[r].results)
      <4> DEFINE N == ForThisItem(r)
      <4>1. N \subseteq Requests
        BY DEF ForThisItem
      <4>2. history'[r].answered = Append(history[r].answered, Cardinality(N))
        BY <3>1, ResultNotes
      <4> HIDE DEF N
      <4>3. Cardinality(N) \in Nat
        BY <4>1, TestRunsAssumption, FS_Subset, FS_CardinalityType
      <4>4. run'[r].results = Append(run[r].results, outcome)
        BY <3>1, ResultMoves
      <4>5. run[r].results \in Seq(Outcomes)
        BY DEF RunsFormed, RunOK
      <4> QED
        BY SMTT(60), <4>2, <4>3, <4>4, <4>5 DEF NotesFormed
    <3>2. CASE CleanUp(r)
      <4>1. history'[r].answered = <<>> /\ run'[r].results = <<>>
        BY <3>2, CleanMoves DEF Unwritten
      <4> QED
        BY <4>1
    <3> QED
      BY <1>1, <3>1, <3>2, ResultOrNot DEF NotesFormed
  <2> QED
    BY <2>1, <2>2 DEF NotesFormed
<1>2. CASE UNCHANGED <<runVars, history>>
  BY <1>2 DEF NotesFormed, runVars
<1> QED
  BY <1>1, <1>2, StepKinds DEF vars

\* A run that is not disturbed does not find a stub expectation unmet except by a
\* timeout.
LEMMA OnlyTimeout ==
  ASSUME RunsFormed, OwnStubs, NEW r \in Runs, RunAction(r), Result(r, "NO_MATCH"),
         ~history[r].disturbed, run[r].pc \in {"then", "waiting"}, run[r].item \in DOMAIN Then(r),
         ThisItem(r).do = "stub", ThisItem(r).on = 0
  PROVE  TimesOut(r)
<1>1. /\ Settled(r) /\ OwnsStub(r, run[r].item) /\ Then(r)[run[r].item].do = "stub"
      /\ run[r].pc = "waiting" => run[r].target = <<r, run[r].item>>
  BY DEF OwnStubs, OwnsAll, Settled, ThisItem
<1>2. /\ stubId[TestOf[r]][run[r].item] = <<r, run[r].item>>
      /\ <<r, run[r].item>> \in DOMAIN stubs /\ <<r, run[r].item>> # NoStubId
  BY <1>1 DEF OwnsStub, HasMarked, InTable, NoStubId
<1>3. run'[r].pc = "then" /\ run'[r].results = Append(run[r].results, "NO_MATCH")
  BY ResultMoves DEF Outcomes
<1>4. run[r].results \in Seq(Outcomes)
  BY DEF RunsFormed, RunOK
<1>5. run'[r].results # run[r].results
  BY <1>3, <1>4
<1>6. ASSUME NEW outcome \in Outcomes, Result(r, outcome) PROVE outcome = "NO_MATCH"
  <2>1. run'[r].results = Append(run[r].results, outcome)
    BY <1>6, ResultMoves
  <2> QED
    BY <1>3, <1>4, <2>1
<1>7. CASE RunAction(r) /\ ~TimesOut(r)
  <2>1. ~(MarkItem(r) \/ RegisterStub(r) \/ Registered(r) \/ WhenItem(r) \/ Verdict(r) \/ CleanUp(r))
    BY <1>3, VerdictMoves DEF MarkItem, RegisterStub, Registered, WhenItem, CleanUp
  <2>2. ~PlainItem(r)
    BY DEF PlainItem
  <2>3. ~AwaitStub(r)
    <3>1. ASSUME AwaitStub(r) PROVE FALSE
      <4>1. run' = [run EXCEPT ![r].pc = "waiting", ![r].target = <<r, run[r].item>>]
        BY <1>2, <3>1 DEF AwaitStub, Has
      <4> QED
        BY <1>3, <4>1 DEF RunsFormed, RunOK, RunFields
    <3> QED
      BY <3>1
  <2>4. ~Fulfilled(r)
    <3>1. ASSUME Fulfilled(r) PROVE FALSE
      <4>1. Result(r, "MATCHED")
        BY <1>1, <1>2, <3>1 DEF Fulfilled, Has
      <4> QED
        BY <1>6, <4>1 DEF Outcomes
    <3> QED
      BY <3>1
  <2>5. ~Expectation(r)
    <3>1. ASSUME Expectation(r) PROVE FALSE
      BY <3>1 DEF Expectation, Skipped, Refers
    <3> QED
      BY <3>1
  <2> QED
    BY <1>7, <2>1, <2>2, <2>3, <2>4, <2>5 DEF RunAction
<1> QED
  BY <1>7

\* When it times out, the requests that were there for the item are among those
\* that its stub has recorded, and these are too few.
LEMMA TimeoutCounts ==
  ASSUME RunsFormed, CallsFormed, OwnStubs, NoneMissed, NEW r \in Runs, TimesOut(r), ~history[r].disturbed
  PROVE  Cardinality(ForThisItem(r)) < CallsFor(ThisItem(r).times)
<1> DEFINE i == run[r].item
           N == ForThisItem(r)
           C == calls[<<r, i>>]
<1>1. run[r].pc = "waiting" /\ i \in DOMAIN Then(r) /\ Then(r)[i].do = "stub" /\ ThisItem(r) = Then(r)[i]
  BY DEF TimesOut, RunsFormed, RunOK, ThisItem
<1>2. run[r].target = <<r, i>> /\ ItemOf(<<r, i>>) = Then(r)[i]
  BY <1>1 DEF OwnStubs, OwnsAll, Settled, ItemOf, Then
<1>3. N \subseteq C
  <2> SUFFICES ASSUME NEW q \in N PROVE q \in C
    OBVIOUS
  <2>1. /\ q \in Requests \ history[r].early /\ req[q].at = "replied"
        /\ Accepts(Then(r)[i], req[q].server, req[q].kind)
        /\ \A s \in StubIds \ {<<r, i>>} : q \notin calls[s]
    BY <1>1 DEF ForThisItem
  <2>2. \E s \in StubIds : q \in calls[s]
    BY <1>1, <2>1 DEF NoneMissed, Underway, Noticed
  <2> QED
    BY <2>1, <2>2
<1>4. <<r, i>> \in StubIds
  BY <1>1, ItemsType DEF StubIds
<1>5. C \subseteq Requests
  BY <1>4 DEF CallsFormed, AnsweredFor
<1>6. C = {} \/ ~(Cardinality(C) >= Then(r)[i].times)
  BY <1>2 DEF TimesOut, IsFulfilled
<1>7. Then(r)[i].times \in Nat
  BY <1>1, ItemsType
<1> HIDE DEF N, C
<1>8. IsFiniteSet(C) /\ IsFiniteSet(N)
  BY <1>3, <1>5, TestRunsAssumption, FS_Subset
<1>9. Cardinality(N) \in Nat /\ Cardinality(C) \in Nat /\ Cardinality(N) <= Cardinality(C)
  BY <1>3, <1>8, FS_Subset, FS_CardinalityType
<1>10. C = {} => Cardinality(C) = 0
  BY FS_EmptySet
<1>11. Cardinality(N) < CallsFor(Then(r)[i].times)
  BY <1>6, <1>7, <1>9, <1>10 DEF CallsFor
<1> QED
  BY <1>1, <1>11 DEF N

LEMMA CallsCountStep ==
  ASSUME RunsFormed, CallsFormed, OwnStubs, NoneMissed, NotesFormed, CallsCount, [Next]_vars
  PROVE  CallsCount'
<1>1. ASSUME NEW r \in Runs, RunAction(r) \/ BeginRun(r) \/ SkipRun(r) PROVE CallsCount'
  <2> SUFFICES ASSUME NEW p \in Runs, NEW i \in DOMAIN run'[p].results, ~history'[p].disturbed,
                      Then(p)[i].do = "stub", Then(p)[i].on = 0, run'[p].results[i] = "NO_MATCH"
               PROVE  history'[p].answered[i] < CallsFor(Then(p)[i].times)
    BY DEF CallsCount, Then
  <2>1. CASE p # r
    <3>1. run'[p] = run[p] /\ history'[p].answered = history[p].answered /\ ~history[p].disturbed
      BY <1>1, <2>1, EveryMove, BeginNotes, ActionNotes DEF Moved, Noting
    <3> QED
      BY <3>1 DEF CallsCount
  <2>2. CASE p = r /\ (BeginRun(r) \/ SkipRun(r) \/ CleanUp(r))
    <3>1. run'[p].results = <<>>
      BY <2>2, BeginMoves, CleanMoves
    <3> QED
      BY <3>1
  <2>3. CASE p = r /\ RunAction(r) /\ ~CleanUp(r)
    <3>0. ~history[r].disturbed
      BY <2>3, ActionNotes
    <3>1. CASE run'[r].results = run[r].results /\ history'[r].answered = history[r].answered
      BY <2>3, <3>0, <3>1 DEF CallsCount
    <3>2. ASSUME NEW outcome \in Outcomes, Result(r, outcome), run[r].pc \in {"then", "waiting"},
                 run[r].item \in DOMAIN Then(r)
          PROVE  history'[r].answered[i] < CallsFor(Then(r)[i].times)
      <4> DEFINE n == Cardinality(ForThisItem(r))
      <4>1. /\ run'[r].results = Append(run[r].results, outcome)
            /\ history'[r].answered = Append(history[r].answered, n)
        BY <3>2, ResultMoves, ResultNotes
      <4>2. /\ run[r].results \in Seq(Outcomes) /\ Len(run[r].results) = run[r].item - 1
            /\ run[r].item \in Nat \ {0}
        BY <3>2 DEF RunsFormed, RunOK
      <4>3. Len(history[r].answered) = Len(run[r].results)
            /\ history[r].answered \in Seq(Nat)
        BY DEF NotesFormed
      <4>4. CASE i = run[r].item
        <5>1. run'[r].results[i] = outcome /\ ThisItem(r) = Then(r)[i]
          BY <4>1, <4>2, <4>4 DEF ThisItem
        <5>2. TimesOut(r)
          BY <2>3, <3>0, <3>2, <5>1, OnlyTimeout
        <5>3. n < CallsFor(ThisItem(r).times)
          BY <3>0, <5>2, TimeoutCounts
        <5> HIDE DEF n
        <5>4. history'[r].answered[i] = n
          BY SMTT(60), <4>1, <4>2, <4>3, <4>4
        <5> QED
          BY <5>1, <5>3, <5>4
      <4> HIDE DEF n
      <4>5. CASE i # run[r].item
        <5>1. i \in DOMAIN run[r].results /\ run'[r].results[i] = run[r].results[i]
              /\ history'[r].answered[i] = history[r].answered[i]
          BY SMTT(60), <2>3, <4>1, <4>2, <4>3, <4>5
        <5> QED
          BY <2>3, <3>0, <5>1 DEF CallsCount
      <4> QED
        BY <4>4, <4>5
    <3> QED
      BY <2>3, <3>1, <3>2, ResultOrNot
  <2> QED
    BY <1>1, <2>1, <2>2, <2>3
<1>2. CASE UNCHANGED <<runVars, history>>
  BY <1>2 DEF CallsCount, Then, runVars
<1> QED
  BY <1>1, <1>2, StepKinds DEF vars

\* No call is lost.  A stub expectation is NO_MATCH only if another run of the test
\* has written its identities or cleaned up meanwhile, or if too few requests were
\* there for it: dispatched after the run had registered its stubs, answered before
\* the wait was over, and not taken by another stub that accepts them as well.  So
\* it is for any tests, rules and servers, also where stubs accept the same requests.
THEOREM CallsAreCounted == Spec => []CallsCount
<1> DEFINE IInv == /\ AllInTurn /\ RunsFormed /\ StubsFormed /\ CallsFormed /\ IdentitiesFormed
                   /\ IndexOfStubs /\ OwnStubs /\ NoneMissed /\ NotesFormed /\ CallsCount
<1>1. Init => IInv
  <2>1. Init => CallsCount
    BY DEF Init, Idle, CallsCount
  <2> QED
    BY <2>1, TurnInit, RunsFormedInit, StubsFormedInit, CallsFormedInit, IdentitiesFormedInit,
       IndexInit, OwnInit, NoneMissedInit, NotesInit
<1>2. IInv /\ [Next]_vars => IInv'
  BY TurnStep, RunsFormedStep, StubsFormedStep, CallsFormedStep, IdentitiesFormedStep,
     IndexStep, OwnStep, NoneMissedStep, NotesStep, CallsCountStep
<1> QED
  BY <1>1, <1>2, PTL DEF Spec
=============================================================================
