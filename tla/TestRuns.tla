------------------------------ MODULE TestRuns ------------------------------
(***************************************************************************)
(* test/suite.py: run_test from the registration of its stubs to their     *)
(* clean-up, with the verdict of the run.  Concurrent runs of one test     *)
(* share its definition: discover_tests keeps the parsed tests, and the    *)
(* identity of a stub is written into the definition (item._stub_id).      *)
(*                                                                         *)
(* An item of a when phase is [do, fault], an item of a then phase         *)
(* [do, on, server, accepts, times].  `do` is "send", "script", "db",      *)
(* "stub", "http" or "message", `on` the injection that an item refers to  *)
(* (0: none) and `fault` one of "none", "checked", "unchecked".  What a    *)
(* message expectation collects is the subject of TestExecutor; here any   *)
(* outcome is possible.                                                    *)
(***************************************************************************)
EXTENDS MockDispatch

CONSTANTS Whens,   \* [Tests -> sequence of items]
          OnLoop,  \* runs that are coroutines of the main event loop; the
                   \* others have a thread of their own (load tests)
          MaxRuns  \* bound on the runs that begin

ASSUME TestRunsAssumption ==
    /\ TestOf \in [Runs -> Tests] /\ OnLoop \subseteq Runs /\ MaxRuns \in Nat
    /\ IsFiniteSet(Requests)
    /\ \A t \in Tests : \E n \in 0..3 :   \* bound: three items
          /\ DOMAIN Thens[t] = 1..n
          /\ \A i \in 1..n : Thens[t][i].times \in Nat

VARIABLES run,     \* per run: place, item, injections sent and faulted, results, status
          stubId,  \* _stub_id per test and item: a stub, or NoStubId
          history  \* auxiliary, per run: see the properties
runVars == <<run, stubId>>
vars == <<stubVars, dispatchVars, runVars, history>>

NoStubId == <<>>
Idle == [pc |-> "idle", item |-> 1, target |-> NoStubId, sent |-> {}, faulted |-> {},
         results |-> <<>>, error |-> FALSE, status |-> "PENDING"]
Unwritten == [disturbed |-> FALSE, before |-> {}, early |-> {}, answered |-> <<>>]

Init ==
    /\ HttpStubsInit /\ DispatchInit
    /\ run = [r \in Runs |-> Idle]
    /\ stubId = [t \in Tests |-> [i \in DOMAIN Thens[t] |-> NoStubId]]
    /\ history = [r \in Runs |-> Unwritten]

When(r) == Whens[TestOf[r]]
Then(r) == Thens[TestOf[r]]
Active  == {r \in Runs : run[r].pc \notin {"idle", "ended"}}

\* Registration, a wait for a stub and clean-up keep the main event loop.
Holding(r) == run[r].pc \in {"register", "marked", "waiting", "clean"}
MayStep(r) == r \in OnLoop => \A s \in OnLoop \ {r} : ~Holding(s)

-----------------------------------------------------------------------------
\* Auxiliary: the requests that had been recorded when r began, and the runs of
\* the same test that r disturbs when it writes an identity or cleans up.
NoteBegin(r) == history' = [history EXCEPT ![r].before = UNION {calls[c] : c \in StubIds}]
Disturbing(r) ==
    [s \in Runs |-> IF s \in Active \ {r} /\ TestOf[s] = TestOf[r]
                    THEN [history[s] EXCEPT !.disturbed = TRUE] ELSE history[s]]

MayBegin(r) == run[r].pc = "idle" /\ Cardinality({s \in Runs : run[s].pc # "idle"}) < MaxRuns

BeginRun(r) ==
    /\ MayBegin(r)
    /\ run' = [run EXCEPT ![r].pc = "register"]
    /\ NoteBegin(r)
    /\ UNCHANGED <<stubVars, dispatchVars, stubId>>

\* test.skip without force_run; the finally clause runs all the same.
SkipRun(r) ==
    /\ MayBegin(r)
    /\ run' = [run EXCEPT ![r].pc = "clean", ![r].status = "SKIPPED"]
    /\ NoteBegin(r)
    /\ UNCHANGED <<stubVars, dispatchVars, stubId>>

\* _register_http_stubs: the identity goes into the definition, then the stub
\* into the cache.  Other items are passed over.
MarkItem(r) ==
    /\ run[r].pc = "register" /\ run[r].item \in DOMAIN Then(r)
    /\ IF Then(r)[run[r].item].do = "stub"
       THEN /\ stubId' = [stubId EXCEPT ![TestOf[r]][run[r].item] = <<r, run[r].item>>]
            /\ run' = [run EXCEPT ![r].pc = "marked"]
            /\ history' = Disturbing(r)
       ELSE /\ run' = [run EXCEPT ![r].item = @ + 1]
            /\ UNCHANGED <<stubId, history>>
    /\ UNCHANGED <<stubVars, dispatchVars>>

RegisterStub(r) ==
    /\ run[r].pc = "marked"
    /\ Register(r, <<r, run[r].item>>)
    /\ run' = [run EXCEPT ![r].pc = "register", ![r].item = @ + 1]
    /\ UNCHANGED <<dispatchVars, stubId, history>>

\* All stubs are registered: the when phase begins.
Registered(r) ==
    /\ run[r].pc = "register" /\ run[r].item \notin DOMAIN Then(r)
    /\ run' = [run EXCEPT ![r].pc = IF When(r) = <<>> THEN "then" ELSE "when", ![r].item = 1]
    /\ history' = [history EXCEPT ![r].early = {q \in Requests : req[q].at \notin {"unsent", "arrived"}}]
    /\ UNCHANGED <<stubVars, dispatchVars, stubId>>

-----------------------------------------------------------------------------
\* Mutant of Fail: the early return skips the finally clause.
FailAtOnce(r) == run' = [run EXCEPT ![r].pc = "ended", ![r].error = TRUE, ![r].status = "FAILED"]

\* script_error: the run has FAILED and goes to its finally clause.
Fail(r) == run' = [run EXCEPT ![r].pc = "clean", ![r].error = TRUE, ![r].status = "FAILED"]

\* One item of the when phase.  A message that a fault drops is passed over
\* before it is noted as sent or as faulted.
WhenItem(r) ==
    /\ run[r].pc = "when"
    /\ LET i == run[r].item
           fault == When(r)[i].fault
           Next1 == IF i < Len(When(r)) THEN [run EXCEPT ![r].item = @ + 1]
                    ELSE [run EXCEPT ![r].item = 1, ![r].pc = "then"]
           Sent == [Next1 EXCEPT ![r].sent = @ \cup {i},
                                 ![r].faulted = IF fault = "unchecked" THEN @ \cup {i} ELSE @]
       IN  \/ When(r)[i].do = "send" /\ run' = Sent
           \/ (When(r)[i].do # "send" \/ fault # "none") /\ run' = Next1
           \/ Fail(r)
    /\ UNCHANGED <<stubVars, dispatchVars, stubId, history>>

-----------------------------------------------------------------------------
ThisItem(r) == Then(r)[run[r].item]

\* Auxiliary: the requests dispatched since r registered its stubs and answered,
\* that its item accepts and no other stub has got.
ForThisItem(r) ==
    {q \in Requests \ history[r].early :
        /\ req[q].at = "replied" /\ Accepts(ThisItem(r), req[q].server, req[q].kind)
        /\ \A s \in StubIds \ {<<r, run[r].item>>} : q \notin calls[s]}
Result(r, outcome) ==
    /\ run' = [run EXCEPT ![r].pc = "then", ![r].item = @ + 1, ![r].target = NoStubId,
                          ![r].results = Append(@, outcome)]
    /\ history' = [history EXCEPT ![r].answered = Append(@, Cardinality(ForThisItem(r)))]

\* _evaluate_db_assertion: on rows and columns, or nothing is asserted.
Assertion == {"n/a", "MATCHED", "NO_MATCH"}

\* A script or a database action: no result, or the assertion's; it may raise.
PlainItem(r) ==
    /\ run[r].pc = "then" /\ run[r].item \in DOMAIN Then(r)
    /\ ThisItem(r).do \in {"script", "db"}
    /\ \/ \E outcome \in IF ThisItem(r).do = "db" THEN Assertion ELSE {"n/a"} : Result(r, outcome)
       \/ Fail(r) /\ UNCHANGED history
    /\ UNCHANGED <<stubVars, dispatchVars, stubId>>

Refers(r) == ThisItem(r).on # 0
Skipped(r) == Refers(r) /\ ThisItem(r).on \in run[r].faulted
Unknown(r) == Refers(r) /\ ThisItem(r).on \notin run[r].sent

\* An expectation on messages or on the reply of an injection of type http.
Expectation(r) ==
    /\ run[r].pc = "then" /\ run[r].item \in DOMAIN Then(r)
    /\ ThisItem(r).do \in {"message", "http", "stub"}
    /\ \/ Skipped(r) /\ Result(r, "SKIPPED_DUE_TO_FAULT")
       \/ ~Skipped(r) /\ Refers(r) /\ Result(r, "NO_MATCH")   \* correlation not resolved
       \/ /\ ~Skipped(r) /\ ~Unknown(r) /\ ThisItem(r).do # "stub"
          /\ \E outcome \in {"MATCHED", "NO_MATCH"}
                            \cup (IF ThisItem(r).do = "message" THEN {"TIMEOUT"} ELSE {}) :
                Result(r, outcome)
    /\ UNCHANGED <<stubVars, dispatchVars, stubId>>

\* An expectation on a stub: the identity is read from the definition and looked up.
AwaitStub(r) ==
    /\ run[r].pc = "then" /\ run[r].item \in DOMAIN Then(r)
    /\ ThisItem(r).do = "stub" /\ ~Skipped(r) /\ ~Unknown(r)
    /\ LET s == stubId[TestOf[r]][run[r].item]
       IN  IF s # NoStubId /\ Has(s)
           THEN /\ run' = [run EXCEPT ![r].pc = "waiting", ![r].target = s]
                /\ UNCHANGED history
           ELSE Result(r, "NO_MATCH")
    /\ UNCHANGED <<stubVars, dispatchVars, stubId>>

\* The calls are counted on what the cache has under that identity by then.
Fulfilled(r) ==
    /\ run[r].pc = "waiting" /\ IsFulfilled(run[r].target)
    /\ Result(r, IF Has(run[r].target) THEN "MATCHED" ELSE "NO_MATCH")
    /\ UNCHANGED <<stubVars, dispatchVars, stubId>>

\* Mutant of TimesOut: Event.wait without a timeout.
TimesOutNever(r) == FALSE /\ UNCHANGED vars

\* wait_ms have passed.
TimesOut(r) ==
    /\ run[r].pc = "waiting" /\ ~IsFulfilled(run[r].target)
    /\ Result(r, "NO_MATCH")
    /\ UNCHANGED <<stubVars, dispatchVars, stubId>>

\* PASSED when each expectation is MATCHED, and also when there is none.
Verdict(r) ==
    /\ run[r].pc = "then" /\ run[r].item \notin DOMAIN Then(r)
    /\ run' = [run EXCEPT ![r].pc = "clean", ![r].status =
                  IF ToSet(run[r].results) \subseteq {"MATCHED", "n/a"} THEN "PASSED" ELSE "FAILED"]
    /\ UNCHANGED <<stubVars, dispatchVars, stubId, history>>

\* The finally clause, and the result is returned; what led to it is dropped here.
CleanUp(r) ==
    /\ run[r].pc = "clean"
    /\ CleanupTest(r)
    /\ run' = [run EXCEPT ![r] = [Idle EXCEPT !.pc = "ended", !.status = run[r].status]]
    /\ history' = [Disturbing(r) EXCEPT ![r] = Unwritten]
    /\ UNCHANGED <<dispatchVars, stubId>>

RunAction(r) ==
    \/ MarkItem(r) \/ RegisterStub(r) \/ Registered(r) \/ WhenItem(r)
    \/ PlainItem(r) \/ Expectation(r) \/ AwaitStub(r) \/ Fulfilled(r) \/ TimesOut(r)
    \/ Verdict(r) \/ CleanUp(r)
RunStep(r) == MayStep(r) /\ RunAction(r)

Next ==
    \/ \E r \in Runs : RunStep(r) \/ (MayStep(r) /\ (BeginRun(r) \/ SkipRun(r)))
    \/ \E q \in Requests : (SendRequest(q) \/ ServerStep(q)) /\ UNCHANGED <<runVars, history>>

Spec == Init /\ [][Next]_vars

\* The threads of the servers and of the runs go on; nobody has to send a
\* request or to begin a run.
FairSpec ==
    /\ Spec
    /\ WF_vars(\E r \in Runs : RunStep(r))
    /\ WF_vars((\E q \in Requests : ServerStep(q)) /\ UNCHANGED <<runVars, history>>)

-----------------------------------------------------------------------------
\* When no run of a test is under way the cache holds none of its stubs, whatever
\* way its runs ended and however they overlapped.
NothingLeftBehind ==
    \A s \in DOMAIN stubs : \E r \in Active : TestOf[r] = TestOf[s[1]]

\* The calls that an expectation with these `times` waits for.
CallsFor(times) == IF times = 0 THEN 1 ELSE times

\* A stub expectation is MATCHED only if as many requests as it expects, but at
\* least one, of the kind it accepts, were answered by a stub after the run began,
\* even when a concurrent run of the test has replaced the identity of the stub.
MatchedWasCalled ==
    \A r \in Runs : \A i \in DOMAIN run[r].results :
        Then(r)[i].do = "stub" /\ run[r].results[i] = "MATCHED" =>
            CallsFor(Then(r)[i].times) <= Cardinality(
                {q \in Requests \ history[r].before :
                    req[q].answer = "stub" /\ Accepts(Then(r)[i], req[q].server, req[q].kind)})

\* No call is lost.  A stub expectation is NO_MATCH only if another run of the test
\* has written its identities or cleaned up meanwhile, or if too few requests were
\* there for it: dispatched after the run had registered its stubs, answered before
\* the wait was over, and not taken by another stub that accepts them as well.  With
\* times = 0 "too few" is none: a call that was not to come is waited for.
CallsCount ==
    \A r \in Runs : \A i \in DOMAIN run[r].results :
        Then(r)[i].do = "stub" /\ Then(r)[i].on = 0 /\ run[r].results[i] = "NO_MATCH" =>
            history[r].disturbed \/ history[r].answered[i] < CallsFor(Then(r)[i].times)

\* An output of a rule is tried at most once; those before the reply come in
\* their order, and those after it not before it.
OutputsOnce ==
    \A q \in Requests :
        /\ IsInjective(fired[q])
        /\ \A a, b \in DOMAIN fired[q] :
              a < b /\ fired[q][b] < req[q].out => fired[q][a] < fired[q][b]
        /\ (\E a \in DOMAIN fired[q] : fired[q][a] > req[q].out) => req[q].at = "replied"

\* Every run that begins ends, every request to a server is answered and every
\* post-response task runs: in the end nothing is under way.
EverythingEnds ==
    <>[](Active = {} /\ tasks = {} /\ \A q \in Requests : req[q].at \in {"unsent", "replied"})

-----------------------------------------------------------------------------
\* "test expectations are automatically skipped for faulted messages so they don't
\* cause false failures" (docs/TEST_SUITE.md:243): a run that fails had an error or
\* an expectation that was checked and not met.
SkippedCauseNoFailure ==
    \A r \in Runs : run[r].pc = "clean" /\ run[r].status = "FAILED" =>
        run[r].error \/ \E i \in DOMAIN run[r].results : run[r].results[i] \in {"NO_MATCH", "TIMEOUT"}
=============================================================================
