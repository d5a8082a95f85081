---------------------------- MODULE MockDispatch ----------------------------
(***************************************************************************)
(* http/mock_dispatch.py and http/mock_server.py: inbound requests to the  *)
(* mock servers.  Each server has a thread with an event loop of its own;  *)
(* its handlers give way only where an output of a rule waits.             *)
(*                                                                         *)
(* A request is answered by the first layer that has an answer: stub, rule *)
(* (of type http, by priority), endpoint default, server default, or 404.  *)
(* The outputs of a rule before its http_response come before the reply,   *)
(* the others become tasks that run after it.                              *)
(***************************************************************************)
EXTENDS HttpStubs

CONSTANTS HttpRules,  \* sequence of [server, skip, accepts, outputs], by priority;
                      \* server is AnyServer when the rule names none
          AnyServer,
          Endpoints,  \* [configured servers -> the kinds with an endpoint default]
          Sends       \* the <<server, kind>> that the system under test calls

ASSUME DispatchAssumption == DOMAIN Endpoints \subseteq Servers /\ AnyServer \notin Servers
                      /\ Sends \subseteq Servers \X Kinds

VARIABLES req,    \* per request: place, server, kind, copy of the stubs, rule, next output, answer
          tasks,  \* post-response tasks <<request, output>>
          fired   \* per request: the outputs that have been tried, in order
dispatchVars == <<req, tasks, fired>>

NotSent == [at |-> "unsent", server |-> AnyServer, kind |-> AnyServer, seen |-> <<>>,
            rule |-> 0, out |-> 1, answer |-> "none"]
DispatchInit ==
    /\ req = [q \in Requests |-> NotSent] /\ tasks = {}
    /\ fired = [q \in Requests |-> <<>>]

\* The handlers of a server take turns on its loop.
ServerFree(server) == \A q \in Requests : ~(req[q].server = server /\ req[q].at = "matching")
Replied(q, answer) == [req EXCEPT ![q].at = "replied", ![q].answer = answer, ![q].seen = <<>>]

-----------------------------------------------------------------------------
\* The system under test calls a mock server.
SendRequest(q) ==
    /\ req[q].at = "unsent" /\ \A p \in Requests : p < q => req[p].at # "unsent"
    /\ \E s \in Sends : req' = [req EXCEPT ![q] = [@ EXCEPT !.at = "arrived", !.server = s[1], !.kind = s[2]]]
    /\ UNCHANGED <<stubVars, tasks, fired>>

\* _handle_request up to the copy of the stubs.
Dispatch(q) ==
    /\ req[q].at = "arrived" /\ ServerFree(req[q].server)
    /\ req' = [req EXCEPT ![q].at = "matching", ![q].seen = stubs]
    /\ UNCHANGED <<stubVars, tasks, fired>>

NoStub(q) == Candidates(req[q].seen, req[q].server, req[q].kind) = {}
ReplyFromStub(q) ==
    /\ req[q].at = "matching" /\ ~NoStub(q)
    /\ RecordCall(FirstStub(req[q].seen, req[q].server, req[q].kind), q)
    /\ req' = Replied(q, "stub")
    /\ UNCHANGED <<tasks, fired>>

\* Path, method and all conditions; one that cannot be evaluated does not hold.
RuleAccepts(rule, q) == req[q].kind \in rule.accepts

\* A rule without connection_ref applies when there is one server only.
RulesFor(q) == {i \in DOMAIN HttpRules :
    /\ ~HttpRules[i].skip
    /\ \/ HttpRules[i].server = req[q].server
       \/ HttpRules[i].server = AnyServer /\ Cardinality(DOMAIN Endpoints) = 1
    /\ RuleAccepts(HttpRules[i], q)}

MatchRule(q) ==
    /\ req[q].at = "matching" /\ NoStub(q) /\ RulesFor(q) # {}
    /\ req' = [req EXCEPT ![q].at = "outputs", ![q].seen = <<>>,
                          ![q].rule = CHOOSE i \in RulesFor(q) : \A j \in RulesFor(q) : i <= j]
    /\ UNCHANGED <<stubVars, tasks, fired>>

Outputs(q) == HttpRules[req[q].rule].outputs
IsReply(q, k) == k > Len(Outputs(q)) \/ Outputs(q)[k] = "http_response"

\* One output is tried: an exception is logged, and the next one follows.
Execute(q, k) == fired' = [fired EXCEPT ![q] = Append(@, k)]

PreOutput(q) ==
    /\ req[q].at = "outputs" /\ ~IsReply(q, req[q].out) /\ ServerFree(req[q].server)
    /\ Execute(q, req[q].out)
    /\ req' = [req EXCEPT ![q].out = @ + 1]
    /\ UNCHANGED <<stubVars, tasks>>

\* Mutant of ReplyFromRule: all outputs become tasks.
ReplyFromRuleAgain(q) ==
    /\ req[q].at = "outputs" /\ IsReply(q, req[q].out) /\ ServerFree(req[q].server)
    /\ req' = Replied(q, "rule")
    /\ tasks' = tasks \cup {<<q, k>> : k \in DOMAIN Outputs(q)}
    /\ UNCHANGED <<stubVars, fired>>

\* Without an http_response the reply is 200 with no body, and nothing is left.
ReplyFromRule(q) ==
    /\ req[q].at = "outputs" /\ IsReply(q, req[q].out) /\ ServerFree(req[q].server)
    /\ req' = Replied(q, "rule")
    /\ tasks' = tasks \cup {<<q, k>> : k \in (req[q].out + 1)..Len(Outputs(q))}
    /\ UNCHANGED <<stubVars, fired>>

\* The tasks start in order; their delays may end in another.
PostOutput(q, k) ==
    /\ <<q, k>> \in tasks /\ ServerFree(req[q].server)
    /\ Execute(q, k)
    /\ tasks' = tasks \ {<<q, k>>}
    /\ UNCHANGED <<stubVars, req>>

HasEndpoint(q) == req[q].kind \in Endpoints[req[q].server]

ReplyFromConfiguration(q) ==
    /\ req[q].at = "matching" /\ NoStub(q) /\ RulesFor(q) = {}
    /\ req' = Replied(q,
          IF req[q].server \notin DOMAIN Endpoints THEN "no_match"
          ELSE IF HasEndpoint(q) THEN "endpoint_default"
          ELSE "server_default")
    /\ UNCHANGED <<stubVars, tasks, fired>>

ServerStep(q) ==
    \/ Dispatch(q) \/ ReplyFromStub(q) \/ MatchRule(q) \/ PreOutput(q) \/ ReplyFromRule(q)
    \/ ReplyFromConfiguration(q) \/ \E k \in 1..3 : PostOutput(q, k)
=============================================================================
