---------------------------- MODULE TestContract ----------------------------
(***************************************************************************)
(* What the verdict of a test means, whatever listeners and caches lie     *)
(* between: messages are appended to topics; a test that has begun decides *)
(* its expectations in order, each once and for ever.                      *)
(*                                                                         *)
(*   MATCHED  by messages of the topic that satisfy the conditions and     *)
(*            were sent after the test began, give or take Margin;         *)
(*   TIMEOUT  only when Wait has passed since the test began.              *)
(***************************************************************************)
EXTENDS Naturals, Sequences

CONSTANTS Tests, Expectations, Wait, Margin,
          Horizon   \* bound: where the clock of the implementing model stops

VARIABLES now,      \* the clock
          sent,     \* the messages sent so far
          begun,    \* per test: when it began
          state,    \* per test: "idle", "running" or "done"
          verdict   \* per test: what each decided expectation found
vars == <<now, sent, begun, state, verdict>>

Init == /\ now \in Nat
        /\ sent = {}
        /\ begun = [t \in Tests |-> 0]
        /\ state = [t \in Tests |-> "idle"]
        /\ verdict = [t \in Tests |-> <<>>]

Send ==
    /\ \E m \in sent' : m.timestamp = now /\ sent' = sent \cup {m}
    /\ UNCHANGED <<now, begun, state, verdict>>

\* A test begins.
Begin(t) ==
    /\ state[t] = "idle"
    /\ begun' = [begun EXCEPT ![t] = now]
    /\ state' = [state EXCEPT ![t] = "running"]
    /\ UNCHANGED <<now, sent, verdict>>

\* The messages that satisfy expectation e of a test.
Satisfying(t, e) ==
    {m \in sent : /\ m.topic = e.dest /\ m.payload \in e.wanted
                  /\ m.timestamp + Margin >= begun[t]}

\* The next expectation is decided.
Decide(t) ==
    /\ state[t] = "running" /\ Len(verdict[t]) < Len(Expectations[t])
    /\ \E S \in SUBSET Satisfying(t, Expectations[t][Len(verdict[t]) + 1]) :
          /\ S = {} => now >= begun[t] + Wait \/ now = Horizon
          /\ verdict' = [verdict EXCEPT ![t] = Append(@, S)]
    /\ state' = [state EXCEPT ![t] =
                   IF Len(verdict[t]) + 1 = Len(Expectations[t]) THEN "done" ELSE @]
    /\ UNCHANGED <<now, sent, begun>>

\* A test whose injections fail ends without verdicts.
Abort(t) ==
    /\ state[t] = "running" /\ verdict[t] = <<>>
    /\ state' = [state EXCEPT ![t] = "done"]
    /\ UNCHANGED <<now, sent, begun, verdict>>

Time == now' = now + 1 /\ UNCHANGED <<sent, begun, state, verdict>>

Next == Send \/ Time \/ \E t \in Tests : Begin(t) \/ Decide(t) \/ Abort(t)
Spec == Init /\ [][Next]_vars
=============================================================================
