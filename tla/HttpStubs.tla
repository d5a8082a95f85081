------------------------------ MODULE HttpStubs ------------------------------
(***************************************************************************)
(* http/stub_cache.py: the stubs that running tests have registered.  The  *)
(* cache's lock makes register, cleanup_test and the copy of the table in  *)
(* match atomic.  match then works on its copy, and a stub that is gone    *)
(* from the table still records calls.                                     *)
(*                                                                         *)
(* A stub is <<r, i>>, made by run r for item i of its then phase (the     *)
(* code draws a fresh uuid).  Path, method and conditions of a stub are    *)
(* the set of kinds of request that it accepts.                            *)
(***************************************************************************)
EXTENDS Integers, Sequences, FiniteSets, SequencesExt

CONSTANTS Tests, Runs,
          TestOf,    \* [Runs -> Tests]
          Thens,     \* [Tests -> sequence of items, see TestRuns]
          Requests,  \* inbound requests, numbered as they are sent
          Servers, Kinds

VARIABLES stubs,   \* _stubs: per stub, its place in the order of insertion
          byTest,  \* _by_test: per test, its stubs
          calls    \* per stub: the requests it has recorded
stubVars == <<stubs, byTest, calls>>

StubIds == {<<r, i>> : r \in Runs, i \in 1..3}
ItemOf(s) == Thens[TestOf[s[1]]][s[2]]

HttpStubsInit ==
    /\ stubs = [s \in {} |-> 0] /\ byTest = [t \in Tests |-> {}]
    /\ calls = [s \in StubIds |-> {}]

Accepts(item, server, kind) == item.server = server /\ kind \in item.accepts

\* register(test_id, stub), under the lock: the place is the one after all others.
Register(r, s) ==
    /\ \E n \in 1..(Cardinality(StubIds) + 1) :
          /\ \A u \in DOMAIN stubs : stubs[u] < n
          /\ n = 1 \/ \E u \in DOMAIN stubs : stubs[u] = n - 1
          /\ stubs' = [u \in DOMAIN stubs \cup {s} |-> IF u = s THEN n ELSE stubs[u]]
    /\ byTest' = [byTest EXCEPT ![TestOf[r]] = @ \cup {s}]
    /\ UNCHANGED calls

\* match, on the copy `seen` of the table: the stubs that accept the request, of
\* which the one registered first is taken.  A condition that cannot be
\* evaluated does not match.
Candidates(seen, server, kind) == {s \in DOMAIN seen : Accepts(ItemOf(s), server, kind)}
FirstStub(seen, server, kind) ==
    CHOOSE s \in Candidates(seen, server, kind) :
        \A u \in Candidates(seen, server, kind) : seen[s] <= seen[u]

RecordCall(s, q) ==
    /\ calls' = [calls EXCEPT ![s] = @ \cup {q}]
    /\ UNCHANGED <<stubs, byTest>>

\* Mutant of IsFulfilled: one call less is enough.
IsFulfilledEarly(s) == calls[s] # {} /\ Cardinality(calls[s]) + 1 >= ItemOf(s).times

\* _event, which only a call sets: a stub with times = 0 waits for one as well.
IsFulfilled(s) == calls[s] # {} /\ Cardinality(calls[s]) >= ItemOf(s).times

\* get_stub.
Has(s) == s \in DOMAIN stubs

\* Mutant of CleanupTest: the table is emptied.
CleanupAll(r) ==
    /\ stubs' = [s \in {} |-> 0] /\ byTest' = [t \in Tests |-> {}]
    /\ UNCHANGED calls

\* cleanup_test(test_id): every stub of that test, whichever run made it.
CleanupTest(r) ==
    /\ stubs' = [s \in DOMAIN stubs \ byTest[TestOf[r]] |-> stubs[s]]
    /\ byTest' = [byTest EXCEPT ![TestOf[r]] = {}]
    /\ UNCHANGED calls
=============================================================================
