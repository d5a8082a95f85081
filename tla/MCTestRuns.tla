----------------------------- MODULE MCTestRuns -----------------------------
(***************************************************************************)
(* Small instances of TestRuns for TLC: two runs of one test, of which one *)
(* has a thread of its own, and a run of another test.                     *)
(***************************************************************************)
EXTENDS TestRuns

CONSTANTS s1, s2, none

WhenItemOf(do, fault) == [do |-> do, fault |-> fault]
Stub(server, kinds, times) == [do |-> "stub", on |-> 0, server |-> server, accepts |-> kinds, times |-> times]
Other(do, on) == [do |-> do, on |-> on, server |-> none, accepts |-> {}, times |-> 1]

TwoTests  == [r \in {"a1", "a2", "b1"} |-> IF r = "b1" THEN "b" ELSE "a"]
TwoWhens  == [t \in {"a", "b"} |-> IF t = "a" THEN <<>> ELSE <<WhenItemOf("send", "none")>>]
TwoThens  == [t \in {"a", "b"} |->
    IF t = "a" THEN <<Stub(s1, {"x"}, 2)>> ELSE <<Stub(s1, {"x"}, 0), Other("db", 0)>>]

\* A rule that is off, one for any server and one with outputs around its reply.
SomeRules == <<[server |-> s2, skip |-> TRUE, accepts |-> {"x", "y"}, outputs |-> <<"kafka">>],
               [server |-> none, skip |-> FALSE, accepts |-> {"x", "y"}, outputs |-> <<"jms">>],
               [server |-> s2, skip |-> FALSE, accepts |-> {"x"},
                outputs |-> <<"kafka", "http_response", "jms">>]>>
SomeSends == {<<s1, "x">>, <<s2, "x">>}
SomeEndpoints == (s1 :> {"y"}) @@ (s2 :> {})

OneTest    == [r \in {"a1"} |-> "a"]
FaultWhens == [t \in {"a"} |-> <<WhenItemOf("send", "unchecked"), WhenItemOf("db", "none"),
                                 WhenItemOf("send", "none")>>]
FaultThens == [t \in {"a"} |-> <<Other("message", 1), Other("http", 3), Other("script", 0)>>]
=============================================================================
