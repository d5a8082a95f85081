--------------------------- MODULE MCMessageFlow ---------------------------
(***************************************************************************)
(* Small instances of MessageFlow for TLC.                                 *)
(***************************************************************************)
EXTENDS MessageFlow

CONSTANTS order, answer, junk, garbled,  \* message bodies
          orders, answers,       \* topics
          requests, replies,     \* queues
          t1, t2                 \* tests

\* A template that answers an order and leaves everything else as it is.
Answering == [p \in Payloads |-> IF p = order THEN answer ELSE p]
To(type, dest, fault) == [type |-> type, dest |-> dest, render |-> Answering, fault |-> fault]
Rule(match, outputs) == [match |-> match, skip |-> FALSE, outputs |-> outputs]

NoRules      == [q \in Queues |-> <<>>]
NoKafkaRules == [d \in KafkaTopics |-> <<>>]

\* Orders are answered; a junk message has no rule.
OrderRules == <<Rule({order}, <<To("kafka", answers, {})>>)>>
OneRule    == [d \in KafkaTopics |-> IF d = orders THEN OrderRules ELSE <<>>]

\* Every kind of output, every fault, a rule that is switched off, an empty one.
ManyRules ==
    [d \in KafkaTopics |->
        IF d = orders
        THEN <<[Rule({junk}, <<>>) EXCEPT !.skip = TRUE],
               Rule({order}, <<To("kafka", answers, Faults), To("http", answers, {"duplicate"}),
                               To("jms", replies, {})>>),
               Rule({answer}, <<>>)>>
        ELSE <<>>]

\* Requests on a queue are answered on another queue and on a topic.
RequestRules == [q \in Queues |->
    IF q = requests
    THEN <<[Rule({junk}, <<>>) EXCEPT !.skip = TRUE],
           Rule({order}, <<To("jms", replies, {}), To("http", answers, {"drop"}),
                           To("kafka", answers, {})>>)>>
    ELSE <<>>]
-----------------------------------------------------------------------------
Each(x) == [t \in Tests |-> x]
Sends(dest, payload, fault) == [dest |-> dest, payload |-> payload, fault |-> fault]
Expects(dest, wanted) == [dest |-> dest, wanted |-> wanted]

InjectOrder    == Each(<<Sends(orders, order, {})>>)
InjectPoisoned == Each(<<Sends(orders, order, {"poison"})>>)
InjectFaultyRequest == Each(<<Sends(requests, order, {"drop", "duplicate"}), Sends(requests, order, {})>>)
ExpectAnswer   == Each(<<Expects(answers, {answer})>>)
ExpectBoth     == Each(<<Expects(orders, {order}), Expects(answers, {answer})>>)
ExpectReply    == Each(<<Expects(replies, {answer})>>)
=============================================================================
