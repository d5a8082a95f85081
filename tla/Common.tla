------------------------------- MODULE Common -------------------------------
(***************************************************************************)
(* What every component of the message flow shares: the wall clock         *)
(* time.time() that all threads read, and the names of topics, queues and  *)
(* message bodies.                                                         *)
(***************************************************************************)
EXTENDS Naturals

CONSTANTS KafkaTopics,  \* topics that exist in the Kafka cluster
          Queues,       \* queues of the JMS queue managers
          Payloads,     \* message bodies
          Epoch,        \* time at which the process starts; 0 is long before it
          MaxTime       \* bound: the model's clock stops here

ASSUME CommonAssumption ==
    /\ KafkaTopics \cap Queues = {}
    /\ Epoch \in Nat /\ MaxTime \in Nat /\ 0 < Epoch /\ Epoch <= MaxTime

Destinations == KafkaTopics \cup Queues

VARIABLE clock

Min2(a, b) == IF a <= b THEN a ELSE b

\* Time passes between any two steps of any thread.
Tick == clock < MaxTime /\ clock' = clock + 1
=============================================================================
