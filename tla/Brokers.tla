------------------------------ MODULE Brokers ------------------------------
(***************************************************************************)
(* What kafka-wiremock sees of the two message systems it talks to.        *)
(*                                                                         *)
(* Kafka: `log` is the set of records of all partitions; a record is named *)
(* by its topic, partition and offset.  JMS: `queued` is, per queue, the   *)
(* payloads put and not yet got.                                           *)
(*                                                                         *)
(* Every record is stamped with the time of its append: the producers of   *)
(* the model have synchronised clocks.                                     *)
(*                                                                         *)
(* Produce is KafkaClientWrapper.produce: it first looks the topic up and  *)
(* gives up silently when it does not exist, or when the delivery report   *)
(* is an error; the caller sees no exception in either case.               *)
(***************************************************************************)
EXTENDS Common, Sequences

CONSTANT Partitions  \* of every topic

ASSUME BrokersAssumption == Partitions \subseteq Nat

VARIABLES log, logEnd, queued
brokerVars == <<log, logEnd, queued>>

Slots  == KafkaTopics \X Partitions
Record == [topic: KafkaTopics, partition: Partitions, offset: Nat,
           payload: Payloads, timestamp: Nat]

BrokersTypeOK ==
    /\ log \subseteq Record
    /\ logEnd \in [Slots -> Nat]
    /\ queued \in [Queues -> Seq(Payloads)]

BrokersInit ==
    /\ log = {}
    /\ logEnd = [s \in Slots |-> 0]
    /\ queued = [q \in Queues |-> <<>>]

\* One record appended to partition p of the topic, stamped by the producer.
Append1(topic, p, payload) ==
    /\ log' = log \cup {[topic |-> topic, partition |-> p,
                         offset |-> logEnd[<<topic, p>>],
                         payload |-> payload, timestamp |-> clock]}
    /\ logEnd' = [logEnd EXCEPT ![<<topic, p>>] = @ + 1]
    /\ UNCHANGED queued

\* KafkaClientWrapper.produce: delivered to some partition, or not at all.
Produce(topic, payload) ==
    \/ topic \in KafkaTopics /\ \E p \in Partitions : Append1(topic, p, payload)
    \/ UNCHANGED brokerVars

\* JMSClient.put_message on a queue that exists, when the queue manager answers.
Put(queue, payload) ==
    /\ queue \in Queues
    /\ queued' = [queued EXCEPT ![queue] = Append(@, payload)]
    /\ UNCHANGED <<log, logEnd>>
=============================================================================
