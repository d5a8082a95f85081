--------------------------- MODULE KafkaListener ---------------------------
(***************************************************************************)
(* kafka/listener.py: the thread "kafka-unified-listener".  It polls the   *)
(* subscribed topics, puts every message into the cache, runs the first    *)
(* matching rule of the topic and marks the cached entry as consumed.      *)
(*                                                                         *)
(* kl is the state of the thread: kl.pc says what it does next with the    *)
(* record kl.msg, rule number kl.rule and output number kl.out; kl.dest    *)
(* and kl.payload are the Python locals rendered_destination and           *)
(* message_to_send, which outlive an iteration of the loop over outputs.   *)
(***************************************************************************)
EXTENDS Brokers, MessageCache, Rules, Integers

CONSTANTS Subscribed,  \* the topics of the consumer's subscription
          KafkaRules,  \* [topic -> sequence of rules, by priority]
          Undecodable, \* bodies of records whose headers or key are not UTF-8
          NoRecord,    \* kl.msg between two messages
          MaxLosses    \* bound: how often the consumer is lost

ASSUME KafkaListenerAssumption ==
    /\ Subscribed \subseteq KafkaTopics
    /\ IsRuleTable(KafkaRules, KafkaTopics)
    /\ Undecodable \subseteq Payloads
    /\ NoRecord \notin Record

VARIABLES connected, position, polled, committed, losses, kl
consumerVars == <<connected, position, polled, committed, losses>>
kafkaListenerVars == <<consumerVars, kl>>

NoOffset == -1   \* a partition for which the group has committed nothing

Idle == [pc |-> "poll", msg |-> NoRecord, rule |-> 0, out |-> 0,
         dest |-> NoDest, payload |-> Poison]

KafkaListenerTypeOK ==
    /\ connected \in BOOLEAN
    /\ position \in [Slots -> Nat]
    /\ polled \subseteq Slots
    /\ committed \in [Slots -> Nat \cup {NoOffset}]
    /\ losses \in Nat
    /\ kl \in [pc: {"poll", "notify", "match", "output", "duplicate", "mark"},
               msg: Record \cup {NoRecord}, rule: Nat, out: Nat,
               dest: Destinations \cup {NoDest}, payload: Payloads]
    /\ kl.pc # "poll" => kl.msg \in Record

KafkaListenerInit ==
    /\ connected = FALSE
    /\ position = [s \in Slots |-> 0]
    /\ polled = {}
    /\ committed = [s \in Slots |-> NoOffset]
    /\ losses = 0
    /\ kl = Idle

-----------------------------------------------------------------------------
(* The consumer: group "wiremock-listener", auto.offset.reset latest,      *)
(* enable.auto.commit.                                                     *)

\* Mutants of Connect: `latest` also where an offset is committed; the
\* missing commit not replaced by the end of the log.
ConnectAtEnd ==
    /\ ~connected /\ connected' = TRUE /\ position' = logEnd
    /\ UNCHANGED <<polled, committed, losses, kl>>

\* A new Consumer has its partitions assigned.
Connect ==
    /\ ~connected
    /\ connected' = TRUE
    /\ position' = [s \in Slots |-> IF committed[s] = NoOffset THEN logEnd[s]
                                                               ELSE committed[s]]
    /\ UNCHANGED <<polled, committed, losses, kl>>

Commit == [s \in Slots |-> IF s \in polled THEN position[s] ELSE committed[s]]

\* The consumer's background commit of the offsets stored by poll, every 5 s.
\* (Left out once no loss of the consumer is left that could tell.)
AutoCommit ==
    /\ connected /\ polled # {} /\ losses < MaxLosses
    /\ committed' = Commit
    /\ polled' = {}
    /\ UNCHANGED <<connected, position, losses, kl>>

\* An exception in the loop: the consumer is closed, which commits when the
\* broker can be reached, and set to None; the loop creates another one.
LoseConsumer ==
    /\ connected /\ kl.pc = "poll" /\ losses < MaxLosses
    /\ connected' = FALSE
    /\ committed' \in {Commit, committed}
    /\ polled' = {}
    /\ losses' = losses + 1
    /\ UNCHANGED <<position, kl>>

-----------------------------------------------------------------------------
\* _process_message up to add_message, which puts the record into the cache
\* with the broker's timestamp.  Headers and key are decoded before: when one
\* cannot be, the UnicodeDecodeError is caught and logged by _process_message
\* and nothing more happens to the record; no rule sees it.
CacheRecord(r) ==
    \/ /\ r.payload \notin Undecodable
       /\ AddMessage(r.topic, r.payload, r.partition, r.offset, r.timestamp)
       /\ kl' = [kl EXCEPT !.pc = "notify", !.msg = r]
    \/ /\ r.payload \in Undecodable
       /\ UNCHANGED <<kl, cacheVars>>

\* Mutants of Poll: the position is not advanced; topics without rules are
\* not read.
PollAgain(r) ==
    /\ connected /\ kl.pc = "poll"
    /\ r \in log /\ r.topic \in Subscribed
    /\ position[<<r.topic, r.partition>>] = r.offset /\ nextId < 4
    /\ CacheRecord(r)
    /\ UNCHANGED <<consumerVars, brokerVars>>
PollRuled(r) ==
    /\ connected /\ kl.pc = "poll"
    /\ r \in log /\ r.topic \in Subscribed /\ KafkaRules[r.topic] # <<>>
    /\ position[<<r.topic, r.partition>>] = r.offset
    /\ position' = [position EXCEPT ![<<r.topic, r.partition>>] = r.offset + 1]
    /\ polled' = polled \cup {<<r.topic, r.partition>>}
    /\ CacheRecord(r)
    /\ UNCHANGED <<connected, committed, losses, brokerVars>>

\* poll returns the next record of some partition, which advances the position
\* and marks it to be committed whatever _process_message does to the record.
Poll(r) ==
    /\ connected /\ kl.pc = "poll"
    /\ r \in log /\ r.topic \in Subscribed
    /\ position[<<r.topic, r.partition>>] = r.offset
    /\ position' = [position EXCEPT ![<<r.topic, r.partition>>] = r.offset + 1]
    /\ polled' = polled \cup {<<r.topic, r.partition>>}
    /\ CacheRecord(r)
    /\ UNCHANGED <<connected, committed, losses, brokerVars>>

\* The second half of add_message.
Notify ==
    /\ kl.pc = "notify"
    /\ NotifyAll
    /\ kl' = [kl EXCEPT !.pc = "match"]
    /\ UNCHANGED <<consumerVars, brokerVars>>

\* The loop over the rules.  A skipped rule is found only inside
\* _execute_rule, which returns at once; it has won the match all the same.
Match ==
    /\ kl.pc = "match"
    /\ LET rules == KafkaRules[kl.msg.topic]
           hits  == Matching(rules, kl.msg.payload)
       IN  \/ hits = {} /\ kl' = Idle
           \/ \E i \in hits :
                 /\ IsFirst(i, hits)
                 /\ kl' = [kl EXCEPT !.rule = i, !.out = 1,
                             !.pc = IF rules[i].skip \/ rules[i].outputs = <<>>
                                    THEN "mark" ELSE "output"]
    /\ UNCHANGED <<consumerVars, brokerVars, cacheVars>>

Outputs == KafkaRules[kl.msg.topic][kl.rule].outputs

\* The loop over the outputs goes on after output number kl.out.
NextOutput(dest, payload) ==
    [kl EXCEPT !.dest = dest, !.payload = payload,
               !.pc  = IF kl.out < Len(Outputs) THEN "output" ELSE "mark",
               !.out = IF kl.out < Len(Outputs) THEN kl.out + 1 ELSE kl.out]

\* The fault "drop": nothing is sent, and `continue` skips the duplicate.
DropOutput ==
    /\ kl.pc = "output" /\ "drop" \in Outputs[kl.out].fault
    /\ kl' = NextOutput(kl.dest, kl.payload)
    /\ UNCHANGED <<consumerVars, brokerVars, cacheVars>>

\* The output is sent according to its type; http and db leave Kafka alone,
\* every other type (also "jms") is produced to a topic.  All types but http
\* may then be duplicated.
SendOutput ==
    /\ kl.pc = "output"
    /\ LET o == Outputs[kl.out]
           dest == IF o.type \in {"http", "db"} THEN kl.dest ELSE o.dest
       IN  \E payload \in Sendable(o.render[kl.msg.payload], o.fault) :
             /\ IF o.type \in {"http", "db"} THEN UNCHANGED brokerVars
                                             ELSE Produce(o.dest, payload)
             /\ \/ kl' = NextOutput(dest, payload)
                \/ /\ o.type # "http" /\ "duplicate" \in o.fault
                   /\ kl' = [kl EXCEPT !.dest = dest, !.payload = payload,
                                       !.pc = "duplicate"]
    /\ UNCHANGED <<consumerVars, cacheVars>>

\* Mutant of Duplicate: the loop over the outputs does not go on.
DuplicateForEver ==
    /\ kl.pc = "duplicate"
    /\ Produce(kl.dest, kl.payload)
    /\ UNCHANGED <<kl, consumerVars, cacheVars>>

\* The duplicate goes to the local rendered_destination, whichever output
\* assigned it last.  When none did, the NameError is caught and logged.
Duplicate ==
    /\ kl.pc = "duplicate"
    /\ Produce(kl.dest, kl.payload)
    /\ kl' = NextOutput(kl.dest, kl.payload)
    /\ UNCHANGED <<consumerVars, cacheVars>>

\* mark_consumed_by_rules(topic, offset) after the rule, whatever it did.
Mark ==
    /\ kl.pc = "mark"
    /\ MarkConsumedByRules(kl.msg.topic, kl.msg.offset)
    /\ kl' = Idle
    /\ UNCHANGED <<consumerVars, brokerVars>>

ListenerStep == Notify \/ Match \/ DropOutput \/ SendOutput \/ Duplicate \/ Mark
=============================================================================
