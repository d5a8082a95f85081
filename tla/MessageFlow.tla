---------------------------- MODULE MessageFlow ----------------------------
(***************************************************************************)
(* The path of a message through kafka-wiremock: tests and the system      *)
(* under test put messages into Kafka topics and JMS queues; the two       *)
(* listener threads take them out, cache them and answer them by rules;    *)
(* the tests find them in the cache.                                       *)
(***************************************************************************)
EXTENDS KafkaListener, JMSListener, TestExecutor, FiniteSets

CONSTANTS MaxExternal,  \* bound: messages sent by the system under test
          Foreign,      \* bound: their bodies
          Pausable      \* bound: the queues that are paused and resumed

ASSUME MessageFlowAssumption == Pausable \subseteq Queues /\ Foreign \subseteq Payloads

VARIABLE external
vars == <<clock, brokerVars, cacheVars, kafkaListenerVars, jmsListenerVars, run, external>>

TypeOK ==
    /\ clock \in Nat
    /\ BrokersTypeOK /\ CacheTypeOK /\ KafkaListenerTypeOK
    /\ JMSListenerTypeOK /\ TestExecutorTypeOK
    /\ external \in Nat

Init == /\ clock = Epoch
        /\ BrokersInit /\ CacheInit /\ KafkaListenerInit
        /\ JMSListenerInit /\ TestExecutorInit
        /\ external = 0

-----------------------------------------------------------------------------
\* The steps of the threads; each leaves the other threads' locals alone.
KafkaFrame == UNCHANGED <<clock, jmsListenerVars, run, external>>
ConsumerHazards == (AutoCommit \/ LoseConsumer) /\ UNCHANGED <<brokerVars, cacheVars>> /\ KafkaFrame
Receive      == /\ \/ Connect /\ UNCHANGED <<brokerVars, cacheVars>>
                   \/ \E r \in log : Poll(r)
                /\ KafkaFrame
ApplyRules   == ListenerStep /\ KafkaFrame

JMSFrame     == UNCHANGED <<clock, kafkaListenerVars, run, external>>
JMSThread    == (JMSListenerStep \/ \E q \in Queues : ChooseQueue(q)) /\ JMSFrame
QueueControl == (\E q \in Pausable : PauseQueue(q) \/ ResumeQueue(q)) /\ JMSFrame

TestFrame    == UNCHANGED <<clock, kafkaListenerVars, jmsListenerVars, external>>
Start(t)     == StartTest(t) /\ TestFrame
Proceed(t)   == TestStep(t) /\ TestFrame

CleanupThread ==
    /\ CleanupAllExpired
    /\ UNCHANGED <<clock, brokerVars, kafkaListenerVars, jmsListenerVars, run, external>>

\* The system under test sends a message of its own.
SystemSends ==
    /\ external < MaxExternal
    /\ external' = external + 1
    /\ \E payload \in Foreign :
          \/ \E topic \in KafkaTopics, p \in Partitions : Append1(topic, p, payload)
          \/ \E q \in Queues : Put(q, payload)
    /\ UNCHANGED <<clock, cacheVars, kafkaListenerVars, jmsListenerVars, run>>

Time ==
    /\ Tick
    /\ UNCHANGED <<brokerVars, cacheVars, kafkaListenerVars, jmsListenerVars, run, external>>

Next == \/ ConsumerHazards \/ Receive \/ ApplyRules
        \/ JMSThread \/ QueueControl
        \/ \E t \in Tests : Start(t) \/ Proceed(t)
        \/ CleanupThread \/ SystemSends \/ Time

Spec == Init /\ [][Next]_vars

\* The threads keep running and time keeps passing.  Each listener is one
\* thread, each test one coroutine.  Nothing is assumed of the moment at which
\* a test starts, of the system under test, or of the consumer's losses.
Fairness ==
    /\ WF_vars(Time)
    /\ WF_vars(Receive) /\ WF_vars(ApplyRules)
    /\ WF_vars(JMSThread)
    /\ \A t \in Tests : WF_vars(Proceed(t))
FairSpec == Spec /\ Fairness

-----------------------------------------------------------------------------
(* What the verdicts of the tests are worth.                               *)

InWindow(t, r) == r.timestamp >= Since(t)

\* What an expectation on a topic has matched is in the log of that topic, is
\* a message it asked for, and was sent after the test began (up to Margin):
\* no MATCHED from another topic, from an older run, or out of thin air.
MatchedSound ==
    \A t \in Tests : \A n \in DOMAIN run[t].received :
        Expectations[t][n].dest \in KafkaTopics =>
            \A r \in run[t].received[n] :
                /\ r \in log /\ r.topic = Expectations[t][n].dest
                /\ r.payload \in Expectations[t][n].wanted
                /\ InWindow(t, r)

\* An expectation never passes over a message it wants: while it goes on
\* looking, nothing that was in the cache at its last read would satisfy it.
\* Deduplication by (partition, offset) must not hide one message behind
\* another, nor may a message be dropped for its age by mistake.
NoTopicMessagePassedOver ==
    \A t \in Tests :
        run[t].pc \in {"collect", "read", "waiting"} /\ Expected(t).dest \in KafkaTopics =>
            \A m \in messages :
                ~ /\ m.id < run[t].seenId /\ m.topic = Expected(t).dest
                  /\ InWindow(t, m) /\ m.payload \in Expected(t).wanted

\* With expectations on topics only, the whole machinery implements the
\* contract of module TestContract: verdicts are sound, are given in order,
\* never change, and TIMEOUT is never early.
ContractState == [t \in Tests |-> IF run[t].pc \in {"idle", "done"} THEN run[t].pc
                                                                  ELSE "running"]
Contract == INSTANCE TestContract
    WITH now <- clock, sent <- log, begun <- [t \in Tests |-> run[t].start],
         state <- ContractState, verdict <- [t \in Tests |-> run[t].received],
         Horizon <- MaxTime
ImplementsContract == Contract!Spec

\* A test that has started is done in the end: its injections return, its
\* waits have timeouts and its expectations have deadlines.
TestsConclude == \A t \in Tests : run[t].pc # "idle" ~> run[t].pc = "done"

-----------------------------------------------------------------------------
(* What the cache and the listeners do to messages.                        *)

\* The consumed flag is found again by topic and offset only, so it may land on
\* another message than the one a rule has answered: on the same offset of
\* another partition, or, in a queue, where every offset is 0, on any message.
\* It lands nowhere else: the flagged entry is the oldest with its topic and
\* offset; some record of that topic and offset, if perhaps of another
\* partition, is one that a rule accepts; and a queue has rules.
SameKey(m, n) == m.topic = n.topic /\ m.offset = n.offset
ConsumedFlagSound ==
    \A m \in messages : m.byRules =>
        /\ \A n \in messages : SameKey(m, n) => m.id <= n.id
        /\ m.topic \in KafkaTopics =>
              \E r \in log : SameKey(m, r) /\ Matching(KafkaRules[m.topic], r.payload) # {}
        /\ m.topic \in Queues => m.topic \in Polled

\* No message leaves the cache before it has been there for TTL.
NoEarlyEviction ==
    [][\A m \in messages : Live(m) => \E n \in messages' : n.id = m.id]_vars

SamePlace(m, n) == m.topic = n.topic /\ m.partition = n.partition
Coordinates(m) == <<m.topic, m.partition, m.offset>>

\* Without a loss of the consumer every record is delivered once and the
\* records of a partition are cached in the order of their offsets.
InOrderWithoutLoss ==
    losses = 0 => \A m, n \in messages :
        m.topic \in KafkaTopics /\ SamePlace(m, n) /\ m.id < n.id => m.offset < n.offset

\* Once the group has committed an offset of a partition, no later record is
\* skipped, whatever happens to the consumer: the records between the
\* committed offset and the position have been cached, but for those that
\* cannot be decoded, which are skipped for good.
NothingSkippedOnceCommitted ==
    \A r \in log :
        LET s == <<r.topic, r.partition>> IN
        /\ r.payload \notin Undecodable
        /\ connected /\ committed[s] # NoOffset
        /\ committed[s] <= r.offset /\ r.offset < position[s]
        /\ clock < r.timestamp + TTL
        => \E m \in messages : RecordOf(m) = r

\* A record that a connected consumer has not reached yet is cached in the
\* end, unless the consumer is lost on the way: a record that cannot be decoded
\* is passed over and holds up none of those behind it.
Unread(s, o) == connected /\ s[1] \in Subscribed /\ position[s] <= o /\ o < logEnd[s]
IsCached(s, o) == \E m \in messages : Coordinates(m) = <<s[1], s[2], o>>
PassedOver(s, o) == \E r \in log : r.payload \in Undecodable /\ Coordinates(r) = <<s[1], s[2], o>>
RecordsReachCache ==
    \A s \in Slots, o \in 0..3 :  \* bound: the first offsets
        Unread(s, o) /\ ~PassedOver(s, o) ~> IsCached(s, o) \/ ~connected

\* What a rule, and the first rule that accepts a record, produce to a topic.
AnswersTo(rule, topic) ==
    {n \in DOMAIN rule.outputs : /\ rule.outputs[n].type \notin {"http", "db"}
                                 /\ rule.outputs[n].dest = topic}
Asks(r, topic) ==
    LET rules == KafkaRules[r.topic]
        hits  == Matching(rules, r.payload)
    IN  \E i \in hits : /\ IsFirst(i, hits) /\ ~rules[i].skip
                        /\ AnswersTo(rules[i], topic) # {}

\* The topics to which only rules for topics send, one output each, and no
\* duplicate of a database output goes where an earlier output went.
NeverInjected(topic) ==
    \A t \in Tests : \A n \in DOMAIN Injections[t] : Injections[t][n].dest # topic
NotForQueues(topic) ==
    \A q \in Queues : \A i \in DOMAIN JMSRules[q] : \A n \in DOMAIN JMSRules[q][i].outputs :
        LET o == JMSRules[q][i].outputs[n] IN o.dest = topic => o.type \in {"jms", "http"}
OneAnswer(rule, topic) ==
    /\ \A m, n \in AnswersTo(rule, topic) : m = n
    /\ AnswersTo(rule, topic) # {} =>
          \A n \in DOMAIN rule.outputs :
              ~ (rule.outputs[n].type = "db" /\ "duplicate" \in rule.outputs[n].fault)
OnlyAnswers ==
    {topic \in KafkaTopics :
        /\ NeverInjected(topic) /\ NotForQueues(topic)
        /\ \A d \in KafkaTopics : \A i \in DOMAIN KafkaRules[d] :
              OneAnswer(KafkaRules[d][i], topic)}

\* Whatever the faults of its outputs, a rule answers a record at most twice.
\* (Until a loss of the consumer delivers records again, and while the system
\* under test sends no answers of its own.)
AtMostTwoAnswers ==
    losses = 0 /\ external = 0 =>
        \A topic \in OnlyAnswers :
            Cardinality({r \in log : r.topic = topic})
                <= 2 * Cardinality({r \in log : Asks(r, topic)})

\* A reply that the cache shows has been put: no more replies with some body
\* are cached than have been put on a queue that nobody here reads.
RepliesWerePut ==
    \A q \in Queues \ Polled : \A p \in Payloads :
        Cardinality({m \in messages : m.topic = q /\ m.payload = p})
            <= Cardinality({i \in DOMAIN queued[q] : queued[q][i] = p})

\* A queue that is paused loses no messages to the listener.
PausedQueuesKeepMessages ==
    [][\A q \in Queues : q \in paused => Len(queued'[q]) >= Len(queued[q])]_vars
=============================================================================
