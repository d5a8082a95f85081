--------------------------- MODULE DeliveryProofs ---------------------------
(***************************************************************************)
(* Theorems about what the listeners deliver to the cache and what the     *)
(* tests make of it, for any topics, queues, rules, tests, losses of the   *)
(* consumer and commits: order and completeness, what tests overlook, the  *)
(* contract of a test, the replies that the cache shows, and how often a   *)
(* record is answered.                                                     *)
(***************************************************************************)
EXTENDS MessageFlowProofs, WellFoundedInduction, FiniteSetTheorems

SlotOf(r) == <<r.topic, r.partition>>

(***************************************************************************)
(* Every step of the flow, seen from the log, the cache and the consumer.  *)
(***************************************************************************)

LogStep ==
    \/ UNCHANGED <<log, logEnd>>
    \/ \E topic \in KafkaTopics, p \in Partitions : \E payload : Append1(topic, p, payload)

\* Entries go only when they have expired, new ones come under names of queues.
CacheStep ==
    \/ /\ messages' \subseteq messages /\ nextId' = nextId
       /\ \A m \in messages : Live(m) => m \in messages'
    \/ \E q \in Queues : \E payload, ts : AddMessage(q, payload, 0, 0, ts)
    \/ \E topic, o : MarkConsumedByRules(topic, o)

ConsumerStep ==
    /\ Connect \/ AutoCommit \/ LoseConsumer
    /\ UNCHANGED <<log, logEnd, messages, nextId>>

LEMMA NewRecord ==
  ASSUME LogStep, NEW r \in log', r \notin log
  PROVE  r.offset = logEnd[SlotOf(r)] /\ r.timestamp = clock
<1>1. PICK topic \in KafkaTopics, p \in Partitions : \E payload : Append1(topic, p, payload)
  BY DEF LogStep
<1>2. PICK payload : Append1(topic, p, payload)
  BY <1>1
<1>3. r = [topic |-> topic, partition |-> p, offset |-> logEnd[<<topic, p>>],
           payload |-> payload, timestamp |-> clock]
  BY <1>2 DEF Append1
<1> QED
  BY <1>3 DEF SlotOf

LEMMA ProduceIsLogStep ==
  ASSUME NEW topic, NEW payload, Produce(topic, payload) PROVE LogStep
  BY DEF Produce, LogStep, brokerVars

LEMMA StepKinds ==
  ASSUME Typed, [Next]_vars
  PROVE  \/ ConsumerStep
         \/ \E r \in log : Poll(r)
         \/ UNCHANGED consumerVars /\ LogStep /\ CacheStep
<1> DEFINE Other == UNCHANGED consumerVars /\ LogStep /\ CacheStep
<1>a. ASSUME UNCHANGED <<log, logEnd>> PROVE LogStep
  BY <1>a DEF LogStep
<1>b. ASSUME UNCHANGED <<messages, nextId>> PROVE CacheStep
  BY <1>b DEF CacheStep
<1>c. ASSUME NEW q, NEW payload, Put(q, payload) PROVE LogStep
  BY <1>c DEF Put, LogStep
<1>1. CASE UNCHANGED vars
  BY <1>1, <1>a, <1>b DEF vars, brokerVars, cacheVars, kafkaListenerVars
<1>2. CASE ConsumerHazards \/ Receive
  BY <1>2 DEF ConsumerHazards, Receive, ConsumerStep, brokerVars, cacheVars
<1>3. CASE ApplyRules
  <2>1. UNCHANGED consumerVars
    BY <1>3 DEF ApplyRules, ListenerStep, Notify, Match, DropOutput, SendOutput, Duplicate, Mark
  <2>2. LogStep
    BY <1>3, <1>a, ProduceIsLogStep
       DEF ApplyRules, ListenerStep, Notify, Match, DropOutput, SendOutput, Duplicate, Mark,
           brokerVars
  <2>3. CacheStep
    <3>1. CASE Mark
      BY <3>1 DEF Mark, CacheStep
    <3>2. CASE Notify \/ Match \/ DropOutput \/ SendOutput \/ Duplicate
      BY <1>b, <3>2 DEF Notify, NotifyAll, Match, DropOutput, SendOutput, Duplicate, cacheVars
    <3> QED
      BY <1>3, <3>1, <3>2 DEF ApplyRules, ListenerStep
  <2> QED
    BY <2>1, <2>2, <2>3
<1>4. CASE JMSThread \/ QueueControl
  <2>1. UNCHANGED consumerVars
    BY <1>4 DEF JMSThread, QueueControl, JMSFrame, kafkaListenerVars
  <2>2. LogStep
    BY <1>4, <1>a, <1>c, ProduceIsLogStep
       DEF JMSThread, QueueControl, PauseQueue, ResumeQueue, ChooseQueue, JMSListenerStep,
           GetMessages, TakeMessage, NotifyTaken, MatchJMS, LoseJMSOutput, PutJMSOutput,
           CacheJMSOutput, NotifyJMSOutput, SendJMSOutput, MarkJMS, brokerVars
  <2>3. CacheStep
    <3>1. CASE TakeMessage
      BY <3>1 DEF TakeMessage, CacheStep, Typed, TypeOK, JMSListenerTypeOK
    <3>2. CASE CacheJMSOutput
      BY <3>2 DEF CacheJMSOutput, CacheStep, Typed, JMSRuleTyped
    <3>3. CASE MarkJMS
      BY <3>3 DEF MarkJMS, CacheStep
    <3>4. CASE ~(TakeMessage \/ CacheJMSOutput \/ MarkJMS)
      BY <1>4, <1>b, <3>4
         DEF JMSThread, QueueControl, PauseQueue, ResumeQueue, ChooseQueue, JMSListenerStep,
             GetMessages, NotifyTaken, NotifyAll, MatchJMS, LoseJMSOutput, PutJMSOutput,
             NotifyJMSOutput, SendJMSOutput, cacheVars
    <3> QED
      BY <3>1, <3>2, <3>3, <3>4
  <2> QED
    BY <2>1, <2>2, <2>3
<1>5. CASE \E t \in Tests : Start(t) \/ Proceed(t)
  <2>1. UNCHANGED consumerVars
    BY <1>5 DEF Start, Proceed, TestFrame, kafkaListenerVars
  <2>2. LogStep
    BY <1>5, <1>a, <1>c, ProduceIsLogStep
       DEF Start, StartTest, Proceed, TestStep, DropInjection, Inject, ResendInjection,
           SendInjection, InjectFails, Collect, GiveUp, BeginWait, EndWait, brokerVars
  <2>3. CacheStep
    BY <1>5
       DEF Start, StartTest, Proceed, TestStep, DropInjection, Inject, ResendInjection,
           InjectFails, Collect, GiveUp, BeginWait, BeginWaiting, EndWait, EndWaiting,
           PurgeTopic, Purge, cacheVars, CacheStep
  <2> QED
    BY <2>1, <2>2, <2>3
<1>6. CASE CleanupThread \/ SystemSends \/ Time
  <2>1. UNCHANGED consumerVars
    BY <1>6 DEF CleanupThread, SystemSends, Time, kafkaListenerVars
  <2>2. LogStep
    BY <1>6, <1>a, <1>c DEF CleanupThread, SystemSends, Time, brokerVars, LogStep
  <2>3. CacheStep
    BY <1>6 DEF CleanupThread, CleanupAllExpired, SystemSends, Time, cacheVars, CacheStep
  <2> QED
    BY <2>1, <2>2, <2>3
<1> QED
  BY <1>1, <1>2, <1>3, <1>4, <1>5, <1>6 DEF Next

-----------------------------------------------------------------------------
(* Names of records, and how far the consumer has come.                    *)

\* Records of a partition have different offsets, below its end, and neither the
\* position nor a commit is beyond it.
LogOrdered ==
    /\ \A r \in log : r.offset < logEnd[SlotOf(r)]
    /\ \A r, x \in log : SlotOf(r) = SlotOf(x) /\ r.offset = x.offset => r = x
    /\ \A s \in Slots : position[s] <= logEnd[s] /\ committed[s] <= logEnd[s]

LEMMA LogOrderedInit == Init => LogOrdered
  BY DEF Init, BrokersInit, KafkaListenerInit, LogOrdered, NoOffset

LEMMA SlotOfRecord == \A r \in Record : SlotOf(r) \in Slots
  BY DEF SlotOf, Record, Slots

LEMMA AppendOrdered ==
  ASSUME Typed, LogOrdered, UNCHANGED consumerVars,
         NEW topic \in KafkaTopics, NEW p \in Partitions, NEW payload, Append1(topic, p, payload)
  PROVE  LogOrdered'
<1> DEFINE e == [topic |-> topic, partition |-> p, offset |-> logEnd[<<topic, p>>],
                 payload |-> payload, timestamp |-> clock]
<1>1. log \subseteq Record /\ logEnd \in [Slots -> Nat] /\ <<topic, p>> \in Slots
      /\ position \in [Slots -> Nat] /\ committed \in [Slots -> Nat \cup {NoOffset}]
  BY DEF Typed, TypeOK, BrokersTypeOK, KafkaListenerTypeOK, Slots
<1>2. log' = log \cup {e} /\ position' = position /\ committed' = committed
  BY DEF Append1, consumerVars
<1>3. SlotOf(e) = <<topic, p>> /\ e.offset = logEnd[<<topic, p>>]
  BY DEF SlotOf
<1>4. \A s \in Slots : logEnd'[s] = IF s = <<topic, p>> THEN logEnd[s] + 1 ELSE logEnd[s]
  BY <1>1 DEF Append1
<1> HIDE DEF e
<1>5. \A s \in Slots : logEnd[s] \in Nat /\ logEnd'[s] \in Nat /\ logEnd[s] <= logEnd'[s]
  BY <1>1, <1>4
<1>6. \A r \in log : SlotOf(r) \in Slots /\ r.offset \in Nat
  BY <1>1, SlotOfRecord DEF Record
<1>7. ASSUME NEW r \in log' PROVE r.offset < logEnd'[SlotOf(r)]
  <2>1. CASE r = e
    BY <1>1, <1>3, <1>4, <2>1
  <2>2. CASE r \in log
    BY <1>5, <1>6, <2>2 DEF LogOrdered
  <2> QED
    BY <1>2, <2>1, <2>2
<1>8. ASSUME NEW r \in log', NEW x \in log', SlotOf(r) = SlotOf(x), r.offset = x.offset PROVE r = x
  <2>1. ASSUME NEW y \in log PROVE ~(SlotOf(y) = SlotOf(e) /\ y.offset = e.offset)
    BY <1>1, <1>3, <1>6 DEF LogOrdered
  <2> QED
    BY <1>2, <1>8, <2>1 DEF LogOrdered
<1>9. ASSUME NEW s \in Slots PROVE position[s] <= logEnd'[s] /\ committed[s] <= logEnd'[s]
  <2>1. position[s] \in Int /\ committed[s] \in Int
    BY <1>1 DEF NoOffset
  <2> QED
    BY <1>5, <2>1 DEF LogOrdered
<1> QED
  BY <1>2, <1>7, <1>8, <1>9 DEF LogOrdered

LEMMA LogOrderedNext ==
  ASSUME Typed, LogOrdered, [Next]_vars PROVE LogOrdered'
<1>1. /\ log \subseteq Record /\ logEnd \in [Slots -> Nat] /\ polled \subseteq Slots
      /\ position \in [Slots -> Nat] /\ committed \in [Slots -> Nat \cup {NoOffset}]
  BY DEF Typed, TypeOK, BrokersTypeOK, KafkaListenerTypeOK
<1>2. \A s \in Slots : position[s] \in Nat /\ committed[s] \in Int /\ logEnd[s] \in Nat
  BY <1>1 DEF NoOffset
<1>3. CASE ConsumerStep
  <2>1. ASSUME NEW s \in Slots PROVE position'[s] <= logEnd[s] /\ committed'[s] <= logEnd[s]
    BY <1>2, <1>3 DEF ConsumerStep, Connect, AutoCommit, LoseConsumer, Commit, LogOrdered
  <2> QED
    BY <1>3, <2>1 DEF ConsumerStep, LogOrdered
<1>4. ASSUME NEW r \in log, Poll(r) PROVE LogOrdered'
  <2>1. /\ SlotOf(r) \in Slots /\ r.offset \in Nat /\ position[SlotOf(r)] = r.offset
        /\ position' = [position EXCEPT ![SlotOf(r)] = r.offset + 1]
        /\ UNCHANGED <<log, logEnd, committed>>
    BY <1>1, <1>4, SlotOfRecord DEF Poll, SlotOf, Record, brokerVars
  <2>2. r.offset + 1 <= logEnd[SlotOf(r)]
    BY <1>2, <2>1 DEF LogOrdered
  <2>3. ASSUME NEW s \in Slots PROVE position'[s] <= logEnd[s]
    BY <1>1, <1>2, <2>1, <2>2 DEF LogOrdered
  <2> QED
    BY <2>1, <2>3 DEF LogOrdered
<1>5. CASE UNCHANGED consumerVars /\ LogStep
  <2>1. CASE UNCHANGED <<log, logEnd>>
    BY <1>5, <2>1 DEF consumerVars, LogOrdered
  <2> QED
    BY <1>5, <2>1, AppendOrdered DEF LogStep
<1> QED
  BY <1>3, <1>4, <1>5, StepKinds
-----------------------------------------------------------------------------
(* The order of arrival.                                                   *)

\* n is k, possibly with its flags changed.
Like(n, k) ==
    /\ n.id = k.id /\ n.topic = k.topic /\ n.partition = k.partition /\ n.offset = k.offset
    /\ n.payload = k.payload /\ n.timestamp = k.timestamp /\ n.cachedAt = k.cachedAt

LEMMA MarkLike ==
  ASSUME CacheTypeOK, NEW topic, NEW o, MarkConsumedByRules(topic, o)
  PROVE  /\ nextId' = nextId
         /\ \A n \in messages' : \E k \in messages : Like(n, k)
         /\ \A k \in messages : \E n \in messages' : Like(n, k)
<1>1. \A m \in Entry : Like([m EXCEPT !.byRules = TRUE], m) /\ Like(m, m)
  BY DEF Entry, Like
<1>2. CASE messages' = messages
  BY <1>1, <1>2 DEF CacheTypeOK, MarkConsumedByRules
<1>3. ASSUME NEW m \in messages, messages' = (messages \ {m}) \cup {[m EXCEPT !.byRules = TRUE]}
      PROVE  /\ \A n \in messages' : \E k \in messages : Like(n, k)
             /\ \A k \in messages : \E n \in messages' : Like(n, k)
  <2> DEFINE f == [m EXCEPT !.byRules = TRUE]
  <2>1. Like(f, m) /\ \A k \in messages : Like(k, k)
    BY <1>1 DEF CacheTypeOK
  <2>2. messages' = (messages \ {m}) \cup {f}
    BY <1>3
  <2> HIDE DEF f
  <2> QED
    BY <2>1, <2>2
<1> QED
  BY <1>2, <1>3 DEF MarkConsumedByRules, FirstWithOffset

LEMMA CacheStepLike ==
  ASSUME Typed, CacheStep
  PROVE  /\ nextId \in Nat /\ nextId' \in {nextId, nextId + 1}
         /\ \A n \in messages' : \/ \E k \in messages : Like(n, k)
                                 \/ n.topic \in Queues /\ n.id = nextId /\ nextId' = nextId + 1
<1>0. CacheTypeOK /\ nextId \in Nat
  BY DEF Typed, TypeOK, CacheTypeOK
<1>1. CASE messages' \subseteq messages /\ nextId' = nextId
  BY <1>0, <1>1 DEF Like
<1>2. ASSUME NEW q \in Queues, NEW payload, NEW ts, AddMessage(q, payload, 0, 0, ts)
      PROVE  /\ nextId' = nextId + 1
             /\ \A n \in messages' : (\E k \in messages : Like(n, k)) \/ (n.topic \in Queues /\ n.id = nextId)
  <2> DEFINE e == NewEntry(q, payload, 0, 0, ts)
  <2>1. messages' \subseteq messages \cup {e} /\ nextId' = nextId + 1
    BY <1>2 DEF AddMessage, Purge
  <2>2. e.topic = q /\ e.id = nextId
    BY DEF NewEntry
  <2> HIDE DEF e
  <2> QED
    BY <2>1, <2>2 DEF Like
<1>3. ASSUME NEW topic, NEW o, MarkConsumedByRules(topic, o)
      PROVE  nextId' = nextId /\ \A n \in messages' : \E k \in messages : Like(n, k)
  BY <1>0, <1>3, MarkLike
<1> QED
  BY <1>0, <1>1, <1>2, <1>3 DEF CacheStep

\* Ids grow, and until the consumer is first lost everything that is cached lies
\* below its position.
Arrived ==
    /\ \A m \in messages : m.id < nextId
    /\ losses = 0 => \A m \in messages :
          m.topic \in KafkaTopics => connected /\ m.offset < position[SlotOf(m)]
InOrder == Arrived /\ InOrderWithoutLoss

LEMMA InOrderInit == Init => InOrder
  BY DEF Init, CacheInit, InOrder, Arrived, InOrderWithoutLoss

LEMMA PollInOrder ==
  ASSUME Typed, CacheFromLog, InOrder, NEW r \in log, Poll(r), r.payload \notin Undecodable
  PROVE  InOrder'
<1> DEFINE e == NewEntry(r.topic, r.payload, r.partition, r.offset, r.timestamp)
<1>1. /\ messages' \subseteq messages \cup {e} /\ nextId' = nextId + 1
      /\ connected' = connected /\ losses' = losses /\ connected
      /\ position[SlotOf(r)] = r.offset
      /\ position' = [position EXCEPT ![SlotOf(r)] = r.offset + 1]
  BY DEF Poll, CacheRecord, AddMessage, Purge, SlotOf
<1>2. /\ e.id = nextId /\ SlotOf(e) = SlotOf(r) /\ e.offset = r.offset
      /\ e.topic = r.topic /\ e.partition = r.partition
  BY DEF NewEntry, SlotOf
<1> HIDE DEF e
<1>3. /\ nextId \in Nat /\ messages \subseteq Entry /\ r \in Record /\ SlotOf(r) \in Slots
      /\ position \in [Slots -> Nat]
  BY SlotOfRecord DEF Typed, TypeOK, CacheTypeOK, BrokersTypeOK, KafkaListenerTypeOK
<1>4. \A m \in messages : m.id \in Nat /\ m.offset \in Nat /\ m.id < nextId
  BY <1>3 DEF Entry, InOrder, Arrived
<1>5. r.offset \in Nat
  BY <1>3 DEF Record
<1>6. \A m \in messages : m.topic \in KafkaTopics => SlotOf(m) \in Slots
  <2> SUFFICES ASSUME NEW m \in messages, m.topic \in KafkaTopics PROVE SlotOf(m) \in Slots
    OBVIOUS
  <2>1. RecordOf(m) \in Record
    BY DEF CacheFromLog, Typed, TypeOK, BrokersTypeOK
  <2>2. SlotOf(m) = SlotOf(RecordOf(m))
    BY DEF SlotOf, RecordOf
  <2> QED
    BY <2>1, <2>2, SlotOfRecord
<1>7. \A s \in Slots : /\ position[s] \in Nat
                       /\ position'[s] = IF s = SlotOf(r) THEN r.offset + 1 ELSE position[s]
  BY <1>1, <1>3
<1>8. \A m \in messages' : m.id < nextId + 1
  BY <1>1, <1>2, <1>3, <1>4
<1>9. ASSUME losses = 0, NEW m \in messages', m.topic \in KafkaTopics
      PROVE  m.offset < position'[SlotOf(m)]
  <2>1. CASE m = e
    BY <1>2, <1>3, <1>5, <1>7, <2>1
  <2>2. CASE m \in messages
    <3>1. m.offset < position[SlotOf(m)] /\ SlotOf(m) \in Slots /\ m.offset \in Nat
      BY <1>4, <1>6, <1>9, <2>2 DEF InOrder, Arrived
    <3> QED
      BY <1>1, <1>5, <1>7, <3>1
  <2> QED
    BY <1>1, <2>1, <2>2
<1>10. ASSUME losses = 0, NEW m \in messages', NEW n \in messages',
              m.topic \in KafkaTopics, SamePlace(m, n), m.id < n.id
       PROVE  m.offset < n.offset
  <2>1. SlotOf(m) = SlotOf(n) /\ n.topic \in KafkaTopics
    BY <1>10 DEF SamePlace, SlotOf
  <2>2. CASE m \in messages /\ n \in messages
    BY <1>10, <2>2 DEF InOrder, InOrderWithoutLoss
  <2>3. CASE m \in messages /\ n = e
    BY <1>1, <1>2, <1>10, <2>1, <2>3 DEF InOrder, Arrived
  <2>4. CASE m = e
    BY <1>1, <1>2, <1>3, <1>4, <1>10, <2>4
  <2> QED
    BY <1>1, <2>2, <2>3, <2>4
<1> QED
  BY <1>1, <1>8, <1>9, <1>10 DEF InOrder, Arrived, InOrderWithoutLoss

\* A record that is passed over only moves the position.
LEMMA PassOverInOrder ==
  ASSUME Typed, CacheFromLog, InOrder, NEW r \in log, Poll(r), r.payload \in Undecodable
  PROVE  InOrder'
<1>1. /\ UNCHANGED <<messages, nextId, connected, losses>>
      /\ position[SlotOf(r)] = r.offset
      /\ position' = [position EXCEPT ![SlotOf(r)] = r.offset + 1]
  BY DEF Poll, CacheRecord, cacheVars, SlotOf
<1>2. /\ r.offset \in Nat /\ position \in [Slots -> Nat]
      /\ \A m \in messages : m.offset \in Nat
  BY DEF Typed, TypeOK, CacheTypeOK, Entry, BrokersTypeOK, Record, KafkaListenerTypeOK
<1>3. ASSUME NEW m \in messages, m.topic \in KafkaTopics, m.offset < position[SlotOf(m)]
      PROVE  m.offset < position'[SlotOf(m)]
  <2>1. SlotOf(m) \in Slots
    <3>1. RecordOf(m) \in Record /\ SlotOf(m) = SlotOf(RecordOf(m))
      BY <1>3 DEF CacheFromLog, Typed, TypeOK, BrokersTypeOK, SlotOf, RecordOf
    <3> QED
      BY <3>1, SlotOfRecord
  <2> QED
    BY <1>1, <1>2, <1>3, <2>1
<1> QED
  BY <1>1, <1>3 DEF InOrder, Arrived, InOrderWithoutLoss

LEMMA InOrderNext ==
  ASSUME Typed, CacheFromLog, InOrder, [Next]_vars PROVE InOrder'
<1>1. CASE ConsumerStep
  <2>1. losses \in Nat
    BY DEF Typed, TypeOK, KafkaListenerTypeOK
  <2> QED
    BY <1>1, <2>1
       DEF ConsumerStep, Connect, AutoCommit, LoseConsumer, InOrder, Arrived, InOrderWithoutLoss
<1>2. CASE UNCHANGED consumerVars /\ LogStep /\ CacheStep
  <2>1. /\ nextId \in Nat /\ nextId' \in {nextId, nextId + 1}
        /\ \A n \in messages' : \/ \E k \in messages : Like(n, k)
                                \/ n.topic \in Queues /\ n.id = nextId /\ nextId' = nextId + 1
    BY <1>2, CacheStepLike
  <2>2. \A k \in messages : k.id \in Nat /\ k.id < nextId
    BY DEF Typed, TypeOK, CacheTypeOK, Entry, InOrder, Arrived
  <2>3. \A n \in messages' : n.topic \in KafkaTopics => \E k \in messages : Like(n, k)
    BY <2>1, CommonAssumption
  <2>4. \A n \in messages' : n.id < nextId'
    BY <2>1, <2>2 DEF Like
  <2>5. losses' = losses /\ connected' = connected /\ position' = position
    BY <1>2 DEF consumerVars
  <2>6. Arrived'
    BY <2>3, <2>4, <2>5 DEF InOrder, Arrived, Like, SlotOf
  <2>7. InOrderWithoutLoss'
    <3> SUFFICES ASSUME losses = 0, NEW m \in messages', NEW n \in messages',
                        m.topic \in KafkaTopics, SamePlace(m, n), m.id < n.id
                 PROVE  m.offset < n.offset
      BY <2>5 DEF InOrderWithoutLoss
    <3>1. PICK k \in messages : Like(m, k)
      BY <2>3
    <3>2. PICK l \in messages : Like(n, l)
      BY <2>3 DEF SamePlace
    <3> QED
      BY <3>1, <3>2 DEF Like, SamePlace, InOrder, InOrderWithoutLoss
  <2> QED
    BY <2>6, <2>7 DEF InOrder
<1> QED
  BY <1>1, <1>2, PollInOrder, PassOverInOrder, StepKinds

\* Until the consumer is first lost, each record is cached once and the records
\* of a partition are cached in the order of their offsets, for any number of
\* partitions and whatever the rules make of them.
THEOREM OrderIsKept == Spec => []InOrderWithoutLoss
<1>1. Init => CacheFromLog
  BY SoundInit DEF Sound
<1>2. Typed /\ CacheFromLog /\ [Next]_vars => CacheFromLog'
  BY CacheStaysKnown
<1>3. Typed /\ CacheFromLog /\ InOrder /\ [Next]_vars => InOrder'
  BY InOrderNext
<1>4. InOrder => InOrderWithoutLoss
  BY DEF InOrder
<1> QED
  BY <1>1, <1>2, <1>3, <1>4, InOrderInit, TypedInvariant, PTL DEF Spec

-----------------------------------------------------------------------------
(* What has been committed.                                                *)

LEMMA ClockGrows == Typed /\ [Next]_vars => clock' >= clock
<1> SUFFICES ASSUME Typed, [Next]_vars PROVE clock' >= clock
  OBVIOUS
<1>1. clock \in Nat
  BY DEF Typed, TypeOK
<1>2. clock' = clock \/ clock' = clock + 1
  BY DEF Next, vars, ConsumerHazards, Receive, ApplyRules, KafkaFrame, JMSThread, QueueControl,
         JMSFrame, Start, Proceed, TestFrame, CleanupThread, SystemSends, Time, Tick
<1> QED
  BY <1>1, <1>2

\* A message is stamped before it is cached.
Stamped ==
    /\ \A r \in log : r.timestamp <= clock
    /\ \A m \in messages : m.topic \in KafkaTopics => m.timestamp <= m.cachedAt

LEMMA StampedInit == Init => Stamped
  BY DEF Init, BrokersInit, CacheInit, Stamped

LEMMA StampedNext ==
  ASSUME Typed, Stamped, [Next]_vars PROVE Stamped'
<1>0. clock \in Nat /\ clock' \in Nat /\ clock' >= clock
  <2>1. Typed'
    BY TypedNext
  <2> QED
    BY <2>1, ClockGrows DEF Typed, TypeOK
<1>1. \A r \in log : r.timestamp \in Nat
  BY DEF Typed, TypeOK, BrokersTypeOK, Record
<1>2. ASSUME NEW r \in log', r \notin log PROVE r.timestamp <= clock'
  <2>1. LogStep
    BY <1>2, StepKinds DEF ConsumerStep, Poll, brokerVars
  <2> QED
    BY <1>0, <1>2, <2>1, NewRecord
<1>3. \A r \in log' : r.timestamp <= clock'
  BY <1>0, <1>1, <1>2 DEF Stamped
<1>4. ASSUME NEW r \in log, Poll(r), NEW m \in messages', m.topic \in KafkaTopics
      PROVE  m.timestamp <= m.cachedAt
  <2> DEFINE e == NewEntry(r.topic, r.payload, r.partition, r.offset, r.timestamp)
  <2>1. messages' \subseteq messages \cup {e}
    BY <1>4 DEF Poll, CacheRecord, cacheVars, AddMessage, Purge
  <2>2. e.timestamp = r.timestamp /\ e.cachedAt = clock
    BY DEF NewEntry
  <2> HIDE DEF e
  <2> QED
    BY <1>4, <2>1, <2>2 DEF Stamped
<1>5. ASSUME ConsumerStep \/ CacheStep, NEW m \in messages', m.topic \in KafkaTopics
      PROVE  m.timestamp <= m.cachedAt
  <2>1. CASE ConsumerStep
    BY <1>5, <2>1 DEF ConsumerStep, Stamped
  <2>2. CASE CacheStep
    <3>1. PICK k \in messages : Like(m, k)
      BY <1>5, <2>2, CacheStepLike, CommonAssumption
    <3> QED
      BY <1>5, <3>1 DEF Like, Stamped
  <2> QED
    BY <1>5, <2>1, <2>2
<1> QED
  BY <1>3, <1>4, <1>5, StepKinds DEF Stamped

\* A live entry survives a step, at most with its flags changed.
LEMMA LiveStays ==
  ASSUME Typed, CacheStep, NEW k \in messages, Live(k)
  PROVE  \E n \in messages' : RecordOf(n) = RecordOf(k)
<1>0. CacheTypeOK
  BY DEF Typed, TypeOK
<1>1. CASE messages' \subseteq messages /\ \A m \in messages : Live(m) => m \in messages'
  BY <1>1
<1>2. ASSUME NEW q, NEW payload, NEW ts, AddMessage(q, payload, 0, 0, ts)
      PROVE  k \in messages'
  BY <1>2 DEF AddMessage, Purge
<1>3. ASSUME NEW topic, NEW o, MarkConsumedByRules(topic, o)
      PROVE  \E n \in messages' : RecordOf(n) = RecordOf(k)
  <2>1. PICK n \in messages' : Like(n, k)
    BY <1>0, <1>3, MarkLike
  <2> QED
    BY <2>1 DEF Like, RecordOf
<1> QED
  BY <1>1, <1>2, <1>3 DEF CacheStep

Skips == LogOrdered /\ Stamped /\ NothingSkippedOnceCommitted

LEMMA SkipsInit == Init => Skips
  BY LogOrderedInit, StampedInit
     DEF Init, BrokersInit, Skips, NothingSkippedOnceCommitted

LEMMA SkipsNext ==
  ASSUME Typed, CacheFromLog, Skips, [Next]_vars PROVE Skips'
<1>0. LogOrdered /\ Stamped /\ NothingSkippedOnceCommitted /\ LogOrdered' /\ Stamped'
  BY LogOrderedNext, StampedNext DEF Skips
<1> SUFFICES ASSUME NEW r \in log', r.payload \notin Undecodable,
                    connected', committed'[SlotOf(r)] # NoOffset,
                    committed'[SlotOf(r)] <= r.offset, r.offset < position'[SlotOf(r)],
                    clock' < r.timestamp + TTL
             PROVE  \E n \in messages' : RecordOf(n) = r
  BY <1>0 DEF Skips, NothingSkippedOnceCommitted, SlotOf
<1>1. /\ Typed' /\ log \subseteq Record /\ log' \subseteq Record /\ messages \subseteq Entry
      /\ polled \subseteq Slots /\ clock \in Nat /\ clock' \in Nat /\ clock <= clock'
      /\ position \in [Slots -> Nat] /\ committed \in [Slots -> Nat \cup {NoOffset}]
      /\ logEnd \in [Slots -> Nat]
  BY TypedNext, ClockGrows DEF Typed, TypeOK, BrokersTypeOK, CacheTypeOK, KafkaListenerTypeOK
<1>2. r.offset \in Nat /\ r.timestamp \in Nat /\ SlotOf(r) \in Slots /\ TTL \in Nat \ {0}
  BY <1>1, SlotOfRecord, CacheAssumption DEF Record
<1>3. clock < r.timestamp + TTL
  BY <1>1, <1>2
\* What was delivered before is still there.
<1>4. ASSUME r \in log, connected, committed[SlotOf(r)] = committed'[SlotOf(r)],
             r.offset < position[SlotOf(r)]
      PROVE  \E k \in messages : RecordOf(k) = r /\ Live(k)
  <2>1. PICK k \in messages : RecordOf(k) = r
    BY <1>0, <1>3, <1>4 DEF NothingSkippedOnceCommitted, SlotOf
  <2>2. k.topic \in KafkaTopics /\ k.timestamp = r.timestamp
    BY <1>1, <1>4, <2>1 DEF RecordOf, Record
  <2>3. k.timestamp <= k.cachedAt /\ k.cachedAt \in Nat
    BY <1>0, <1>1, <2>2 DEF Stamped, Entry
  <2> QED
    BY <1>1, <1>2, <1>3, <2>1, <2>2, <2>3 DEF Live
<1>5. CASE ConsumerStep
  <2>1. CASE Connect
    BY <1>1, <1>2, <2>1 DEF Connect
  <2>2. CASE LoseConsumer
    BY <2>2 DEF LoseConsumer
  <2>3. CASE AutoCommit
    <3>1. SlotOf(r) \notin polled
      BY <1>1, <1>2, <2>3 DEF AutoCommit, Commit
    <3>2. committed'[SlotOf(r)] = committed[SlotOf(r)] /\ position' = position /\ connected
      BY <1>2, <2>3, <3>1 DEF AutoCommit, Commit
    <3> QED
      BY <1>4, <1>5, <3>2 DEF ConsumerStep
  <2> QED
    BY <1>5, <2>1, <2>2, <2>3 DEF ConsumerStep
<1>6. ASSUME NEW x \in log, Poll(x) PROVE \E n \in messages' : RecordOf(n) = r
  <2> DEFINE e == NewEntry(x.topic, x.payload, x.partition, x.offset, x.timestamp)
  <2>1. /\ IF x.payload \notin Undecodable THEN messages' = Purge(messages \cup {e}, x.topic)
                                             ELSE messages' = messages
        /\ UNCHANGED <<log, committed, connected>> /\ connected
        /\ position[SlotOf(x)] = x.offset
        /\ position' = [position EXCEPT ![SlotOf(x)] = x.offset + 1]
    BY <1>6 DEF Poll, CacheRecord, cacheVars, AddMessage, SlotOf, brokerVars
  <2>2. x \in Record /\ x.offset \in Nat
    BY <1>1 DEF Record
  <2>3. RecordOf(e) = x /\ e.cachedAt = clock
    BY <2>2 DEF NewEntry, RecordOf, Record
  <2> HIDE DEF e
  <2>4. CASE r = x
    <3>1. e \in messages'
      BY <1>1, <1>2, <2>1, <2>3, <2>4 DEF Purge, Live
    <3> QED
      BY <2>3, <2>4, <3>1
  <2>5. CASE r # x
    <3>1. r.offset < position[SlotOf(r)]
      <4>1. CASE SlotOf(r) = SlotOf(x)
        <5>1. r.offset # x.offset
          BY <1>0, <2>1, <2>5, <4>1 DEF LogOrdered
        <5>2. r.offset < x.offset + 1
          BY <1>1, <1>2, <2>1, <4>1
        <5> QED
          BY <1>2, <2>1, <2>2, <4>1, <5>1, <5>2
      <4>2. CASE SlotOf(r) # SlotOf(x)
        BY <1>1, <1>2, <2>1, <4>2
      <4> QED
        BY <4>1, <4>2
    <3>2. PICK k \in messages : RecordOf(k) = r /\ Live(k)
      BY <1>4, <2>1, <3>1
    <3> QED
      BY <2>1, <3>2 DEF Purge
  <2> QED
    BY <2>4, <2>5
<1>7. CASE UNCHANGED consumerVars /\ LogStep /\ CacheStep
  <2>1. position' = position /\ committed' = committed /\ connected' = connected
    BY <1>7 DEF consumerVars
  <2>2. r \in log
    <3> SUFFICES ASSUME r \notin log PROVE FALSE
      OBVIOUS
    <3>1. r.offset = logEnd[SlotOf(r)]
      BY <1>7, NewRecord
    <3> QED
      BY <1>0, <1>1, <1>2, <2>1, <3>1 DEF LogOrdered
  <2>3. PICK k \in messages : RecordOf(k) = r /\ Live(k)
    BY <1>4, <2>1, <2>2
  <2> QED
    BY <1>7, <2>3, LiveStays
<1> QED
  BY <1>5, <1>6, <1>7, StepKinds

\* Once the group has committed an offset of a partition, every record between
\* that offset and the position of the connected consumer that can be decoded and
\* is younger than the TTL is in the cache, for any number of losses of the consumer, whether or
\* not its close managed to commit.
THEOREM CommittedSkipsNothing == Spec => []NothingSkippedOnceCommitted
<1>1. Init => CacheFromLog
  BY SoundInit DEF Sound
<1>2. Typed /\ CacheFromLog /\ [Next]_vars => CacheFromLog'
  BY CacheStaysKnown
<1>3. Typed /\ CacheFromLog /\ Skips /\ [Next]_vars => Skips'
  BY SkipsNext
<1>4. Skips => NothingSkippedOnceCommitted
  BY DEF Skips
<1> QED
  BY <1>1, <1>2, <1>3, <1>4, SkipsInit, TypedInvariant, PTL DEF Spec

-----------------------------------------------------------------------------
(* The flag "consumed by the rules".                                       *)

\* The message the listener works on is in the log, and it sends outputs of, or
\* marks, only a message that a rule has accepted.
Accepted(m) == Matching(KafkaRules[m.topic], m.payload) # {}
WorksOnRecord ==
    /\ kl.pc # "poll" => kl.msg \in log
    /\ kl.pc \in {"output", "duplicate", "mark"} => Accepted(kl.msg)

LEMMA WorksOnRecordInit == Init => WorksOnRecord
  BY DEF Init, KafkaListenerInit, Idle, WorksOnRecord

LEMMA WorksOnRecordNext ==
  ASSUME Typed, WorksOnRecord, [Next]_vars PROVE WorksOnRecord'
<1>0. log \subseteq log'
  BY LogGrows
<1>1. \A x, n, o, d, p :
         /\ [kl EXCEPT !.pc = x].msg = kl.msg
         /\ [kl EXCEPT !.rule = n, !.out = o, !.pc = x].msg = kl.msg
         /\ [kl EXCEPT !.dest = d, !.payload = p, !.pc = x, !.out = o].msg = kl.msg
  BY DEF Typed, TypeOK, KafkaListenerTypeOK
<1>2. CASE UNCHANGED kl
  BY <1>0, <1>2 DEF WorksOnRecord, Accepted
<1>3. ASSUME NEW r \in log, Poll(r) PROVE WorksOnRecord'
  <2>1. kl'.pc = "poll" \/ (kl'.msg = r /\ kl'.pc = "notify")
    BY <1>3 DEF Poll, CacheRecord, Typed, TypeOK, KafkaListenerTypeOK
  <2> QED
    BY <1>0, <2>1 DEF WorksOnRecord
<1>4. CASE Notify
  <2>1. kl'.pc = "match" /\ kl'.msg = kl.msg /\ kl.pc = "notify"
    BY <1>1, <1>4 DEF Notify, Typed, TypeOK, KafkaListenerTypeOK
  <2> QED
    BY <1>0, <2>1 DEF WorksOnRecord
<1>5. CASE Match
  <2>1. CASE kl' = Idle
    BY <2>1 DEF Idle, WorksOnRecord
  <2>2. CASE kl' # Idle
    <3>1. PICK i \in Matching(KafkaRules[kl.msg.topic], kl.msg.payload) : \E x :
             kl' = [kl EXCEPT !.rule = i, !.out = 1, !.pc = x]
      BY <1>5, <2>2 DEF Match
    <3>2. Accepted(kl.msg) /\ kl'.msg = kl.msg
      BY <1>1, <3>1 DEF Accepted
    <3> QED
      BY <1>0, <1>5, <3>2 DEF Match, WorksOnRecord, Accepted
  <2> QED
    BY <2>1, <2>2
<1>6. CASE DropOutput \/ SendOutput \/ Duplicate
  <2>1. kl.pc \in {"output", "duplicate"}
    BY <1>6 DEF DropOutput, SendOutput, Duplicate
  <2>2. \A d, p : NextOutput(d, p).msg = kl.msg
    BY <1>1 DEF NextOutput
  <2>3. kl'.msg = kl.msg
    <3>1. CASE DropOutput \/ Duplicate
      BY <2>2, <3>1 DEF DropOutput, Duplicate
    <3>2. CASE SendOutput
      <4> DEFINE o == Outputs[kl.out]
                 dest == IF o.type \in {"http", "db"} THEN kl.dest ELSE o.dest
      <4>1. PICK p : \/ kl' = NextOutput(dest, p)
                     \/ kl' = [kl EXCEPT !.dest = dest, !.payload = p, !.pc = "duplicate"]
        BY <3>2 DEF SendOutput
      <4> HIDE DEF dest
      <4>2. [kl EXCEPT !.dest = dest, !.payload = p, !.pc = "duplicate"].msg = kl.msg
        BY DEF Typed, TypeOK, KafkaListenerTypeOK
      <4> QED
        BY <2>2, <4>1, <4>2
    <3> QED
      BY <1>6, <3>1, <3>2
  <2> QED
    BY <1>0, <2>1, <2>3 DEF WorksOnRecord, Accepted
<1>7. CASE Mark
  BY <1>7 DEF Mark, Idle, WorksOnRecord
<1>8. \/ UNCHANGED kl \/ (\E r \in log : Poll(r))
      \/ Notify \/ Match \/ DropOutput \/ SendOutput \/ Duplicate \/ Mark
  BY DEF Next, vars, kafkaListenerVars, ConsumerHazards, AutoCommit, LoseConsumer, Receive,
         Connect, ApplyRules, ListenerStep, JMSThread, QueueControl, JMSFrame, Start, Proceed,
         TestFrame, CleanupThread, SystemSends, Time
<1> QED
  BY <1>2, <1>3, <1>4, <1>5, <1>6, <1>7, <1>8

\* Only the two listeners set the flag.
LEMMA FlagSteps ==
  ASSUME Typed, [Next]_vars
  PROVE  \/ Mark
         \/ MarkJMS
         \/ \A m \in messages' : m.byRules => m \in messages
<1> DEFINE Unflagged == \A m \in messages' : m.byRules => m \in messages
<1>a. ASSUME NEW topic, NEW payload, NEW p, NEW o, NEW ts, AddMessage(topic, payload, p, o, ts)
      PROVE  Unflagged
  <2> DEFINE e == NewEntry(topic, payload, p, o, ts)
  <2>1. messages' \subseteq messages \cup {e}
    BY <1>a DEF AddMessage, Purge
  <2>2. e.byRules = FALSE
    BY DEF NewEntry
  <2> HIDE DEF e
  <2> QED
    BY <2>1, <2>2
<1>b. ASSUME messages' \subseteq messages PROVE Unflagged
  BY <1>b
<1> HIDE DEF Unflagged
<1>1. ASSUME UNCHANGED vars PROVE Unflagged
  BY <1>1, <1>b DEF vars, cacheVars
<1>2. ASSUME ConsumerHazards \/ Receive PROVE Unflagged
  BY <1>2, <1>a, <1>b DEF ConsumerHazards, Receive, Poll, CacheRecord, cacheVars
<1>3. ASSUME ApplyRules, ~Mark PROVE Unflagged
  BY <1>3, <1>b
     DEF ApplyRules, ListenerStep, Notify, NotifyAll, Match, DropOutput, SendOutput, Duplicate,
         cacheVars
<1>4. ASSUME JMSThread \/ QueueControl, ~MarkJMS PROVE Unflagged
  BY <1>4, <1>a, <1>b
     DEF JMSThread, QueueControl, PauseQueue, ResumeQueue, ChooseQueue, JMSListenerStep,
         GetMessages, TakeMessage, NotifyTaken, NotifyAll, MatchJMS, LoseJMSOutput,
         PutJMSOutput, CacheJMSOutput, NotifyJMSOutput, SendJMSOutput, cacheVars
<1>5. ASSUME \E t \in Tests : Start(t) \/ Proceed(t) PROVE Unflagged
  BY <1>5, <1>b
     DEF Start, StartTest, Proceed, TestStep, DropInjection, Inject, ResendInjection,
         InjectFails, Collect, PurgeTopic, Purge, GiveUp, BeginWait, BeginWaiting, EndWait,
         EndWaiting, cacheVars
<1>6. ASSUME CleanupThread \/ SystemSends \/ Time PROVE Unflagged
  BY <1>6, <1>b DEF CleanupThread, CleanupAllExpired, SystemSends, Time, cacheVars
<1> QED
  BY <1>1, <1>2, <1>3, <1>4, <1>5, <1>6 DEF Next, Unflagged

\* New entries have new ids.
LEMMA NewIds ==
  ASSUME Typed, [Next]_vars
  PROVE  /\ nextId \in Nat /\ nextId' \in Nat /\ nextId <= nextId'
         /\ \A n \in messages' : (\E k \in messages : Like(n, k)) \/ n.id = nextId
<1>1. nextId \in Nat
  BY DEF Typed, TypeOK, CacheTypeOK
<1>2. CASE ConsumerStep
  BY <1>1, <1>2 DEF ConsumerStep, Like
<1>3. ASSUME NEW r \in log, Poll(r)
      PROVE  /\ nextId' \in {nextId, nextId + 1}
             /\ \A n \in messages' : n \in messages \/ n.id = nextId
  BY <1>3 DEF Poll, CacheRecord, cacheVars, AddMessage, Purge, NewEntry
<1>4. CASE CacheStep
  BY <1>1, <1>4, CacheStepLike
<1> QED
  BY <1>1, <1>2, <1>3, <1>4, StepKinds DEF Like

\* The JMS listener works on a queue that has rules.
OnPolled == jl.pc # "idle" => jl.queue \in Polled

LEMMA OnPolledNext ==
  ASSUME Typed, OnPolled, [Next]_vars PROVE OnPolled'
<1>1. CASE UNCHANGED jl
  BY <1>1 DEF OnPolled
<1>2. ASSUME NEW q \in Queues, ChooseQueue(q) PROVE OnPolled'
  BY <1>2 DEF ChooseQueue, OnPolled, Typed, TypeOK, JMSListenerTypeOK
<1>3. ASSUME JMSListenerStep PROVE OnPolled'
  <2>1. jl.pc # "idle" /\ (jl' = JIdle \/ jl'.queue = jl.queue)
    <3>1. \A x, n, o, p, y :
             /\ [jl EXCEPT !.pc = x].queue = jl.queue
             /\ [jl EXCEPT !.pc = x, !.out = o].queue = jl.queue
             /\ [jl EXCEPT !.rule = n, !.out = o, !.pc = x].queue = jl.queue
             /\ [jl EXCEPT !.pc = x, !.batch = y, !.payload = p].queue = jl.queue
             /\ [JIdle EXCEPT !.pc = x, !.queue = jl.queue, !.batch = y].queue = jl.queue
      BY DEF Typed, TypeOK, JMSListenerTypeOK, JIdle
    <3>2. \A batch : NextMessage(batch) = JIdle \/ NextMessage(batch).queue = jl.queue
      BY <3>1 DEF NextMessage
    <3>3. NextJMSOutput.queue = jl.queue
      BY <3>1 DEF NextJMSOutput
    <3>4. CASE GetMessages \/ MarkJMS
      BY <3>2, <3>4 DEF GetMessages, MarkJMS
    <3>a. CASE TakeMessage \/ NotifyTaken
      BY <3>a DEF TakeMessage, NotifyTaken, Typed, TypeOK, JMSListenerTypeOK
    <3>5. CASE MatchJMS
      <4>1. CASE jl' = NextMessage(jl.batch)
        BY <3>2, <3>5, <4>1 DEF MatchJMS
      <4>2. ASSUME NEW i, NEW x, jl' = [jl EXCEPT !.rule = i, !.out = 1, !.pc = x]
            PROVE  jl'.queue = jl.queue
        BY <3>1, <4>2
      <4> QED
        BY <3>5, <4>1, <4>2 DEF MatchJMS
    <3>6. CASE LoseJMSOutput \/ PutJMSOutput \/ CacheJMSOutput \/ NotifyJMSOutput \/ SendJMSOutput
      BY <3>1, <3>3, <3>6
         DEF LoseJMSOutput, PutJMSOutput, CacheJMSOutput, NotifyJMSOutput, SendJMSOutput
    <3> QED
      BY <1>3, <3>4, <3>a, <3>5, <3>6 DEF JMSListenerStep
  <2> QED
    BY <2>1 DEF OnPolled, JIdle
<1>4. UNCHANGED jl \/ JMSListenerStep \/ \E q \in Queues : ChooseQueue(q)
  BY DEF Next, vars, jmsListenerVars, ConsumerHazards, Receive, ApplyRules, KafkaFrame, JMSThread,
         QueueControl, PauseQueue, ResumeQueue, Start, Proceed, TestFrame, CleanupThread,
         SystemSends, Time
<1> QED
  BY <1>1, <1>2, <1>3, <1>4

Flagging == WorksOnRecord /\ OnPolled /\ ConsumedFlagSound

\* Setting the flag of the oldest entry of a topic and offset.
LEMMA MarkFlags ==
  ASSUME CacheTypeOK, ConsumedFlagSound, NEW topic, NEW o, MarkConsumedByRules(topic, o),
         log' = log,
         topic \in KafkaTopics =>
            \E r \in log : /\ r.topic = topic /\ r.offset = o
                          /\ Matching(KafkaRules[topic], r.payload) # {},
         topic \in Queues => topic \in Polled
  PROVE  ConsumedFlagSound'
<1>1. CASE messages' = messages
  BY <1>1 DEF ConsumedFlagSound, SameKey
<1>2. ASSUME NEW m \in messages, FirstWithOffset(m, topic, o),
             messages' = (messages \ {m}) \cup {[m EXCEPT !.byRules = TRUE]}
      PROVE  ConsumedFlagSound'
  <2> DEFINE f == [m EXCEPT !.byRules = TRUE]
  <2>1. f.id = m.id /\ f.topic = topic /\ f.offset = o /\ m.topic = topic /\ m.offset = o
    BY <1>2 DEF CacheTypeOK, Entry, FirstWithOffset
  <2> HIDE DEF f
  <2>2. \A n \in messages' : \E k \in messages : n.id = k.id /\ n.topic = k.topic /\ n.offset = k.offset
    BY <1>2, <2>1 DEF f
  <2>3. \A n \in messages' : SameKey(f, n) => f.id <= n.id
    BY <1>2, <2>1, <2>2 DEF SameKey, FirstWithOffset
  <2>4. ASSUME NEW n \in messages', n.byRules, n # f
        PROVE  /\ \A k \in messages' : SameKey(n, k) => n.id <= k.id
               /\ n.topic \in KafkaTopics =>
                     \E r \in log : SameKey(n, r) /\ Matching(KafkaRules[n.topic], r.payload) # {}
               /\ n.topic \in Queues => n.topic \in Polled
    <3>1. n \in messages
      BY <1>2, <2>4 DEF f
    <3> QED
      BY <2>2, <2>4, <3>1 DEF ConsumedFlagSound, SameKey
  <2> QED
    BY <2>1, <2>3, <2>4 DEF ConsumedFlagSound, SameKey
<1> QED
  BY <1>1, <1>2 DEF MarkConsumedByRules

LEMMA FlaggingNext ==
  ASSUME Typed, InOrder, Flagging, [Next]_vars PROVE Flagging'
<1>0. CacheTypeOK /\ log \subseteq log'
  BY LogGrows DEF Typed, TypeOK
<1>1. WorksOnRecord' /\ OnPolled'
  BY WorksOnRecordNext, OnPolledNext DEF Flagging
<1>2. CASE \A m \in messages' : m.byRules => m \in messages
  <2> SUFFICES ASSUME NEW m \in messages, m.byRules, m \in messages', NEW n \in messages',
                      SameKey(m, n)
               PROVE  m.id <= n.id
    BY <1>0, <1>1, <1>2 DEF Flagging, ConsumedFlagSound
  <2>1. (\E k \in messages : Like(n, k)) \/ n.id = nextId
    BY NewIds
  <2>2. m.id \in Nat /\ m.id < nextId /\ nextId \in Nat
    BY <1>0 DEF CacheTypeOK, Entry, InOrder, Arrived
  <2> QED
    BY <2>1, <2>2 DEF Flagging, ConsumedFlagSound, SameKey, Like
<1>3. CASE MarkJMS
  <2>1. jl.queue \in Queues /\ jl.queue \in Polled /\ jl.queue \notin KafkaTopics
    BY <1>3, CommonAssumption
       DEF MarkJMS, Flagging, OnPolled, Polled
  <2> QED
    BY <1>0, <1>1, <1>3, <2>1, MarkFlags DEF MarkJMS, Flagging, brokerVars
<1>4. CASE Mark
  <2>1. /\ kl.msg \in log /\ kl.msg.topic \in KafkaTopics /\ Accepted(kl.msg)
    BY <1>4 DEF Mark, Flagging, WorksOnRecord, Typed, TypeOK, BrokersTypeOK, Record
  <2>2. kl.msg.topic \notin Queues
    BY <2>1, CommonAssumption
  <2> QED
    BY <1>0, <1>1, <1>4, <2>1, <2>2, MarkFlags DEF Mark, Flagging, Accepted, brokerVars
<1> QED
  BY <1>1, <1>2, <1>3, <1>4, FlagSteps

\* The flag "consumed by the rules" is found again by topic and offset only: for
\* any number of partitions and queues it lands on the oldest entry with these,
\* of a topic some record of which at this offset is accepted by a rule, or of a
\* queue that has rules.
THEOREM FlagIsSound == Spec => []ConsumedFlagSound
<1>1. Init => CacheFromLog
  BY SoundInit DEF Sound
<1>2. Typed /\ CacheFromLog /\ [Next]_vars => CacheFromLog'
  BY CacheStaysKnown
<1>3. Init => Flagging
  BY WorksOnRecordInit
     DEF Flagging, Init, CacheInit, JMSListenerInit, JIdle, OnPolled, ConsumedFlagSound
<1>4. Typed /\ CacheFromLog /\ InOrder /\ [Next]_vars => InOrder'
  BY InOrderNext
<1>5. Typed /\ InOrder /\ Flagging /\ [Next]_vars => Flagging'
  BY FlaggingNext
<1>6. Flagging => ConsumedFlagSound
  BY DEF Flagging
<1> QED
  BY <1>1, <1>2, <1>3, <1>4, <1>5, <1>6, InOrderInit, TypedInvariant, PTL DEF Spec

-----------------------------------------------------------------------------
(* What an expectation passes over.                                        *)

\* Test t in state r, while it looks for its expectation: its seen keys name
\* records of the log; none of those is wanted; and each entry that was cached
\* before the last read and is recent enough has its key among them.
LooksWell(t, r) ==
    LET e == Expectations[t][r.exp] IN
    /\ r.seenId <= nextId
    /\ e.dest \in KafkaTopics =>
        /\ \A k \in r.seen : \E x \in log : x.topic = e.dest /\ Key(x) = k
        /\ \A x \in log : /\ x.topic = e.dest /\ Key(x) \in r.seen
                          /\ x.timestamp >= r.start - Margin
                          => x.payload \notin e.wanted
        /\ \A m \in messages : /\ m.id < r.seenId /\ m.topic = e.dest
                               /\ m.timestamp >= r.start - Margin
                               => Key(m) \in r.seen
Searching(r)   == r.pc \in {"collect", "read", "waiting"}
PassesNone(t, r) == Searching(r) => LooksWell(t, r)
AllPassNone == \A t \in Tests : PassesNone(t, run[t])

LEMMA PassNoneIsProperty ==
  ASSUME CacheFromLog, AllPassNone PROVE NoTopicMessagePassedOver
<1> SUFFICES ASSUME NEW t \in Tests, Searching(run[t]), Expected(t).dest \in KafkaTopics,
                    NEW m \in messages, m.id < run[t].seenId, m.topic = Expected(t).dest,
                    InWindow(t, m), m.payload \in Expected(t).wanted
             PROVE  FALSE
  BY DEF NoTopicMessagePassedOver, Searching
<1>1. LooksWell(t, run[t])
  BY DEF AllPassNone, PassesNone
<1>2. RecordOf(m) \in log
  BY DEF CacheFromLog
<1>3. /\ RecordOf(m).topic = m.topic /\ Key(RecordOf(m)) = Key(m)
      /\ RecordOf(m).timestamp = m.timestamp /\ RecordOf(m).payload = m.payload
  BY DEF RecordOf, Key
<1> QED
  BY <1>1, <1>2, <1>3 DEF LooksWell, Expected, InWindow, Since

LEMMA PassNoneInit == Init => AllPassNone
  BY DEF Init, TestExecutorInit, NotStarted, AllPassNone, PassesNone, Searching

\* What others do to the log and the cache hides nothing from a test.
LEMMA OthersHideNothing ==
  ASSUME Typed, LogOrdered', [Next]_vars, NEW t \in Tests, NEW r \in RunType, LooksWell(t, r)
  PROVE  LooksWell(t, r)'
<1> DEFINE e == Expectations[t][r.exp]
<1>1. /\ nextId \in Nat /\ nextId' \in Nat /\ nextId <= nextId'
      /\ \A n \in messages' : (\E k \in messages : Like(n, k)) \/ n.id = nextId
  BY NewIds
<1>2. r.seenId \in Nat /\ r.seenId <= nextId /\ log \subseteq log' /\ log' \subseteq Record
  BY LogGrows, TypedNext DEF RunType, LooksWell, Typed, TypeOK, BrokersTypeOK
<1>3. r.seenId <= nextId'
  BY <1>1, <1>2
<1>4. ASSUME e.dest \in KafkaTopics, NEW x \in log', x.topic = e.dest, Key(x) \in r.seen
      PROVE  x \in log
  <2>1. PICK y \in log : y.topic = e.dest /\ Key(y) = Key(x)
    BY <1>4 DEF LooksWell
  <2>2. y \in log' /\ SlotOf(y) = SlotOf(x) /\ y.offset = x.offset
    BY <1>2, <1>4, <2>1 DEF SlotOf, Key
  <2> QED
    BY <2>1, <2>2 DEF LogOrdered
<1>5. ASSUME e.dest \in KafkaTopics, NEW m \in messages', m.id < r.seenId, m.topic = e.dest,
             m.timestamp >= r.start - Margin
      PROVE  Key(m) \in r.seen
  <2>1. m.id # nextId
    BY <1>1, <1>2, <1>5
  <2>2. PICK k \in messages : Like(m, k)
    BY <1>1, <2>1
  <2> QED
    BY <1>5, <2>2 DEF Like, Key, LooksWell
<1> QED
  BY <1>2, <1>3, <1>4, <1>5 DEF LooksWell

\* A test that turns to another expectation has seen nothing yet.
LEMMA ExpectingFresh ==
  ASSUME NEW t, NEW r \in RunType, NEW n
  PROVE  Expecting(r, t, n).seen = {} /\ Expecting(r, t, n).seenId = 0
  BY DEF Expecting, RunType

LEMMA ConcludedFresh ==
  ASSUME NEW t, run[t] \in RunType, NEW hits
  PROVE  Concluded(t, hits).seen = {} /\ Concluded(t, hits).seenId = 0
  BY DEF Concluded, Expecting, RunType

LEMMA InjectedPassesNone ==
  ASSUME Typed, CacheTypeOK', NEW t \in Tests, run' = Injected(t)
  PROVE  \E r : run' = [run EXCEPT ![t] = r] /\ PassesNone(t, r)'
<1>1. run[t] \in RunType /\ run[t].inj + 1 \in Nat
  BY DEF Typed, TypeOK, TestsTyped, TestTyped, RunType
<1>2. PICK e \in RunType : e = [run[t] EXCEPT !.resend = Poison]
  BY <1>1, RulesAssumption DEF RunType
<1>3. PICK n \in Nat : n = run[t].inj + 1
  BY <1>1
<1>4. PICK r : r = Injecting(e, t, n)
  OBVIOUS
<1>5. run' = [run EXCEPT ![t] = r]
  BY <1>2, <1>3, <1>4 DEF Injected
<1>6. CASE n <= Len(Injections[t])
  <2>1. r.pc = "inject"
    BY <1>4, <1>6 DEF Injecting, RunType
  <2> QED
    BY <1>5, <2>1 DEF PassesNone, Searching
<1>7. CASE ~(n <= Len(Injections[t]))
  <2>1. PICK i \in RunType : i = [e EXCEPT !.inj = n]
    BY DEF RunType
  <2>2. r = Expecting(i, t, 1)
    BY <1>4, <1>7, <2>1 DEF Injecting
  <2>3. r.seen = {} /\ r.seenId = 0
    BY <2>1, <2>2, ExpectingFresh
  <2>4. LooksWell(t, r)'
    BY <2>3 DEF CacheTypeOK, Entry, LooksWell
  <2> QED
    BY <1>5, <2>4 DEF PassesNone
<1> QED
  BY <1>6, <1>7

\* Of the messages that a read finds under one key, one is evaluated.
LEMMA Smallest ==
  ASSUME NEW S, S \subseteq Nat, S # {} PROVE \E x \in S : \A y \in S : x <= y
<1>1. \E x \in S : \A y \in S : ~ (<<y, x>> \in OpToRel(<, Nat))
  BY NatLessThanWellFounded, WFMin
<1>2. ASSUME NEW x \in S, NEW y \in S, ~ (<<y, x>> \in OpToRel(<, Nat)) PROVE x <= y
  BY <1>2 DEF OpToRel
<1> QED
  BY <1>1, <1>2

LEMMA CollectPassesNone ==
  ASSUME Typed, CacheFromLog, LogOrdered, Stamped, AllPassNone,
         NEW t \in Tests, Collect(t), Hits(t) = {}
  PROVE  \E r : run' = [run EXCEPT ![t] = r] /\ PassesNone(t, r)'
<1>1. /\ run[t] \in RunType /\ messages \subseteq Entry /\ nextId \in Nat /\ clock \in Nat
      /\ log \subseteq Record
  BY DEF Typed, TypeOK, TestsTyped, TestTyped, CacheTypeOK, BrokersTypeOK
<1>2. LooksWell(t, run[t]) /\ UNCHANGED <<log, nextId>> /\ messages' = Purge(messages, Expected(t).dest)
  BY DEF Collect, PurgeTopic, AllPassNone, PassesNone, Searching, brokerVars
<1>3. PICK b : b = run[t].seen \cup {Key(m) : m \in Batch(t)}
  OBVIOUS
<1>4. PICK x : x = nextId
  OBVIOUS
<1>5. PICK r : r = [run[t] EXCEPT !.pc = "read", !.seenId = x, !.seen = b]
  OBVIOUS
<1>6. run' = [run EXCEPT ![t] = r]
  BY <1>3, <1>4, <1>5 DEF Collect
<1>7. r.seen = b /\ r.seenId = nextId /\ r.start = run[t].start /\ r.exp = run[t].exp
  BY <1>1, <1>4, <1>5 DEF RunType
<1>8. Expectations[t][r.exp] = Expected(t)
  BY <1>7 DEF Expected
<1>9. PICK e : e = Expected(t)
  OBVIOUS
<1>a. Since(t) = r.start - Margin /\ Since(t) \in Int
  BY <1>1, <1>7, TestExecutorAssumption DEF Since, RunType
<1>b. \A m \in Batch(t) : m \in messages /\ m.topic = e.dest
  BY <1>9 DEF Batch, Cached
\* What is under a key of the batch is one record.
<1>c. ASSUME e.dest \in KafkaTopics, NEW m \in messages, m.topic = e.dest,
             NEW y \in log, y.topic = e.dest, Key(m) = Key(y)
      PROVE  RecordOf(m) = y
  <2>1. RecordOf(m) \in log
    BY <1>c DEF CacheFromLog
  <2>2. SlotOf(RecordOf(m)) = SlotOf(y) /\ RecordOf(m).offset = y.offset
    BY <1>c DEF SlotOf, RecordOf, Key
  <2> QED
    BY <2>1, <2>2 DEF LogOrdered
<1>d. ASSUME e.dest \in KafkaTopics, NEW k \in b PROVE \E y \in log : y.topic = e.dest /\ Key(y) = k
  <2>1. CASE k \in run[t].seen
    BY <1>2, <1>9, <1>d, <2>1 DEF LooksWell, Expected
  <2>2. CASE k \notin run[t].seen
    <3>1. PICK m \in Batch(t) : k = Key(m)
      BY <1>3, <2>2
    <3>2. RecordOf(m) \in log
      BY <1>b, <1>d DEF CacheFromLog
    <3> QED
      BY <1>b, <3>1, <3>2 DEF RecordOf, Key
  <2> QED
    BY <2>1, <2>2
<1>e. ASSUME e.dest \in KafkaTopics, NEW y \in log, y.topic = e.dest, Key(y) \in b,
             y.timestamp >= r.start - Margin
      PROVE  y.payload \notin e.wanted
  <2>1. CASE Key(y) \in run[t].seen
    BY <1>2, <1>7, <1>9, <1>e, <2>1 DEF LooksWell, Expected
  <2>2. CASE Key(y) \notin run[t].seen
    <3> DEFINE S == {m.id : m \in {n \in Batch(t) : Key(n) = Key(y)}}
    <3>1. S \subseteq Nat /\ S # {}
      BY <1>1, <1>3, <1>b, <1>e, <2>2 DEF Entry
    <3>2. PICK i \in S : \A j \in S : i <= j
      BY <3>1, Smallest
    <3>3. PICK m \in Batch(t) : Key(m) = Key(y) /\ m.id = i
      BY <3>2
    <3>4. \A n \in Batch(t) : Key(n) = Key(m) => m.id <= n.id
      BY <3>2, <3>3
    <3> HIDE DEF S
    <3>5. m \in Evaluated(t)
      BY <2>2, <3>3, <3>4 DEF Evaluated
    <3>6. RecordOf(m) = y
      BY <1>b, <1>c, <1>e, <3>3
    <3>7. m.timestamp = y.timestamp /\ m.payload = y.payload
      BY <3>6 DEF RecordOf
    <3> QED
      BY <1>9, <1>a, <1>e, <3>5, <3>7 DEF Hits
  <2> QED
    BY <2>1, <2>2
<1>f. ASSUME e.dest \in KafkaTopics, NEW m \in messages', m.topic = e.dest,
             m.timestamp >= r.start - Margin
      PROVE  Key(m) \in b
  <2>1. m \in messages /\ Live(m)
    BY <1>2, <1>9, <1>f DEF Purge
  <2>2. m.cachedAt >= Since(t)
    <3>1. m.timestamp \in Nat /\ m.cachedAt \in Nat /\ m.timestamp <= m.cachedAt
      BY <1>1, <1>f, <2>1 DEF Entry, Stamped
    <3> QED
      BY <1>a, <1>f, <3>1
  <2>3. m \in Batch(t)
    BY <1>9, <1>f, <2>1, <2>2 DEF Batch, Cached
  <2> QED
    BY <1>3, <2>3
<1>g. LooksWell(t, r)'
  BY <1>1, <1>2, <1>4, <1>7, <1>8, <1>9, <1>d, <1>e, <1>f DEF LooksWell
<1> QED
  BY <1>6, <1>g DEF PassesNone

LEMMA ConcludedPassesNone ==
  ASSUME Typed, CacheTypeOK', NEW t \in Tests, NEW hits, run' = [run EXCEPT ![t] = Concluded(t, hits)]
  PROVE  \E r : run' = [run EXCEPT ![t] = r] /\ PassesNone(t, r)'
<1>1. run[t] \in RunType
  BY DEF Typed, TypeOK, TestsTyped, TestTyped
<1>2. PICK r : r = Concluded(t, hits)
  OBVIOUS
<1>3. r.seen = {} /\ r.seenId = 0
  BY <1>1, <1>2, ConcludedFresh
<1>4. LooksWell(t, r)'
  BY <1>3 DEF CacheTypeOK, Entry, LooksWell
<1> QED
  BY <1>2, <1>4 DEF PassesNone

LEMMA ProceedPassesNone ==
  ASSUME Typed, CacheFromLog, LogOrdered, Stamped, AllPassNone, [Next]_vars,
         NEW t \in Tests, Proceed(t)
  PROVE  \E r : run' = [run EXCEPT ![t] = r] /\ PassesNone(t, r)'
<1>1. run[t] \in RunType /\ CacheTypeOK'
  BY TypedNext DEF Typed, TypeOK, TestsTyped, TestTyped
<1>2. CASE run' = Injected(t)
  BY <1>1, <1>2, InjectedPassesNone
<1>3. ASSUME NEW p, run' = [run EXCEPT ![t].pc = "resend", ![t].resend = p]
      PROVE  \E r : run' = [run EXCEPT ![t] = r] /\ PassesNone(t, r)'
  <2>1. PICK r : r = [run[t] EXCEPT !.pc = "resend", !.resend = p]
    OBVIOUS
  <2>2. run' = [run EXCEPT ![t] = r] /\ r.pc = "resend"
    BY <1>1, <1>3, <2>1 DEF RunType
  <2> QED
    BY <2>2 DEF PassesNone, Searching
<1>4. CASE InjectFails(t)
  <2>1. PICK r : r = [run[t] EXCEPT !.pc = "done", !.resend = Poison]
    OBVIOUS
  <2>2. run' = [run EXCEPT ![t] = r] /\ r.pc = "done"
    BY <1>1, <1>4, <2>1 DEF InjectFails, RunType
  <2> QED
    BY <2>2 DEF PassesNone, Searching
<1>5. CASE Collect(t)
  <2>1. CASE Hits(t) # {}
    <3>1. run' = [run EXCEPT ![t] = Concluded(t, Hits(t))]
      BY <1>5, <2>1 DEF Collect
    <3> QED
      BY <1>1, <3>1, ConcludedPassesNone
  <2> QED
    BY <1>5, <2>1, CollectPassesNone
<1>6. CASE GiveUp(t)
  BY <1>1, <1>6, ConcludedPassesNone DEF GiveUp
<1>7. ASSUME BeginWait(t) \/ EndWait(t)
      PROVE  \E r : run' = [run EXCEPT ![t] = r] /\ PassesNone(t, r)'
  <2>1. PICK r : /\ run' = [run EXCEPT ![t] = r] /\ r.seen = run[t].seen
                 /\ r.seenId = run[t].seenId /\ r.exp = run[t].exp /\ r.start = run[t].start
    <3>1. CASE BeginWait(t)
      <4>1. PICK u : u = Min2(clock + PollWait, run[t].deadline)
        OBVIOUS
      <4>2. PICK r : r = [run[t] EXCEPT !.pc = "waiting", !.until = u]
        OBVIOUS
      <4>3. run' = [run EXCEPT ![t] = r]
        BY <3>1, <4>1, <4>2 DEF BeginWait
      <4>4. /\ r.seen = run[t].seen /\ r.seenId = run[t].seenId
            /\ r.exp = run[t].exp /\ r.start = run[t].start
        BY <1>1, <4>2 DEF RunType
      <4> QED
        BY <4>3, <4>4
    <3>2. CASE EndWait(t)
      <4>1. PICK r : r = [run[t] EXCEPT !.pc = "collect", !.until = 0]
        OBVIOUS
      <4>2. run' = [run EXCEPT ![t] = r]
        BY <3>2, <4>1 DEF EndWait
      <4>3. /\ r.seen = run[t].seen /\ r.seenId = run[t].seenId
            /\ r.exp = run[t].exp /\ r.start = run[t].start
        BY <1>1, <4>1 DEF RunType
      <4> QED
        BY <4>2, <4>3
    <3> QED
      BY <1>7, <3>1, <3>2
  <2>2. LooksWell(t, run[t]) /\ UNCHANGED <<messages, nextId, log>>
    BY <1>7
       DEF BeginWait, BeginWaiting, EndWait, EndWaiting, AllPassNone, PassesNone, Searching,
           brokerVars
  <2>3. LooksWell(t, r)'
    BY <2>1, <2>2 DEF LooksWell
  <2> QED
    BY <2>1, <2>3 DEF PassesNone
<1> QED
  BY <1>2, <1>3, <1>4, <1>5, <1>6, <1>7
     DEF Proceed, TestStep, DropInjection, Inject, ResendInjection

LEMMA StartPassesNone ==
  ASSUME Typed, [Next]_vars, NEW t \in Tests, Start(t)
  PROVE  \E r : run' = [run EXCEPT ![t] = r] /\ PassesNone(t, r)'
<1>1. run[t] \in RunType /\ CacheTypeOK' /\ clock \in Nat
  BY TypedNext DEF Typed, TypeOK, TestsTyped, TestTyped
<1>2. PICK e \in RunType : e = [run[t] EXCEPT !.start = clock]
  BY <1>1 DEF RunType
<1>3. PICK r : r = Injecting(e, t, 1)
  OBVIOUS
<1>4. run' = [run EXCEPT ![t] = r]
  BY <1>2, <1>3 DEF Start, StartTest
<1>5. PICK i \in RunType : i = [e EXCEPT !.inj = 1]
  BY DEF RunType
<1>6. CASE r = [e EXCEPT !.pc = "inject", !.inj = 1]
  <2>1. r.pc = "inject"
    BY <1>6 DEF RunType
  <2> QED
    BY <1>4, <2>1 DEF PassesNone, Searching
<1>7. CASE r = Expecting(i, t, 1)
  <2>1. r.seen = {} /\ r.seenId = 0
    BY <1>7, ExpectingFresh
  <2>2. LooksWell(t, r)'
    BY <1>1, <2>1 DEF CacheTypeOK, Entry, LooksWell
  <2> QED
    BY <1>4, <2>2 DEF PassesNone
<1> QED
  BY <1>3, <1>5, <1>6, <1>7 DEF Injecting

LEMMA PassNoneNext ==
  ASSUME Typed, CacheFromLog, LogOrdered, Stamped, AllPassNone, [Next]_vars
  PROVE  AllPassNone'
<1>1. LogOrdered'
  BY LogOrderedNext
<1>2. run \in [Tests -> RunType]
  BY DEF Typed, TypeOK, TestExecutorTypeOK
<1>3. ASSUME NEW u \in Tests, run'[u] = run[u] PROVE PassesNone(u, run[u])'
  <2>1. PICK r \in RunType : r = run[u]
    BY <1>2
  <2>2. PassesNone(u, r)'
    BY <1>1, <2>1, OthersHideNothing DEF AllPassNone, PassesNone, Searching
  <2> QED
    BY <1>3, <2>1, <2>2
<1>4. CASE \E t \in Tests : Start(t) \/ Proceed(t)
  <2>0. PICK t \in Tests : \E r : run' = [run EXCEPT ![t] = r] /\ PassesNone(t, r)'
    BY <1>4, StartPassesNone, ProceedPassesNone
  <2>1. PICK r : run' = [run EXCEPT ![t] = r] /\ PassesNone(t, r)'
    BY <2>0
  <2>2. PassesNone(t, run[t])'
    <3>1. run'[t] = r
      BY <1>2, <2>1
    <3> QED
      BY <2>1, <3>1
  <2>3. \A u \in Tests \ {t} : run'[u] = run[u]
    BY <1>2, <2>1
  <2> QED
    BY <1>3, <2>2, <2>3 DEF AllPassNone
<1>5. CASE ~ \E t \in Tests : Start(t) \/ Proceed(t)
  <2>1. run' = run
    BY <1>5
       DEF Next, ConsumerHazards, Receive, ApplyRules, KafkaFrame, JMSThread, QueueControl,
           JMSFrame, CleanupThread, SystemSends, Time, vars
  <2> QED
    BY <1>3, <2>1 DEF AllPassNone
<1> QED
  BY <1>4, <1>5

\* While a test looks for a message, no message that it wants is among those
\* it could have found in the cache at its last read: deduplication hides none
\* behind another, and none is dropped for its age.
THEOREM NothingIsPassedOver == Spec => []NoTopicMessagePassedOver
<1>1. Init => CacheFromLog
  BY SoundInit DEF Sound
<1>2. Typed /\ CacheFromLog /\ [Next]_vars => CacheFromLog'
  BY CacheStaysKnown
<1>3. Typed /\ LogOrdered /\ [Next]_vars => LogOrdered'
  BY LogOrderedNext
<1>4. Typed /\ Stamped /\ [Next]_vars => Stamped'
  BY StampedNext
<1>5. Typed /\ CacheFromLog /\ LogOrdered /\ Stamped /\ AllPassNone /\ [Next]_vars => AllPassNone'
  BY PassNoneNext
<1>6. CacheFromLog /\ AllPassNone => NoTopicMessagePassedOver
  BY PassNoneIsProperty
<1> QED
  BY <1>1, <1>2, <1>3, <1>4, <1>5, <1>6, LogOrderedInit, StampedInit, PassNoneInit,
     TypedInvariant, PTL DEF Spec

(***************************************************************************)
(* The flow implements the contract of module TestContract, for any topics *)
(* and rules and for tests whose expectations are on topics.               *)
(***************************************************************************)
TopicsOnly == \A t \in Tests : \A n \in 1..Len(Expectations[t]) :
                 Expectations[t][n].dest \in KafkaTopics

Looking == {"collect", "read", "waiting"}

(***************************************************************************)
(* What one step of a test amounts to: it goes on without a verdict, its   *)
(* injections fail, or an expectation is decided.                          *)
(***************************************************************************)

GoesOn(t, r) ==
    /\ r.start = run[t].start /\ r.received = run[t].received
    /\ run[t].pc \notin {"idle", "done"} /\ r.pc \notin {"idle", "done"}
    /\ r.pc \in Looking =>
          \/ r.deadline = EndTime
          \/ run[t].pc \in Looking /\ r.deadline = run[t].deadline
Aborts(t, r) ==
    /\ r.start = run[t].start /\ r.received = run[t].received
    /\ run[t].pc \in {"inject", "resend"} /\ r.pc = "done"
    /\ log' = log
Decides(t, r) ==
    /\ run[t].pc \in {"collect", "read"}
    /\ \E hits \in SUBSET messages :
          /\ r = Concluded(t, hits)
          /\ hits = {} => clock >= run[t].deadline
          /\ \A m \in hits : /\ m.topic = Expected(t).dest
                             /\ m.timestamp >= Since(t) /\ m.payload \in Expected(t).wanted
    /\ log' = log

LEMMA ExpectingIs ==
  ASSUME NEW t, NEW r \in RunType, NEW n
  PROVE  /\ Expecting(r, t, n).pc = IF n <= Len(Expectations[t]) THEN "collect" ELSE "done"
         /\ n <= Len(Expectations[t]) => Expecting(r, t, n).deadline = EndTime
         /\ Expecting(r, t, n).start = r.start
         /\ Expecting(r, t, n).received = r.received
  BY DEF Expecting, RunType

LEMMA HasExpectation ==
  ASSUME NEW t \in Tests PROVE Len(Expectations[t]) \in Nat /\ 1 <= Len(Expectations[t])
<1>1. /\ Expectations[t] \in Seq([dest: Destinations, wanted: SUBSET Payloads])
      /\ Expectations[t] # <<>>
  BY TestExecutorAssumption
<1>2. Len(Expectations[t]) \in Nat /\ Len(Expectations[t]) # 0
  BY <1>1, LenProperties, EmptySeq
<1> QED
  BY <1>2

\* After the last injection the first expectation begins: there is one.
LEMMA InjectingIs ==
  ASSUME NEW t \in Tests, NEW r \in RunType, NEW n \in Nat
  PROVE  /\ Injecting(r, t, n).pc \in {"inject", "collect"}
         /\ Injecting(r, t, n).pc = "collect" => Injecting(r, t, n).deadline = EndTime
         /\ Injecting(r, t, n).start = r.start
         /\ Injecting(r, t, n).received = r.received
<1>1. CASE n <= Len(Injections[t])
  <2>1. Injecting(r, t, n) = [r EXCEPT !.pc = "inject", !.inj = n]
    BY <1>1 DEF Injecting
  <2> QED
    BY <2>1 DEF RunType
<1>2. CASE ~(n <= Len(Injections[t]))
  <2> DEFINE e == [r EXCEPT !.inj = n]
  <2>1. Injecting(r, t, n) = Expecting(e, t, 1)
    BY <1>2 DEF Injecting
  <2>2. e \in RunType /\ e.start = r.start /\ e.received = r.received
    BY DEF RunType
  <2> HIDE DEF e
  <2>3. 1 <= Len(Expectations[t])
    BY HasExpectation
  <2>4. /\ Expecting(e, t, 1).pc = "collect" /\ Expecting(e, t, 1).deadline = EndTime
        /\ Expecting(e, t, 1).start = e.start /\ Expecting(e, t, 1).received = e.received
    BY <2>2, <2>3, ExpectingIs
  <2> QED
    BY <2>1, <2>2, <2>4
<1> QED
  BY <1>1, <1>2

LEMMA StartIs ==
  ASSUME Typed, NEW t \in Tests, Start(t)
  PROVE  /\ run[t].pc = "idle" /\ log' = log
         /\ \E r : /\ run' = [run EXCEPT ![t] = r]
                   /\ r.start = clock /\ r.received = run[t].received
                   /\ r.pc \in {"inject", "collect"}
                   /\ r.pc = "collect" => r.deadline = EndTime
<1> DEFINE e == [run[t] EXCEPT !.start = clock]
           r == Injecting(e, t, 1)
<1>1. run[t] \in RunType /\ clock \in Nat
  BY DEF Typed, TypeOK, TestsTyped, TestTyped
<1>2. e \in RunType /\ e.received = run[t].received /\ e.start = clock
  BY <1>1 DEF RunType
<1>3. run' = [run EXCEPT ![t] = r] /\ run[t].pc = "idle" /\ log' = log
  BY DEF Start, StartTest, brokerVars
<1> HIDE DEF e
<1>4. /\ r.start = clock /\ r.received = run[t].received
      /\ r.pc \in {"inject", "collect"}
      /\ r.pc = "collect" => r.deadline = EndTime
  BY <1>2, InjectingIs
<1> HIDE DEF r
<1> QED
  BY <1>3, <1>4

LEMMA ProceedIs ==
  ASSUME Typed, NEW t \in Tests, Proceed(t)
  PROVE  \E r : /\ run' = [run EXCEPT ![t] = r]
                /\ GoesOn(t, r) \/ Aborts(t, r) \/ Decides(t, r)
<1>0. run[t] \in RunType /\ run[t].inj + 1 \in Nat
  BY DEF Typed, TypeOK, TestsTyped, TestTyped, RunType
<1>b. ASSUME run' = Injected(t), run[t].pc \in {"inject", "resend"}
      PROVE  \E r : run' = [run EXCEPT ![t] = r] /\ GoesOn(t, r)
  <2> DEFINE e == [run[t] EXCEPT !.resend = Poison]
             r == Injecting(e, t, run[t].inj + 1)
  <2>1. e \in RunType /\ e.received = run[t].received /\ e.start = run[t].start
    BY <1>0, RulesAssumption DEF RunType
  <2>2. run' = [run EXCEPT ![t] = r]
    BY <1>b DEF Injected
  <2> HIDE DEF e
  <2>3. /\ r.pc \in {"inject", "collect"}
        /\ r.pc = "collect" => r.deadline = EndTime
        /\ r.start = run[t].start /\ r.received = run[t].received
    BY <1>0, <2>1, InjectingIs
  <2> HIDE DEF r
  <2>4. GoesOn(t, r)
    BY <1>b, <2>3 DEF GoesOn, Looking
  <2> QED
    BY <2>2, <2>4
<1>1. CASE DropInjection(t) \/ ResendInjection(t)
  BY <1>1, <1>b DEF DropInjection, ResendInjection
<1>2. CASE Inject(t)
  <2>1. ASSUME NEW payload,
               run' = [run EXCEPT ![t].pc = "resend", ![t].resend = payload]
        PROVE  \E r : run' = [run EXCEPT ![t] = r] /\ GoesOn(t, r)
    <3> DEFINE r == [run[t] EXCEPT !.pc = "resend", !.resend = payload]
    <3>1. run' = [run EXCEPT ![t] = r]
      BY <2>1
    <3>2. r.received = run[t].received /\ r.start = run[t].start /\ r.pc = "resend"
      BY <1>0 DEF RunType
    <3> HIDE DEF r
    <3>3. GoesOn(t, r)
      BY <1>2, <3>2 DEF Inject, GoesOn, Looking
    <3> QED
      BY <3>1, <3>3
  <2> QED
    BY <1>2, <1>b, <2>1 DEF Inject
<1>3. CASE InjectFails(t)
  <2> DEFINE r == [run[t] EXCEPT !.pc = "done", !.resend = Poison]
  <2>1. run' = [run EXCEPT ![t] = r]
    BY <1>3 DEF InjectFails
  <2>2. r.received = run[t].received /\ r.start = run[t].start /\ r.pc = "done"
    BY <1>0 DEF RunType
  <2> HIDE DEF r
  <2>3. Aborts(t, r)
    BY <1>3, <2>2 DEF InjectFails, Aborts, brokerVars
  <2> QED
    BY <2>1, <2>3
<1>4. CASE Collect(t)
  <2>1. CASE Hits(t) # {}
    <3>1. run' = [run EXCEPT ![t] = Concluded(t, Hits(t))]
      BY <1>4, <2>1 DEF Collect
    <3>2. /\ Hits(t) \in SUBSET messages
          /\ \A m \in Hits(t) : /\ m.topic = Expected(t).dest
                                /\ m.timestamp >= Since(t) /\ m.payload \in Expected(t).wanted
      BY DEF Hits, Evaluated, Batch, Cached
    <3>3. run[t].pc = "collect" /\ log' = log
      BY <1>4 DEF Collect, brokerVars
    <3>4. Decides(t, Concluded(t, Hits(t)))
      BY <2>1, <3>2, <3>3 DEF Decides
    <3> QED
      BY <3>1, <3>4
  <2>2. CASE Hits(t) = {}
    <3> DEFINE r == [run[t] EXCEPT !.pc = "read", !.seenId = nextId,
                                   !.seen = run[t].seen \cup {Key(m) : m \in Batch(t)}]
    <3>1. run' = [run EXCEPT ![t] = r]
      BY <1>4, <2>2 DEF Collect
    <3>2. /\ r.received = run[t].received /\ r.start = run[t].start /\ r.pc = "read"
          /\ r.deadline = run[t].deadline
      BY <1>0 DEF RunType
    <3> HIDE DEF r
    <3>3. GoesOn(t, r)
      BY <1>4, <3>2 DEF Collect, GoesOn, Looking
    <3> QED
      BY <3>1, <3>3
  <2> QED
    BY <2>1, <2>2
<1>5. CASE GiveUp(t)
  <2>1. Decides(t, Concluded(t, {}))
    BY <1>5 DEF GiveUp, Decides, brokerVars
  <2> QED
    BY <1>5, <2>1 DEF GiveUp
<1>6. CASE BeginWait(t)
  <2> DEFINE u == Min2(clock + PollWait, run[t].deadline)
             r == [run[t] EXCEPT !.pc = "waiting", !.until = u]
  <2>1. run' = [run EXCEPT ![t] = r]
    BY <1>6 DEF BeginWait
  <2>2. /\ r.received = run[t].received /\ r.start = run[t].start /\ r.pc = "waiting"
        /\ r.deadline = run[t].deadline
    BY <1>0 DEF RunType
  <2> HIDE DEF r
  <2>3. GoesOn(t, r)
    BY <1>6, <2>2 DEF BeginWait, GoesOn, Looking
  <2> QED
    BY <2>1, <2>3
<1>7. CASE EndWait(t)
  <2> DEFINE r == [run[t] EXCEPT !.pc = "collect", !.until = 0]
  <2>1. run' = [run EXCEPT ![t] = r]
    BY <1>7 DEF EndWait
  <2>2. /\ r.received = run[t].received /\ r.start = run[t].start /\ r.pc = "collect"
        /\ r.deadline = run[t].deadline
    BY <1>0 DEF RunType
  <2> HIDE DEF r
  <2>3. GoesOn(t, r)
    BY <1>7, <2>2 DEF EndWait, GoesOn, Looking
  <2> QED
    BY <2>1, <2>3
<1> QED
  BY <1>1, <1>2, <1>3, <1>4, <1>5, <1>6, <1>7 DEF Proceed, TestStep

\* What a decided expectation leaves behind.
LEMMA ConcludedIs ==
  ASSUME Typed, NEW t \in Tests, NEW hits \in SUBSET messages, run[t].pc \in Looking
  PROVE  LET c == Concluded(t, hits)
             S == {RecordOf(m) : m \in hits}
         IN  /\ c.start = run[t].start
             /\ c.received = Append(run[t].received, S)
             /\ c.pc = IF run[t].exp + 1 <= Len(Expectations[t]) THEN "collect" ELSE "done"
             /\ c.pc = "collect" => c.deadline = EndTime
<1> DEFINE found == {RecordOf(m) : m \in hits}
<1>1. run[t] \in RunType /\ messages \subseteq Entry
  BY DEF Typed, TypeOK, TestsTyped, TestTyped, CacheTypeOK
<1>2. found \in SUBSET Message
  BY <1>1 DEF RecordOf, Entry, Message
<1>3. Append(run[t].received, found) \in Seq(SUBSET Message)
  BY <1>1, <1>2, AppendProperties DEF RunType
<1> DEFINE r == [run[t] EXCEPT !.received = Append(run[t].received, found)]
<1>4. Concluded(t, hits) = Expecting(r, t, run[t].exp + 1)
  BY DEF Concluded
<1> HIDE DEF found
<1>5. r \in RunType /\ r.received = Append(run[t].received, found) /\ r.start = run[t].start
  BY <1>1, <1>3 DEF RunType
<1> HIDE DEF r
<1>6. LET c == Expecting(r, t, run[t].exp + 1)
      IN  /\ c.start = run[t].start
          /\ c.received = Append(run[t].received, found)
          /\ c.pc = IF run[t].exp + 1 <= Len(Expectations[t]) THEN "collect" ELSE "done"
          /\ c.pc = "collect" => c.deadline = EndTime
  BY <1>5, ExpectingIs
<1> QED
  BY <1>4, <1>6 DEF found
(***************************************************************************)
(* Deadlines: an expectation is not given up before Wait has passed since  *)
(* the test began, or the modelled time is over.                           *)
(***************************************************************************)

TimelyAt(r, now) ==
    /\ r.start <= now
    /\ r.pc \in Looking => r.deadline >= Min2(r.start + Wait, MaxTime)
Timely == clock <= MaxTime /\ \A t \in Tests : TimelyAt(run[t], clock)

LEMMA TimelyInit == Init => Timely
<1> SUFFICES ASSUME Init PROVE Timely
  OBVIOUS
<1>1. clock = Epoch
  BY DEF Init
<1>2. ASSUME NEW t \in Tests PROVE run[t].start = 0 /\ run[t].pc = "idle"
  BY DEF Init, TestExecutorInit, NotStarted
<1>3. 0 <= Epoch /\ Epoch <= MaxTime
  BY CommonAssumption
<1>4. ASSUME NEW t \in Tests PROVE TimelyAt(run[t], clock)
  BY <1>1, <1>2, <1>3 DEF TimelyAt, Looking
<1> QED
  BY <1>1, <1>3, <1>4 DEF Timely

LEMMA EndTimeIsLate ==
  ASSUME clock \in Nat, NEW s \in Nat, s <= clock
  PROVE  EndTime >= Min2(s + Wait, MaxTime)
<1>1. PICK c \in Nat, w \in Nat, m \in Nat : c = clock /\ w = Wait /\ m = MaxTime
  BY TestExecutorAssumption, CommonAssumption
<1>2. (IF c + w <= m THEN c + w ELSE m) >= (IF s + w <= m THEN s + w ELSE m)
  BY <1>1
<1> QED
  BY <1>1, <1>2 DEF EndTime, Min2

LEMMA ClockStep ==
  ASSUME [Next]_vars
  PROVE  \/ clock' = clock
         \/ clock < MaxTime /\ clock' = clock + 1 /\ run' = run /\ log' = log
<1>1. CASE UNCHANGED vars
  BY <1>1 DEF vars
<1>2. CASE Time
  BY <1>2 DEF Time, Tick, brokerVars
<1>3. CASE ~Time /\ Next
  BY <1>3
     DEF Next, ConsumerHazards, Receive, ApplyRules, KafkaFrame, JMSThread, QueueControl,
         JMSFrame, Start, Proceed, TestFrame, CleanupThread, SystemSends
<1> QED
  BY <1>1, <1>2, <1>3

\* Only its own steps change a test.
LEMMA RunStep ==
  ASSUME [Next]_vars, ~ \E t \in Tests : Start(t) \/ Proceed(t)
  PROVE  run' = run
  BY DEF Next, ConsumerHazards, Receive, ApplyRules, KafkaFrame, JMSThread, QueueControl,
         JMSFrame, CleanupThread, SystemSends, Time, vars

LEMMA TestsTimely ==
  ASSUME Typed, Timely, NEW t \in Tests, Start(t) \/ Proceed(t)
  PROVE  \E r : run' = [run EXCEPT ![t] = r] /\ TimelyAt(r, clock)
<1>0. run[t] \in RunType /\ clock \in Nat /\ TimelyAt(run[t], clock)
  BY DEF Typed, TypeOK, TestsTyped, TestTyped, Timely
<1>1. PICK s \in Nat : s = run[t].start /\ s <= clock
  BY <1>0 DEF RunType, TimelyAt
<1>2. EndTime >= Min2(s + Wait, MaxTime) /\ EndTime >= Min2(clock + Wait, MaxTime)
  BY <1>0, <1>1, EndTimeIsLate
<1>3. CASE Start(t)
  <2>1. PICK r : /\ run' = [run EXCEPT ![t] = r] /\ r.start = clock
                 /\ r.pc \in {"inject", "collect"}
                 /\ r.pc = "collect" => r.deadline = EndTime
    BY <1>3, StartIs
  <2>2. TimelyAt(r, clock)
    BY <1>0, <1>2, <2>1 DEF TimelyAt, Looking
  <2> QED
    BY <2>1, <2>2
<1>4. CASE Proceed(t)
  <2>1. PICK r : /\ run' = [run EXCEPT ![t] = r]
                 /\ GoesOn(t, r) \/ Aborts(t, r) \/ Decides(t, r)
    BY <1>4, ProceedIs
  <2>2. CASE GoesOn(t, r)
    <3>1. TimelyAt(r, clock)
      BY <1>0, <1>1, <1>2, <2>2 DEF GoesOn, TimelyAt
    <3> QED
      BY <2>1, <3>1
  <2>3. CASE Aborts(t, r)
    <3>1. TimelyAt(r, clock)
      BY <1>0, <2>3 DEF Aborts, TimelyAt, Looking
    <3> QED
      BY <2>1, <3>1
  <2>4. CASE Decides(t, r)
    <3>1. /\ r.start = run[t].start
          /\ r.pc \in {"collect", "done"}
          /\ r.pc = "collect" => r.deadline = EndTime
      BY <2>4, ConcludedIs DEF Decides, Looking
    <3>2. TimelyAt(r, clock)
      BY <1>0, <1>1, <1>2, <3>1 DEF TimelyAt, Looking
    <3> QED
      BY <2>1, <3>2
  <2> QED
    BY <2>1, <2>2, <2>3, <2>4
<1> QED
  BY <1>3, <1>4

LEMMA TimelyNext == Typed /\ Timely /\ [Next]_vars => Timely'
<1> SUFFICES ASSUME Typed, Timely, [Next]_vars PROVE Timely'
  OBVIOUS
<1>0. clock \in Nat /\ clock <= MaxTime /\ \A t \in Tests : run[t] \in RunType
  BY DEF Typed, TypeOK, TestsTyped, TestTyped, Timely
<1>1. CASE \E t \in Tests : Start(t) \/ Proceed(t)
  <2>1. PICK t \in Tests : \E r : run' = [run EXCEPT ![t] = r] /\ TimelyAt(r, clock)
    BY <1>1, TestsTimely
  <2>2. clock' = clock
    BY <1>1 DEF Start, Proceed, TestFrame
  <2>3. \A u \in Tests : TimelyAt(run'[u], clock)
    BY <2>1 DEF Timely, Typed, TypeOK, TestExecutorTypeOK
  <2> QED
    BY <1>0, <2>2, <2>3 DEF Timely, TimelyAt
<1>2. CASE ~ \E t \in Tests : Start(t) \/ Proceed(t)
  <2>1. run' = run
    BY <1>2, RunStep
  <2>2. PICK c \in Nat, m \in Nat : c = clock /\ m = MaxTime
    BY <1>0, CommonAssumption
  <2>3. clock' = c \/ (c < m /\ clock' = c + 1)
    BY <2>2, ClockStep
  <2>4. clock' \in Nat /\ clock' <= m /\ c <= clock'
    BY <1>0, <2>2, <2>3
  <2>5. ASSUME NEW t \in Tests PROVE TimelyAt(run[t], clock')
    <3>1. PICK s \in Nat : s = run[t].start /\ s <= c
      BY <1>0, <2>2 DEF RunType, Timely, TimelyAt
    <3>2. s <= clock'
      BY <2>2, <2>4, <3>1
    <3> QED
      BY <3>1, <3>2 DEF Timely, TimelyAt
  <2> QED
    BY <2>1, <2>2, <2>4, <2>5 DEF Timely, TimelyAt
<1> QED
  BY <1>1, <1>2

-----------------------------------------------------------------------------
(* Every step of the flow is a step of the contract, or none.              *)

\* What a step does to the log: it sends one message at most.
Sends1 == log' = log \/ \E m \in log' : m.timestamp = clock /\ log' = log \cup {m}

LEMMA AppendSends ==
  ASSUME NEW topic, NEW p, NEW payload, Append1(topic, p, payload) PROVE Sends1
<1> DEFINE m == [topic |-> topic, partition |-> p, offset |-> logEnd[<<topic, p>>],
                 payload |-> payload, timestamp |-> clock]
<1>1. log' = log \cup {m} /\ m.timestamp = clock
  BY DEF Append1
<1> HIDE DEF m
<1> QED
  BY <1>1 DEF Sends1

LEMMA ProduceSends ==
  ASSUME NEW topic, NEW payload, Produce(topic, payload) PROVE Sends1
<1>1. CASE UNCHANGED brokerVars
  BY <1>1 DEF brokerVars, Sends1
<1> QED
  BY <1>1, AppendSends DEF Produce

LEMMA SendsAtMostOne ==
  ASSUME [Next]_vars PROVE Sends1
<1>a. ASSUME log' = log PROVE Sends1
  BY <1>a DEF Sends1
<1>1. CASE UNCHANGED vars
  BY <1>1, <1>a DEF vars, brokerVars
<1>2. CASE ConsumerHazards \/ Receive
  BY <1>2, <1>a DEF ConsumerHazards, Receive, Poll, brokerVars
<1>3. CASE ApplyRules
  BY <1>3, <1>a, ProduceSends
     DEF ApplyRules, ListenerStep, Notify, Match, DropOutput, SendOutput, Duplicate, Mark,
         brokerVars
<1>4. CASE JMSThread \/ QueueControl
  BY <1>4, <1>a, ProduceSends
     DEF JMSThread, QueueControl, PauseQueue, ResumeQueue, ChooseQueue, JMSListenerStep,
         GetMessages, TakeMessage, NotifyTaken, MatchJMS, LoseJMSOutput, PutJMSOutput, Put,
         CacheJMSOutput, NotifyJMSOutput, SendJMSOutput, MarkJMS, brokerVars
<1>5. CASE \E t \in Tests : Start(t) \/ Proceed(t)
  BY <1>5, <1>a, ProduceSends
     DEF Start, StartTest, Proceed, TestStep, DropInjection, Inject, ResendInjection,
         SendInjection, Put, InjectFails, Collect, GiveUp, BeginWait, EndWait, brokerVars
<1>6. CASE CleanupThread \/ Time
  BY <1>6, <1>a DEF CleanupThread, Time, brokerVars
<1>7. CASE SystemSends
  BY <1>7, <1>a, AppendSends DEF SystemSends, Put
<1> QED
  BY <1>1, <1>2, <1>3, <1>4, <1>5, <1>6, <1>7 DEF Next

\* The contract's view of the tests.
Begun == [t \in Tests |-> run[t].start]
Verdict == [t \in Tests |-> run[t].received]
StateOf(r) == IF r.pc \in {"idle", "done"} THEN r.pc ELSE "running"

LEMMA ViewOfStep ==
  ASSUME Typed, NEW t \in Tests, NEW r, run' = [run EXCEPT ![t] = r]
  PROVE  /\ Begun' = [Begun EXCEPT ![t] = r.start]
         /\ Verdict' = [Verdict EXCEPT ![t] = r.received]
         /\ ContractState' = [ContractState EXCEPT ![t] = StateOf(r)]
<1>1. \A u \in Tests : run'[u] = IF u = t THEN r ELSE run[u]
  BY DEF Typed, TypeOK, TestExecutorTypeOK
<1>2. Begun' = [u \in Tests |-> IF u = t THEN r.start ELSE run[u].start]
  BY <1>1 DEF Begun
<1>3. Verdict' = [u \in Tests |-> IF u = t THEN r.received ELSE run[u].received]
  BY <1>1 DEF Verdict
<1>4. ContractState' = [u \in Tests |-> IF u = t THEN StateOf(r) ELSE StateOf(run[u])]
  BY <1>1 DEF ContractState, StateOf
<1> QED
  BY <1>2, <1>3, <1>4 DEF Begun, Verdict, ContractState, StateOf
LEMMA ContractInit == Init => Contract!Init
<1> SUFFICES ASSUME Init PROVE Contract!Init
  OBVIOUS
<1>1. \A t \in Tests : run[t].start = 0 /\ run[t].pc = "idle" /\ run[t].received = <<>>
  BY DEF Init, TestExecutorInit, NotStarted
<1>2. clock \in Nat /\ log = {}
  BY CommonAssumption DEF Init, BrokersInit
<1> QED
  BY <1>1, <1>2 DEF Contract!Init, ContractState

LEMMA BeginIsBegin ==
  ASSUME Typed, NEW t \in Tests, Start(t) PROVE Contract!Begin(t)
<1>1. PICK r : /\ run' = [run EXCEPT ![t] = r] /\ r.start = clock
               /\ r.received = run[t].received /\ r.pc \in {"inject", "collect"}
  BY StartIs
<1>2. run[t].pc = "idle" /\ log' = log /\ clock' = clock
  BY StartIs DEF Start, TestFrame
<1>3. /\ Begun' = [Begun EXCEPT ![t] = clock]
      /\ Verdict' = [Verdict EXCEPT ![t] = run[t].received]
      /\ ContractState' = [ContractState EXCEPT ![t] = "running"]
  <2>1. /\ Begun' = [Begun EXCEPT ![t] = r.start]
      /\ Verdict' = [Verdict EXCEPT ![t] = r.received]
      /\ ContractState' = [ContractState EXCEPT ![t] = StateOf(r)]
    BY <1>1, ViewOfStep
  <2>2. StateOf(r) = "running"
    BY <1>1 DEF StateOf
  <2> QED
    BY <1>1, <2>1, <2>2
<1>4. Verdict' = Verdict
  BY <1>3 DEF Verdict
<1>5. ContractState[t] = "idle"
  BY <1>2 DEF ContractState
<1> QED
  BY <1>2, <1>3, <1>4, <1>5 DEF Contract!Begin, Begun, Verdict

LEMMA AbortIsAbort ==
  ASSUME Typed, NEW t \in Tests, NEW r, run' = [run EXCEPT ![t] = r], Aborts(t, r),
         clock' = clock
  PROVE  Contract!Abort(t)
<1>1. /\ Begun' = [Begun EXCEPT ![t] = run[t].start]
      /\ Verdict' = [Verdict EXCEPT ![t] = run[t].received]
      /\ ContractState' = [ContractState EXCEPT ![t] = "done"]
  BY ViewOfStep DEF StateOf, Aborts
<1>2. Begun' = Begun /\ Verdict' = Verdict
  BY <1>1 DEF Begun, Verdict
<1>3. ContractState[t] = "running"
  BY DEF ContractState, Aborts
<1>4. run[t].received = <<>>
  <2>1. run[t] \in RunType /\ run[t].exp = 1 /\ Len(run[t].received) = run[t].exp - 1
    BY DEF Typed, TestsTyped, TestTyped, Aborts
  <2>2. Len(run[t].received) = 0 /\ run[t].received \in Seq(SUBSET Message)
    BY <2>1 DEF RunType
  <2> QED
    BY <2>2, EmptySeq
<1>5. Verdict[t] = <<>>
  BY <1>4 DEF Verdict
<1>6. log' = log
  BY DEF Aborts
<1> QED
  BY <1>1, <1>2, <1>3, <1>5, <1>6 DEF Contract!Abort, Begun, Verdict

LEMMA DecisionIsDecide ==
  ASSUME Typed, Sound, Timely, TopicsOnly, NEW t \in Tests, NEW r,
         run' = [run EXCEPT ![t] = r], Decides(t, r), clock' = clock
  PROVE  Contract!Decide(t)
<1>1. PICK hits \in SUBSET messages :
         /\ r = Concluded(t, hits)
         /\ hits = {} => clock >= run[t].deadline
         /\ \A m \in hits : /\ m.topic = Expected(t).dest
                            /\ m.timestamp >= Since(t) /\ m.payload \in Expected(t).wanted
  BY DEF Decides
<1> DEFINE S == {RecordOf(m) : m \in hits}
<1>0. run[t] \in RunType /\ TestTyped(run[t], t) /\ clock \in Nat /\ messages \subseteq Entry
  BY DEF Typed, TypeOK, TestsTyped, TestTyped, CacheTypeOK
<1>2. run[t].pc \in {"collect", "read"} /\ log' = log
  BY DEF Decides
<1>3. PICK e \in Nat, l \in Nat : e = run[t].exp /\ l = Len(Expectations[t])
  BY <1>0, HasExpectation DEF RunType
<1>4. e \in 1..l /\ Len(run[t].received) = e - 1
  BY <1>0, <1>2, <1>3 DEF TestTyped
<1>5. /\ r.start = run[t].start
      /\ r.received = Append(run[t].received, S)
      /\ r.pc = IF e + 1 <= l THEN "collect" ELSE "done"
  BY <1>1, <1>2, <1>3, ConcludedIs DEF Looking
<1>6. Len(run[t].received) + 1 = e /\ Len(run[t].received) < l
  BY <1>3, <1>4
<1>7. Expected(t) = Expectations[t][Len(run[t].received) + 1]
  BY <1>3, <1>6 DEF Expected
<1>8. Expected(t).dest \in KafkaTopics
  BY <1>3, <1>4 DEF TopicsOnly, Expected
<1>9. S \in SUBSET Contract!Satisfying(t, Expected(t))
  <2>1. ASSUME NEW m \in hits PROVE RecordOf(m) \in Contract!Satisfying(t, Expected(t))
    <3>1. RecordOf(m) \in log
      BY <1>1, <1>8 DEF Sound, CacheFromLog
    <3>2. m \in Entry
      BY <1>0
    <3>3. RecordOf(m).topic = m.topic /\ RecordOf(m).payload = m.payload
          /\ RecordOf(m).timestamp = m.timestamp
      BY DEF RecordOf
    <3>4. PICK s \in Nat, g \in Nat, ts \in Nat : s = run[t].start /\ g = Margin /\ ts = m.timestamp
      BY <1>0, <3>2, TestExecutorAssumption DEF RunType, Entry
    <3>5. ts >= s - g
      BY <1>1, <3>4 DEF Since
    <3>6. ts + g >= s
      BY <3>4, <3>5
    <3>7. m.timestamp + Margin >= Begun[t]
      BY <3>4, <3>6 DEF Begun
    <3> QED
      BY <1>1, <3>1, <3>3, <3>7 DEF Contract!Satisfying, Begun
  <2> QED
    BY <2>1
<1>10. S = {} => clock >= Begun[t] + Wait \/ clock = MaxTime
  <2> SUFFICES ASSUME S = {} PROVE clock >= Begun[t] + Wait \/ clock = MaxTime
    OBVIOUS
  <2>1. hits = {}
    OBVIOUS
  <2>2. PICK c \in Nat, s \in Nat, w \in Nat, m \in Nat, d \in Nat :
           /\ c = clock /\ s = run[t].start /\ w = Wait /\ m = MaxTime /\ d = run[t].deadline
    BY <1>0, TestExecutorAssumption, CommonAssumption DEF RunType
  <2>3. c <= m /\ c >= d /\ d >= (IF s + w <= m THEN s + w ELSE m)
    BY <1>1, <1>2, <2>1, <2>2 DEF Timely, TimelyAt, Looking, Min2
  <2>4. c >= s + w \/ c = m
    BY <2>2, <2>3
  <2> QED
    BY <2>2, <2>4 DEF Begun
<1> HIDE DEF S
<1>11. /\ Begun' = [Begun EXCEPT ![t] = run[t].start]
       /\ Verdict' = [Verdict EXCEPT ![t] = Append(run[t].received, S)]
       /\ ContractState' = [ContractState EXCEPT ![t] = StateOf(r)]
  <2>1. /\ Begun' = [Begun EXCEPT ![t] = r.start]
      /\ Verdict' = [Verdict EXCEPT ![t] = r.received]
      /\ ContractState' = [ContractState EXCEPT ![t] = StateOf(r)]
    BY ViewOfStep
  <2> QED
    BY <1>5, <2>1
<1>12. Begun' = Begun /\ Verdict[t] = run[t].received
  BY <1>11 DEF Begun, Verdict
<1>13. Verdict' = [Verdict EXCEPT ![t] = Append(Verdict[t], S)]
  BY <1>11, <1>12
<1>14. ContractState[t] = "running"
  BY <1>2 DEF ContractState
<1>15. ContractState' = [ContractState EXCEPT ![t] =
            IF Len(Verdict[t]) + 1 = l THEN "done" ELSE ContractState[t]]
  <2>1. e + 1 <= l <=> e # l
    BY <1>3, <1>4
  <2>2. StateOf(r) = IF Len(Verdict[t]) + 1 = l THEN "done" ELSE ContractState[t]
    BY <1>5, <1>6, <1>12, <1>14, <2>1 DEF StateOf
  <2> QED
    BY <1>11, <2>2
<1>16. Expected(t) = Expectations[t][Len(Verdict[t]) + 1] /\ Len(Verdict[t]) < l
  BY <1>6, <1>7, <1>12
<1> QED
  BY <1>2, <1>3, <1>9, <1>10, <1>12, <1>13, <1>14, <1>15, <1>16
     DEF Contract!Decide, Begun, Verdict

\* A step that leaves the contract's view of the tests alone sends or waits.
LEMMA OtherStep ==
  ASSUME [Next]_vars, clock' = clock, Begun' = Begun, Verdict' = Verdict,
         ContractState' = ContractState
  PROVE  [Contract!Next]_(Contract!vars)
<1>1. CASE log' = log
  BY <1>1 DEF Contract!vars, Begun, Verdict
<1>2. CASE \E m \in log' : m.timestamp = clock /\ log' = log \cup {m}
  <2>1. Contract!Send
    BY <1>2 DEF Contract!Send, Begun, Verdict
  <2> QED
    BY <2>1 DEF Contract!Next
<1> QED
  BY <1>1, <1>2, SendsAtMostOne DEF Sends1

LEMMA ContractStep ==
  ASSUME Typed, Sound, Timely, TopicsOnly, [Next]_vars
  PROVE  [Contract!Next]_(Contract!vars)
<1>1. ASSUME NEW t \in Tests, Start(t) PROVE [Contract!Next]_(Contract!vars)
  BY <1>1, BeginIsBegin DEF Contract!Next
<1>2. ASSUME NEW t \in Tests, Proceed(t) PROVE [Contract!Next]_(Contract!vars)
  <2>1. PICK r : /\ run' = [run EXCEPT ![t] = r]
                 /\ GoesOn(t, r) \/ Aborts(t, r) \/ Decides(t, r)
    BY <1>2, ProceedIs
  <2>2. clock' = clock
    BY <1>2 DEF Proceed, TestFrame
  <2>3. CASE GoesOn(t, r)
    <3>1. /\ Begun' = [Begun EXCEPT ![t] = run[t].start]
          /\ Verdict' = [Verdict EXCEPT ![t] = run[t].received]
          /\ ContractState' = [ContractState EXCEPT ![t] = StateOf(run[t])]
      <4>1. /\ Begun' = [Begun EXCEPT ![t] = r.start]
          /\ Verdict' = [Verdict EXCEPT ![t] = r.received]
          /\ ContractState' = [ContractState EXCEPT ![t] = StateOf(r)]
        BY <2>1, ViewOfStep
      <4>2. StateOf(r) = StateOf(run[t])
        BY <2>3 DEF GoesOn, StateOf
      <4> QED
        BY <2>3, <4>1, <4>2 DEF GoesOn
    <3>2. Begun' = Begun /\ Verdict' = Verdict /\ ContractState' = ContractState
      BY <3>1 DEF Begun, Verdict, ContractState, StateOf
    <3> QED
      BY <2>2, <3>2, OtherStep
  <2>4. CASE Aborts(t, r)
    BY <2>1, <2>2, <2>4, AbortIsAbort DEF Contract!Next
  <2>5. CASE Decides(t, r)
    BY <2>1, <2>2, <2>5, DecisionIsDecide DEF Contract!Next
  <2> QED
    BY <2>1, <2>3, <2>4, <2>5
<1>3. CASE ~ \E t \in Tests : Start(t) \/ Proceed(t)
  <2>1. run' = run
    BY <1>3, RunStep
  <2>2. Begun' = Begun /\ Verdict' = Verdict /\ ContractState' = ContractState
    BY <2>1 DEF Begun, Verdict, ContractState
  <2>3. CASE clock' = clock
    BY <2>2, <2>3, OtherStep
  <2>4. CASE clock' = clock + 1 /\ log' = log
    <3>1. Contract!Time
      BY <2>2, <2>4 DEF Contract!Time, Begun, Verdict
    <3> QED
      BY <3>1 DEF Contract!Next
  <2> QED
    BY <2>3, <2>4, ClockStep
<1> QED
  BY <1>1, <1>2, <1>3

\* Seen by its tests, the whole of brokers, listeners, cache and executor is
\* TestContract: whatever they interleave, verdicts are sound, are given in
\* order, never change, and no expectation is given up early.
THEOREM FlowImplementsContract == ASSUME TopicsOnly PROVE Spec => ImplementsContract
<1>1. Typed /\ Sound /\ Timely /\ [Next]_vars => [Contract!Next]_(Contract!vars)
  BY ContractStep
<1>2. Spec => [](Typed /\ Sound /\ Timely)
  BY TypedInvariant, SoundInit, SoundNext, TimelyInit, TimelyNext, PTL DEF Spec
<1>3. Spec => Contract!Spec
  BY <1>1, <1>2, ContractInit, PTL DEF Spec, Contract!Spec
<1> QED
  BY <1>3 DEF ImplementsContract
-----------------------------------------------------------------------------
(***************************************************************************)
(* Replies on queues that no rule reads.  Between put_message and          *)
(* add_message one reply more has been put than is cached; the inductive   *)
(* invariant charges it in advance.                                        *)
(***************************************************************************)

CachedReplies(q, p) == {m \in messages : m.topic = q /\ m.payload = p}
PutReplies(q, p)    == {i \in DOMAIN queued[q] : queued[q][i] = p}
Pending(q, p)       == jl.pc = "cache" /\ JMSOutput.dest = q /\ JMSOutput.render[jl.payload] = p
Owed(q, p)          == IF Pending(q, p) THEN 1 ELSE 0
Covered(q, p)       == Cardinality(CachedReplies(q, p)) + Owed(q, p)
                           <= Cardinality(PutReplies(q, p))

CacheFinite == IsFiniteSet(messages)
ReadsPolled == jl.pc # "idle" => jl.queue \in Polled
AllCovered  == \A q \in Queues \ Polled : \A p \in Payloads : Covered(q, p)
RepliesInv  == CacheFinite /\ ReadsPolled /\ AllCovered

LEMMA RepliesCount ==
  ASSUME BrokersTypeOK, CacheFinite, NEW q \in Queues, NEW p
  PROVE  /\ IsFiniteSet(CachedReplies(q, p)) /\ Cardinality(CachedReplies(q, p)) \in Nat
         /\ IsFiniteSet(PutReplies(q, p)) /\ Cardinality(PutReplies(q, p)) \in Nat
<1>1. CachedReplies(q, p) \in SUBSET messages
  BY DEF CachedReplies
<1>2. IsFiniteSet(CachedReplies(q, p))
  BY <1>1, FS_Subset DEF CacheFinite
<1>3. DOMAIN queued[q] = 1..Len(queued[q]) /\ Len(queued[q]) \in Nat
  BY LenProperties DEF BrokersTypeOK
<1>4. IsFiniteSet(1..Len(queued[q]))
  BY <1>3, FS_Interval
<1>5. PutReplies(q, p) \in SUBSET (1..Len(queued[q]))
  BY <1>3 DEF PutReplies
<1>6. IsFiniteSet(PutReplies(q, p))
  BY <1>4, <1>5, FS_Subset
<1> QED
  BY <1>2, <1>6, FS_CardinalityType

LEMMA CoveredIsPut == Typed /\ RepliesInv => RepliesWerePut
<1> SUFFICES ASSUME Typed, RepliesInv, NEW q \in Queues \ Polled, NEW p \in Payloads
             PROVE  Cardinality(CachedReplies(q, p)) <= Cardinality(PutReplies(q, p))
  BY DEF RepliesWerePut, CachedReplies, PutReplies
<1>1. Cardinality(CachedReplies(q, p)) \in Nat /\ Cardinality(PutReplies(q, p)) \in Nat
  BY RepliesCount DEF Typed, TypeOK, RepliesInv
<1>2. Owed(q, p) \in {0, 1}
  BY DEF Owed
<1>3. Cardinality(CachedReplies(q, p)) + Owed(q, p) <= Cardinality(PutReplies(q, p))
  BY DEF RepliesInv, AllCovered, Covered
<1> QED
  BY <1>1, <1>2, <1>3

LEMMA RepliesInit == Init => RepliesInv
<1> SUFFICES ASSUME Init PROVE RepliesInv
  OBVIOUS
<1>1. CacheFinite
  BY FS_EmptySet DEF Init, CacheInit, CacheFinite
<1>2. jl.pc = "idle"
  BY DEF Init, JMSListenerInit, JIdle
<1>3. ASSUME NEW q \in Queues \ Polled, NEW p \in Payloads PROVE Covered(q, p)
  <2>1. Owed(q, p) = 0
    BY <1>2 DEF Owed, Pending
  <2>2. CachedReplies(q, p) = {} /\ PutReplies(q, p) = {}
    BY DEF CachedReplies, PutReplies, Init, CacheInit, BrokersInit
  <2> QED
    BY <2>1, <2>2, FS_EmptySet DEF Covered
<1> QED
  BY <1>1, <1>2, <1>3 DEF RepliesInv, ReadsPolled, AllCovered

\* What a queue holds of a reply after one put.
LEMMA OneMorePut ==
  ASSUME BrokersTypeOK, NEW q \in Queues, NEW p, NEW x \in Payloads,
         queued'[q] = Append(queued[q], x)
  PROVE  PutReplies(q, p)' = IF x = p THEN PutReplies(q, p) \cup {Len(queued[q]) + 1}
                                     ELSE PutReplies(q, p)
<1>1. queued[q] \in Seq(Payloads)
  BY DEF BrokersTypeOK
<1>2. PICK l \in Nat : l = Len(queued[q])
  BY <1>1, LenProperties
<1>3. DOMAIN queued[q] = 1..l
  BY <1>1, <1>2, LenProperties
<1>4. /\ queued'[q] \in Seq(Payloads) /\ Len(queued'[q]) = l + 1
      /\ \A i \in 1..l : queued'[q][i] = queued[q][i]
      /\ queued'[q][l + 1] = x
  BY <1>1, <1>2, AppendProperties
<1>5. DOMAIN queued'[q] = 1..(l + 1)
  BY <1>4, LenProperties
<1>6. \A i : i \in 1..(l + 1) <=> (i \in 1..l \/ i = l + 1)
  BY <1>2
<1>7. \A i : i \in PutReplies(q, p)' <=> (i \in 1..l \/ i = l + 1) /\ queued'[q][i] = p
  BY <1>5, <1>6 DEF PutReplies
<1>8. \A i : i \in PutReplies(q, p) <=> i \in 1..l /\ queued[q][i] = p
  BY <1>3 DEF PutReplies
<1>9. PutReplies(q, p)' = {i \in 1..(l + 1) : queued'[q][i] = p}
  BY <1>5 DEF PutReplies
<1>10. CASE x = p
  BY <1>2, <1>4, <1>7, <1>8, <1>9, <1>10
<1>11. CASE x # p
  BY <1>2, <1>4, <1>7, <1>8, <1>9, <1>11
<1> QED
  BY <1>10, <1>11

\* The steps that leave a queue's replies alone, or put one more.
QueueGrows(q) == queued'[q] = queued[q] \/ \E x \in Payloads : queued'[q] = Append(queued[q], x)
NoneCached(q) == \A m \in messages' : m.topic = q => m \in messages

LEMMA QuietCovers ==
  ASSUME BrokersTypeOK, CacheFinite, NEW q \in Queues, NEW p \in Payloads, Covered(q, p),
         QueueGrows(q), NoneCached(q), Pending(q, p)' => Pending(q, p)
  PROVE  Covered(q, p)'
<1>1. /\ IsFiniteSet(CachedReplies(q, p)) /\ Cardinality(CachedReplies(q, p)) \in Nat
      /\ IsFiniteSet(PutReplies(q, p)) /\ Cardinality(PutReplies(q, p)) \in Nat
  BY RepliesCount
<1>2. CachedReplies(q, p)' \in SUBSET CachedReplies(q, p)
  BY DEF NoneCached, CachedReplies
<1>3. /\ Cardinality(CachedReplies(q, p)') <= Cardinality(CachedReplies(q, p))
      /\ IsFiniteSet(CachedReplies(q, p)')
  BY <1>1, <1>2, FS_Subset
<1>4. Cardinality(CachedReplies(q, p)') \in Nat
  BY <1>3, FS_CardinalityType
<1>5. /\ Cardinality(PutReplies(q, p)') \in Nat
      /\ Cardinality(PutReplies(q, p)) <= Cardinality(PutReplies(q, p)')
  <2>1. CASE queued'[q] = queued[q]
    <3>1. PutReplies(q, p)' = PutReplies(q, p)
      BY <2>1 DEF PutReplies
    <3> QED
      BY <1>1, <3>1
  <2>2. ASSUME NEW x \in Payloads, queued'[q] = Append(queued[q], x)
        PROVE  /\ Cardinality(PutReplies(q, p)') \in Nat
               /\ Cardinality(PutReplies(q, p)) <= Cardinality(PutReplies(q, p)')
    <3>1. \/ PutReplies(q, p)' = PutReplies(q, p)
          \/ PutReplies(q, p)' = PutReplies(q, p) \cup {Len(queued[q]) + 1}
      BY <2>2, OneMorePut
    <3>2. PICK n \in Nat : n = Cardinality(PutReplies(q, p)) /\ IsFiniteSet(PutReplies(q, p))
      BY <1>1
    <3>3. PICK k \in Nat : /\ k = Cardinality(PutReplies(q, p) \cup {Len(queued[q]) + 1})
                           /\ n <= k
      <4>1. Cardinality(PutReplies(q, p) \cup {Len(queued[q]) + 1}) \in {n, n + 1}
        BY <3>2, FS_AddElement
      <4>2. n + 1 \in Nat /\ n <= n + 1 /\ n <= n
        OBVIOUS
      <4> QED
        BY <4>1, <4>2
    <3>4. Cardinality(PutReplies(q, p)') \in {n, k}
      BY <3>1, <3>2, <3>3
    <3> QED
      BY <3>2, <3>3, <3>4
  <2> QED
    BY <2>1, <2>2 DEF QueueGrows
<1>6. Owed(q, p) \in {0, 1} /\ Owed(q, p)' \in {0, 1} /\ Owed(q, p)' <= Owed(q, p)
  BY DEF Owed
<1>7. Cardinality(CachedReplies(q, p)) + Owed(q, p) <= Cardinality(PutReplies(q, p))
  BY DEF Covered
<1>8. Cardinality(CachedReplies(q, p)') + Owed(q, p)' <= Cardinality(PutReplies(q, p)')
  BY <1>1, <1>3, <1>4, <1>5, <1>6, <1>7
<1> QED
  BY <1>8 DEF Covered

LEMMA PutCovers ==
  ASSUME Typed, CacheFinite, NEW q \in Queues, NEW p \in Payloads, Covered(q, p),
         PutJMSOutput
  PROVE  Covered(q, p)'
<1> DEFINE d == JMSOutput.dest
           x == JMSOutput.render[jl.payload]
<1>1. BrokersTypeOK /\ JMSListenerTypeOK
  BY DEF Typed, TypeOK
<1>2. x \in Payloads /\ d \in Queues
  BY JMSOutputTyped DEF PutJMSOutput, Put
<1>3. queued' = [queued EXCEPT ![d] = Append(@, x)] /\ messages' = messages
  BY DEF PutJMSOutput, Put, cacheVars
<1>4. jl'.pc = "cache" /\ JMSOutput' = JMSOutput /\ jl'.payload = jl.payload
  BY <1>1 DEF PutJMSOutput, JMSListenerTypeOK, JMSOutput, JMSOutputs
<1>5. Pending(q, p)' <=> d = q /\ x = p
  BY <1>4 DEF Pending
<1>6. ~ Pending(q, p)
  BY DEF PutJMSOutput, Pending
<1>7. CachedReplies(q, p)' = CachedReplies(q, p)
  BY <1>3 DEF CachedReplies
<1>8. DOMAIN queued = Queues
  BY <1>1 DEF BrokersTypeOK
<1>9. CASE ~ (d = q /\ x = p)
  <2>1. QueueGrows(q)
    BY <1>2, <1>3, <1>8 DEF QueueGrows
  <2>2. NoneCached(q)
    BY <1>3 DEF NoneCached
  <2> QED
    BY <1>1, <1>5, <1>9, <2>1, <2>2, QuietCovers
<1>10. CASE d = q /\ x = p
  <2>1. queued'[q] = Append(queued[q], x)
    BY <1>2, <1>3, <1>8, <1>10
  <2>2. PutReplies(q, p)' = PutReplies(q, p) \cup {Len(queued[q]) + 1}
    BY <1>1, <1>2, <1>10, <2>1, OneMorePut
  <2>3. PICK n \in Nat : n = Cardinality(PutReplies(q, p))
    BY <1>1, RepliesCount
  <2>4. Len(queued[q]) + 1 \notin PutReplies(q, p)
    <3>1. PICK l \in Nat : l = Len(queued[q]) /\ DOMAIN queued[q] = 1..l
      BY <1>1, LenProperties DEF BrokersTypeOK
    <3>2. l + 1 \notin 1..l
      BY <3>1
    <3> QED
      BY <3>1, <3>2 DEF PutReplies
  <2>5. Cardinality(PutReplies(q, p)') = n + 1
    BY <1>1, <2>2, <2>3, <2>4, RepliesCount, FS_AddElement
  <2>6. PICK c \in Nat : c = Cardinality(CachedReplies(q, p))
    BY <1>1, RepliesCount
  <2>7. Owed(q, p) = 0 /\ Owed(q, p)' = 1
    BY <1>5, <1>6, <1>10 DEF Owed
  <2>8. c + 0 <= n
    BY <2>3, <2>6, <2>7 DEF Covered
  <2>9. c + 1 <= n + 1
    BY <2>3, <2>6, <2>8
  <2>10. Cardinality(CachedReplies(q, p)') = c
    BY <1>7, <2>6
  <2> QED
    BY <2>5, <2>7, <2>9, <2>10 DEF Covered
<1> QED
  BY <1>9, <1>10

LEMMA CacheCovers ==
  ASSUME Typed, CacheFinite, NEW q \in Queues, NEW p \in Payloads, Covered(q, p),
         CacheJMSOutput
  PROVE  Covered(q, p)'
<1> DEFINE d == JMSOutput.dest
           x == JMSOutput.render[jl.payload]
           e == NewEntry(d, x, 0, 0, clock)
<1>1. BrokersTypeOK /\ JMSListenerTypeOK
  BY DEF Typed, TypeOK
<1>2. messages' \subseteq messages \cup {e} /\ queued' = queued
  BY DEF CacheJMSOutput, AddMessage, Purge, brokerVars
<1>3. e.topic = d /\ e.payload = x
  BY DEF NewEntry
<1>4. jl'.pc = "notifyOutput"
  BY <1>1 DEF CacheJMSOutput, JMSListenerTypeOK
<1>5. Owed(q, p)' = 0
  BY <1>4 DEF Owed, Pending
<1>6. QueueGrows(q)
  BY <1>2 DEF QueueGrows
<1>7. CASE ~ (d = q /\ x = p)
  <2>1. CachedReplies(q, p)' \in SUBSET CachedReplies(q, p)
    <3> HIDE DEF e
    <3> QED
      BY <1>2, <1>3, <1>7 DEF CachedReplies
  <2>2. PICK c \in Nat : c = Cardinality(CachedReplies(q, p))
    BY <1>1, RepliesCount
  <2>3. PICK k \in Nat : k = Cardinality(CachedReplies(q, p)') /\ k <= c
    BY <1>1, <2>1, <2>2, RepliesCount, FS_Subset, FS_CardinalityType
  <2>4. PICK n \in Nat : n = Cardinality(PutReplies(q, p)) /\ n = Cardinality(PutReplies(q, p)')
    BY <1>1, <1>2, RepliesCount DEF PutReplies
  <2>5. Owed(q, p) \in {0, 1}
    BY DEF Owed
  <2>6. c + Owed(q, p) <= n
    BY <2>2, <2>4 DEF Covered
  <2>7. k + 0 <= n
    BY <2>3, <2>5, <2>6
  <2> QED
    BY <1>5, <2>3, <2>4, <2>7 DEF Covered
<1>8. CASE d = q /\ x = p
  <2>1. CachedReplies(q, p)' \in SUBSET (CachedReplies(q, p) \cup {e})
    BY <1>2 DEF CachedReplies
  <2>2. PICK c \in Nat : c = Cardinality(CachedReplies(q, p)) /\ IsFiniteSet(CachedReplies(q, p))
    BY <1>1, RepliesCount
  <2>3. PICK j \in Nat : /\ j = Cardinality(CachedReplies(q, p) \cup {e}) /\ j <= c + 1
                         /\ IsFiniteSet(CachedReplies(q, p) \cup {e})
    BY <2>2, FS_AddElement
  <2>4. PICK k \in Nat : k = Cardinality(CachedReplies(q, p)') /\ k <= j
    BY <2>1, <2>3, FS_Subset, FS_CardinalityType
  <2>5. PICK n \in Nat : n = Cardinality(PutReplies(q, p)) /\ n = Cardinality(PutReplies(q, p)')
    BY <1>1, <1>2, RepliesCount DEF PutReplies
  <2>6. Owed(q, p) = 1
    BY <1>8 DEF Owed, Pending, CacheJMSOutput
  <2>7. c + 1 <= n
    BY <2>2, <2>5, <2>6 DEF Covered
  <2>8. k + 0 <= n
    BY <2>3, <2>4, <2>7
  <2> QED
    BY <1>5, <2>4, <2>5, <2>8 DEF Covered
<1> QED
  BY <1>7, <1>8

LEMMA CacheStaysFinite ==
  ASSUME Typed, CacheFinite, [Next]_vars
  PROVE  CacheFinite'
<1>0. SUFFICES \E n : messages' \subseteq messages \cup {n}
  BY FS_AddElement, FS_Subset DEF CacheFinite
<1>1. CASE ConsumerStep
  BY <1>1 DEF ConsumerStep
<1>2. CASE \E r \in log : Poll(r)
  BY <1>2 DEF Poll, CacheRecord, cacheVars, AddMessage, Purge
<1>3. CASE CacheStep
  <2>1. CASE messages' \subseteq messages
    BY <2>1
  <2>2. CASE \E q \in Queues : \E payload, ts : AddMessage(q, payload, 0, 0, ts)
    BY <2>2 DEF AddMessage, Purge
  <2>3. ASSUME NEW topic, NEW o, MarkConsumedByRules(topic, o)
        PROVE  \E n : messages' \subseteq messages \cup {n}
    BY <2>3 DEF MarkConsumedByRules
  <2> QED
    BY <1>3, <2>1, <2>2, <2>3 DEF CacheStep
<1> QED
  BY <1>1, <1>2, <1>3, StepKinds

\* What a step does to the replies on a queue that nobody here reads.
Quiet(q) == /\ QueueGrows(q) /\ NoneCached(q)
            /\ \A p : Pending(q, p)' => Pending(q, p)

LEMMA MarkCachesNone ==
  ASSUME CacheTypeOK, NEW topic, NEW o, MarkConsumedByRules(topic, o), NEW q, q # topic
  PROVE  NoneCached(q)
<1>1. ASSUME NEW m \in messages, m.topic = topic,
             messages' = (messages \ {m}) \cup {[m EXCEPT !.byRules = TRUE]}
      PROVE  NoneCached(q)
  <2>1. [m EXCEPT !.byRules = TRUE].topic = topic
    BY <1>1 DEF CacheTypeOK, Entry
  <2> QED
    BY <1>1, <2>1 DEF NoneCached
<1>2. CASE messages' = messages
  BY <1>2 DEF NoneCached
<1> QED
  BY <1>1, <1>2 DEF MarkConsumedByRules, FirstWithOffset

LEMMA AddCachesNone ==
  ASSUME NEW topic, NEW payload, NEW p, NEW o, NEW ts, AddMessage(topic, payload, p, o, ts),
         NEW q, q # topic
  PROVE  NoneCached(q)
<1> DEFINE e == NewEntry(topic, payload, p, o, ts)
<1>1. messages' \subseteq messages \cup {e}
  BY DEF AddMessage, Purge
<1>2. e.topic = topic
  BY DEF NewEntry
<1> HIDE DEF e
<1> QED
  BY <1>1, <1>2 DEF NoneCached

LEMMA SendGrows ==
  ASSUME Typed, NEW q \in Queues, NEW i, NEW x \in Payloads, SendInjection(i, x)
  PROVE  QueueGrows(q)
<1>1. CASE Put(i.dest, x)
  BY <1>1 DEF Put, QueueGrows, Typed, TypeOK, BrokersTypeOK
<1>2. CASE Produce(i.dest, x)
  BY <1>2 DEF Produce, Append1, brokerVars, QueueGrows
<1> QED
  BY <1>1, <1>2 DEF SendInjection

LEMMA JMSThreadReplies ==
  ASSUME Typed, ReadsPolled, JMSThread \/ QueueControl, NEW q \in Queues \ Polled
  PROVE  Quiet(q) \/ PutJMSOutput \/ CacheJMSOutput
<1>1. BrokersTypeOK /\ JMSListenerTypeOK /\ CacheTypeOK
  BY DEF Typed, TypeOK
<1>2. ASSUME jl'.pc # "cache" PROVE \A p : Pending(q, p)' => Pending(q, p)
  BY <1>2 DEF Pending
<1>3. ASSUME UNCHANGED queued PROVE QueueGrows(q)
  BY <1>3 DEF QueueGrows
<1>4. ASSUME UNCHANGED messages PROVE NoneCached(q)
  BY <1>4 DEF NoneCached
<1>5. ASSUME NEW batch, jl' = NextMessage(batch) PROVE jl'.pc # "cache"
  BY <1>5 DEF NextMessage, JIdle
<1>6. ASSUME jl' = NextJMSOutput PROVE jl'.pc # "cache"
  BY <1>1, <1>6 DEF NextJMSOutput, JMSListenerTypeOK
<1>7. CASE QueueControl
  <2>1. \A p : Pending(q, p)' => Pending(q, p)
    BY <1>7 DEF QueueControl, PauseQueue, ResumeQueue, Pending, JMSOutput, JMSOutputs
  <2> QED
    BY <1>3, <1>4, <1>7, <2>1 DEF QueueControl, PauseQueue, ResumeQueue, cacheVars, brokerVars, Quiet
<1>8. CASE \E k \in Queues : ChooseQueue(k)
  BY <1>1, <1>2, <1>3, <1>4, <1>8 DEF ChooseQueue, JMSListenerTypeOK, cacheVars, brokerVars, Quiet
<1>9. CASE GetMessages
  <2>1. jl.queue # q /\ jl.queue \in Queues
    BY <1>9 DEF GetMessages, ReadsPolled, Polled
  <2>2. queued'[q] = queued[q]
    BY <1>1, <1>9, <2>1 DEF GetMessages, BrokersTypeOK
  <2> QED
    BY <1>2, <1>4, <1>5, <1>9, <2>2 DEF GetMessages, cacheVars, Quiet, QueueGrows
<1>10. CASE TakeMessage
  <2>1. jl.queue # q
    BY <1>10 DEF TakeMessage, ReadsPolled
  <2>2. NoneCached(q)
    BY <1>10, <2>1, AddCachesNone DEF TakeMessage
  <2>3. jl'.pc # "cache"
    BY <1>1, <1>10 DEF TakeMessage, JMSListenerTypeOK
  <2> QED
    BY <1>2, <1>3, <1>10, <2>2, <2>3 DEF TakeMessage, brokerVars, Quiet
<1>11. CASE NotifyTaken
  BY <1>1, <1>2, <1>3, <1>4, <1>11
     DEF NotifyTaken, NotifyAll, JMSListenerTypeOK, brokerVars, Quiet
<1>12. CASE MatchJMS
  <2>1. jl'.pc # "cache"
    BY <1>1, <1>5, <1>12 DEF MatchJMS, JMSListenerTypeOK
  <2> QED
    BY <1>2, <1>3, <1>4, <1>12, <2>1 DEF MatchJMS, cacheVars, brokerVars, Quiet
<1>13. CASE LoseJMSOutput
  BY <1>2, <1>3, <1>4, <1>6, <1>13 DEF LoseJMSOutput, cacheVars, brokerVars, Quiet
<1>14. CASE NotifyJMSOutput
  BY <1>2, <1>3, <1>4, <1>6, <1>14 DEF NotifyJMSOutput, NotifyAll, brokerVars, Quiet
<1>15. CASE SendJMSOutput
  <2>1. UNCHANGED queued
    BY <1>15 DEF SendJMSOutput, Produce, Append1, brokerVars
  <2> QED
    BY <1>2, <1>3, <1>4, <1>6, <1>15, <2>1 DEF SendJMSOutput, cacheVars, Quiet
<1>16. CASE MarkJMS
  <2>1. jl.queue # q
    BY <1>16 DEF MarkJMS, ReadsPolled
  <2>2. NoneCached(q)
    BY <1>1, <1>16, <2>1, MarkCachesNone DEF MarkJMS
  <2> QED
    BY <1>2, <1>3, <1>5, <1>16, <2>2 DEF MarkJMS, brokerVars, Quiet
<1> QED
  BY <1>7, <1>8, <1>9, <1>10, <1>11, <1>12, <1>13, <1>14, <1>15, <1>16
     DEF JMSThread, JMSListenerStep

LEMMA ReplySteps ==
  ASSUME Typed, ReadsPolled, [Next]_vars, NEW q \in Queues \ Polled
  PROVE  Quiet(q) \/ PutJMSOutput \/ CacheJMSOutput
<1>1. BrokersTypeOK /\ CacheTypeOK
  BY DEF Typed, TypeOK
<1>2. ASSUME jl' = jl PROVE \A p : Pending(q, p)' => Pending(q, p)
  BY <1>2 DEF Pending, JMSOutput, JMSOutputs
<1>3. ASSUME UNCHANGED queued PROVE QueueGrows(q)
  BY <1>3 DEF QueueGrows
<1>4. ASSUME messages' \subseteq messages PROVE NoneCached(q)
  BY <1>4 DEF NoneCached
<1>5. \A topic \in KafkaTopics : topic # q
  BY CommonAssumption
<1>6. CASE UNCHANGED vars
  BY <1>2, <1>3, <1>4, <1>6 DEF vars, brokerVars, cacheVars, jmsListenerVars, Quiet
<1>7. CASE ConsumerHazards \/ Receive
  <2>1. UNCHANGED <<jl, queued>>
    BY <1>7 DEF ConsumerHazards, Receive, Poll, KafkaFrame, jmsListenerVars, brokerVars
  <2>2. NoneCached(q)
    <3>1. CASE UNCHANGED messages
      BY <1>4, <3>1
    <3>2. ASSUME NEW r \in log, Poll(r) PROVE NoneCached(q)
      <4>1. r.topic \in KafkaTopics
        BY <1>1 DEF BrokersTypeOK, Record
      <4> QED
        BY <1>4, <1>5, <3>2, <4>1, AddCachesNone DEF Poll, CacheRecord, cacheVars
    <3> QED
      BY <1>7, <3>1, <3>2 DEF ConsumerHazards, Receive, cacheVars
  <2> QED
    BY <1>2, <1>3, <2>1, <2>2 DEF Quiet
<1>8. CASE ApplyRules
  <2>1. UNCHANGED <<jl, queued>>
    BY <1>8 DEF ApplyRules, ListenerStep, KafkaFrame, jmsListenerVars, Notify, Match, DropOutput,
                SendOutput, Duplicate, Mark, Produce, Append1, brokerVars
  <2>2. NoneCached(q)
    <3>1. CASE Mark
      <4>1. kl.msg.topic \in KafkaTopics
        BY <3>1 DEF Mark, Typed, TypeOK, KafkaListenerTypeOK, Record
      <4> QED
        BY <1>1, <1>5, <3>1, <4>1, MarkCachesNone DEF Mark
    <3>2. CASE Notify \/ Match \/ DropOutput \/ SendOutput \/ Duplicate
      BY <1>4, <3>2 DEF Notify, NotifyAll, Match, DropOutput, SendOutput, Duplicate, cacheVars
    <3> QED
      BY <1>8, <3>1, <3>2 DEF ApplyRules, ListenerStep
  <2> QED
    BY <1>2, <1>3, <2>1, <2>2 DEF Quiet
<1>9. CASE JMSThread \/ QueueControl
  BY <1>9, JMSThreadReplies
<1>10. CASE \E t \in Tests : Start(t) \/ Proceed(t)
  <2>1. UNCHANGED jl
    BY <1>10 DEF Start, Proceed, TestFrame, jmsListenerVars
  <2>2. messages' \subseteq messages
    BY <1>10 DEF Start, StartTest, Proceed, TestStep, DropInjection, Inject, ResendInjection,
                 InjectFails, Collect, GiveUp, BeginWait, BeginWaiting, EndWait, EndWaiting,
                 PurgeTopic, Purge, cacheVars
  <2>3. PICK t \in Tests : Start(t) \/ Proceed(t)
    BY <1>10
  <2>4. QueueGrows(q)
    <3>1. CASE Inject(t)
      <4>1. PICK x \in Sendable(ThisInjection(t).payload, ThisInjection(t).fault) :
                   SendInjection(ThisInjection(t), x)
        BY <3>1 DEF Inject
      <4>2. x \in Payloads
        BY <3>1, <4>1, InjectionTyped, SendableTyped DEF Inject
      <4> QED
        BY <4>1, <4>2, SendGrows
    <3>2. CASE ResendInjection(t)
      <4>1. run[t].resend \in Payloads
        BY DEF Typed, TestsTyped, TestTyped, RunType
      <4> QED
        BY <3>2, <4>1, SendGrows DEF ResendInjection
    <3>3. CASE ~ (Inject(t) \/ ResendInjection(t))
      BY <1>3, <2>3, <3>3
         DEF Start, StartTest, Proceed, TestStep, DropInjection, InjectFails, Collect, GiveUp,
             BeginWait, EndWait, brokerVars
    <3> QED
      BY <3>1, <3>2, <3>3
  <2> QED
    BY <1>2, <1>4, <2>1, <2>2, <2>4 DEF Quiet
<1>11. CASE CleanupThread \/ SystemSends \/ Time
  <2>1. UNCHANGED jl /\ messages' \subseteq messages
    BY <1>11 DEF CleanupThread, CleanupAllExpired, SystemSends, Time, jmsListenerVars, cacheVars
  <2>2. QueueGrows(q)
    BY <1>1, <1>3, <1>11, MessageFlowAssumption
       DEF CleanupThread, SystemSends, Time, brokerVars, Append1, Put, QueueGrows, BrokersTypeOK
  <2> QED
    BY <1>2, <1>4, <2>1, <2>2 DEF Quiet
<1> QED
  BY <1>6, <1>7, <1>8, <1>9, <1>10, <1>11 DEF Next

LEMMA ReadsPolledNext ==
  ASSUME Typed, ReadsPolled, [Next]_vars
  PROVE  ReadsPolled'
<1>1. JMSListenerTypeOK
  BY DEF Typed, TypeOK
<1>2. CASE UNCHANGED jl
  BY <1>2 DEF ReadsPolled
<1>3. ASSUME NEW batch, jl' = NextMessage(batch), jl.pc # "idle" PROVE ReadsPolled'
  BY <1>3 DEF NextMessage, JIdle, ReadsPolled
<1>4. CASE JMSListenerStep
  BY <1>1, <1>3, <1>4
     DEF JMSListenerStep, GetMessages, TakeMessage, NotifyTaken, MatchJMS, LoseJMSOutput,
         PutJMSOutput, CacheJMSOutput, NotifyJMSOutput, SendJMSOutput, MarkJMS, NextJMSOutput,
         ReadsPolled, JMSListenerTypeOK
<1>5. CASE \E q \in Queues : ChooseQueue(q)
  BY <1>1, <1>5 DEF ChooseQueue, ReadsPolled, JMSListenerTypeOK
<1>6. CASE QueueControl
  BY <1>2, <1>6 DEF QueueControl, PauseQueue, ResumeQueue
<1>7. CASE ~ (JMSThread \/ QueueControl)
  BY <1>2, <1>7
     DEF Next, vars, ConsumerHazards, Receive, ApplyRules, KafkaFrame, Start, Proceed, TestFrame,
         CleanupThread, SystemSends, Time, jmsListenerVars
<1> QED
  BY <1>4, <1>5, <1>6, <1>7 DEF JMSThread

LEMMA RepliesNext == Typed /\ RepliesInv /\ [Next]_vars => RepliesInv'
<1> SUFFICES ASSUME Typed, RepliesInv, [Next]_vars PROVE RepliesInv'
  OBVIOUS
<1>1. CacheFinite' /\ ReadsPolled'
  BY CacheStaysFinite, ReadsPolledNext DEF RepliesInv
<1>2. ASSUME NEW q \in Queues \ Polled, NEW p \in Payloads PROVE Covered(q, p)'
  <2>1. Covered(q, p) /\ CacheFinite /\ ReadsPolled /\ BrokersTypeOK
    BY DEF RepliesInv, AllCovered, Typed, TypeOK
  <2>2. CASE PutJMSOutput
    BY <2>1, <2>2, PutCovers
  <2>3. CASE CacheJMSOutput
    BY <2>1, <2>3, CacheCovers
  <2>4. CASE Quiet(q)
    BY <2>1, <2>4, QuietCovers DEF Quiet
  <2> QED
    BY <2>1, <2>2, <2>3, <2>4, ReplySteps
<1>3. AllCovered'
  BY <1>2 DEF AllCovered, Polled
<1> QED
  BY <1>1, <1>3 DEF RepliesInv

\* A reply in the cache was put: on a queue that no rule reads, the cache never
\* shows more replies with some body than put_message has put there.
THEOREM CachedRepliesWerePut == Spec => []RepliesWerePut
<1>1. Spec => []RepliesInv
  BY TypedInvariant, RepliesInit, RepliesNext, PTL DEF Spec
<1>2. Spec => [](Typed /\ RepliesInv)
  BY <1>1, TypedInvariant, PTL
<1> QED
  BY <1>2, CoveredIsPut, PTL
-----------------------------------------------------------------------------
(***************************************************************************)
(* Answers.  What a topic that only rules write to may still get from the  *)
(* record in hand is charged to it when it is delivered: two messages, of  *)
(* which an output takes one and its duplicate another.                    *)
(***************************************************************************)

RuleInHand     == KafkaRules[kl.msg.topic][kl.rule]
Answered(topic) == {r \in log : r.topic = topic}
Delivered(topic) == {r \in log : Asks(r, topic) /\ r.offset < position[SlotOf(r)]}

\* The place in _execute_rule allows two, one, or no more answers.
TwoDue(topic) ==
    \/ kl.pc \in {"notify", "match"} /\ Asks(kl.msg, topic)
    \/ kl.pc = "output" /\ \E n \in AnswersTo(RuleInHand, topic) : kl.out <= n
    \/ kl.pc = "duplicate" /\ \E n \in AnswersTo(RuleInHand, topic) : kl.out < n
OneDue(topic) == kl.pc = "duplicate" /\ kl.dest = topic
Due(topic) == IF TwoDue(topic) THEN 2 ELSE IF OneDue(topic) THEN 1 ELSE 0

\* The local rendered_destination names the topic after its output only.
DestAnswers(topic) ==
    /\ kl.pc \in {"poll", "notify", "match"} => kl.dest = NoDest
    /\ kl.pc \in {"output", "duplicate"} /\ kl.dest = topic => AnswersTo(RuleInHand, topic) # {}
    /\ OneDue(topic) => kl.out \in AnswersTo(RuleInHand, topic)

Balanced(topic) == Cardinality(Answered(topic)) + Due(topic) <= 2 * Cardinality(Delivered(topic))
NeverConnected  == losses = 0 /\ ~connected => \A s \in Slots : committed[s] = NoOffset
LogFinite       == IsFiniteSet(log)
AnswersInv ==
    /\ LogFinite /\ NeverConnected
    /\ \A topic \in OnlyAnswers : DestAnswers(topic)
    /\ losses = 0 /\ external = 0 => \A topic \in OnlyAnswers : Balanced(topic)

LEMMA AnswersCount ==
  ASSUME LogFinite, NEW topic
  PROVE  IsFiniteSet(Answered(topic)) /\ IsFiniteSet(Delivered(topic))
BY FS_Subset, Answered(topic) \in SUBSET log, Delivered(topic) \in SUBSET log
   DEF LogFinite, Answered, Delivered

LEMMA AnswersCountNext ==
  ASSUME LogFinite', NEW topic
  PROVE  IsFiniteSet(Answered(topic)') /\ IsFiniteSet(Delivered(topic)')
BY FS_Subset, Answered(topic)' \in SUBSET log', Delivered(topic)' \in SUBSET log'
   DEF LogFinite, Answered, Delivered

\* The arithmetic: nothing new, one answer more, one delivery more.
LEMMA Balance ==
  ASSUME NEW A, NEW D, NEW B, NEW E, IsFiniteSet(A), IsFiniteSet(D), IsFiniteSet(B), IsFiniteSet(E),
         NEW d \in 0..2, NEW e \in 0..2, Cardinality(A) + d <= 2 * Cardinality(D),
         \/ B \subseteq A /\ D \subseteq E /\ e <= d
         \/ (\E x : B \subseteq A \cup {x}) /\ D \subseteq E /\ e + 1 <= d
         \/ B \subseteq A /\ (\E x : x \notin D /\ D \cup {x} \subseteq E) /\ d = 0
  PROVE  Cardinality(B) + e <= 2 * Cardinality(E)
<1>1. PICK a \in Nat, c \in Nat : a = Cardinality(A) /\ c = Cardinality(D)
  BY FS_CardinalityType
<1>2. PICK b \in Nat, f \in Nat : b = Cardinality(B) /\ f = Cardinality(E)
  BY FS_CardinalityType
<1>3. B \subseteq A => b <= a
  BY <1>1, <1>2, FS_Subset
<1>4. D \subseteq E => c <= f
  BY <1>1, <1>2, FS_Subset
<1>5. ASSUME NEW x, B \subseteq A \cup {x} PROVE b <= a + 1
  <2>1. IsFiniteSet(A \cup {x}) /\ Cardinality(A \cup {x}) \in {a, a + 1}
    BY <1>1, FS_AddElement
  <2>2. b <= Cardinality(A \cup {x})
    BY <1>2, <1>5, <2>1, FS_Subset
  <2> QED
    BY <2>1, <2>2
<1>6. ASSUME NEW x, x \notin D, D \cup {x} \subseteq E PROVE c + 1 <= f
  <2>1. IsFiniteSet(D \cup {x}) /\ Cardinality(D \cup {x}) = c + 1
    BY <1>1, <1>6, FS_AddElement
  <2> QED
    BY <1>2, <1>6, <2>1, FS_Subset
<1>7. a + d <= 2 * c
  BY <1>1
<1>8. b + e <= 2 * f
  <2>1. CASE B \subseteq A /\ D \subseteq E /\ e <= d
    BY <1>3, <1>4, <1>7, <2>1
  <2>2. CASE (\E x : B \subseteq A \cup {x}) /\ D \subseteq E /\ e + 1 <= d
    BY <1>4, <1>5, <1>7, <2>2
  <2>3. CASE B \subseteq A /\ (\E x : x \notin D /\ D \cup {x} \subseteq E) /\ d = 0
    BY <1>3, <1>6, <1>7, <2>3
  <2> QED
    BY <2>1, <2>2, <2>3
<1> QED
  BY <1>2, <1>8

LEMMA DueTyped == ASSUME NEW topic PROVE Due(topic) \in 0..2 /\ Due(topic)' \in 0..2
BY DEF Due

(***************************************************************************)
(* The steps that send nothing to the topic.                               *)
(***************************************************************************)
Silent(topic) == log \subseteq log' /\ \A m \in log' : m.topic = topic => m \in log

LEMMA SilentWhenSame ==
  ASSUME log' = log, NEW topic PROVE Silent(topic)
BY DEF Silent

LEMMA ProduceElsewhere ==
  ASSUME NEW topic, NEW d, NEW payload, Produce(d, payload), d # topic PROVE Silent(topic)
<1>1. CASE log' = log
  BY <1>1, SilentWhenSame
<1>2. ASSUME NEW p \in Partitions, Append1(d, p, payload) PROVE Silent(topic)
  <2> DEFINE m == [topic |-> d, partition |-> p, offset |-> logEnd[<<d, p>>],
                   payload |-> payload, timestamp |-> clock]
  <2>1. log' = log \cup {m} /\ m.topic = d
    BY <1>2 DEF Append1
  <2> HIDE DEF m
  <2> QED
    BY <2>1 DEF Silent
<1> QED
  BY <1>1, <1>2 DEF Produce, brokerVars

LEMMA InjectsElsewhere ==
  ASSUME Typed, NEW topic \in OnlyAnswers, NEW t \in Tests, NEW payload,
         run[t].pc \in {"inject", "resend"}, SendInjection(ThisInjection(t), payload)
  PROVE  Silent(topic)
<1>1. ThisInjection(t).dest # topic
  <2>1. run[t].inj \in DOMAIN Injections[t]
    BY LenProperties, TestExecutorAssumption DEF Typed, TestsTyped, TestTyped
  <2> QED
    BY <2>1 DEF OnlyAnswers, NeverInjected, ThisInjection
<1> QED
  BY <1>1, ProduceElsewhere, SilentWhenSame DEF SendInjection, Put

LEMMA QueuesAnswerElsewhere ==
  ASSUME Typed, NEW topic \in OnlyAnswers, SendJMSOutput PROVE Silent(topic)
<1>1. jl.queue \in Queues /\ jl.rule \in DOMAIN JMSRules[jl.queue] /\ jl.out \in DOMAIN JMSOutputs
  BY DEF SendJMSOutput, Typed, TypeOK, JMSListenerTypeOK, JMSRuleTyped
<1>2. JMSOutput.type = "http" \/ JMSOutput.dest # topic
  BY <1>1 DEF SendJMSOutput, JMSOutput, JMSOutputs, OnlyAnswers, NotForQueues
<1> QED
  BY <1>2, ProduceElsewhere, SilentWhenSame DEF SendJMSOutput, brokerVars

LEMMA OthersSilent ==
  ASSUME Typed, [Next]_vars, NEW topic \in OnlyAnswers
  PROVE  \/ ConsumerHazards \/ Receive \/ ApplyRules \/ SystemSends
         \/ Silent(topic) /\ UNCHANGED kafkaListenerVars /\ external' = external
<1>1. CASE UNCHANGED vars
  BY <1>1, SilentWhenSame DEF vars, brokerVars
<1>2. CASE JMSThread \/ QueueControl
  <2>1. UNCHANGED kafkaListenerVars /\ external' = external
    BY <1>2 DEF JMSThread, QueueControl, JMSFrame
  <2>2. SendJMSOutput \/ log' = log
    BY <1>2
       DEF JMSThread, QueueControl, PauseQueue, ResumeQueue, ChooseQueue, JMSListenerStep,
           GetMessages, TakeMessage, NotifyTaken, MatchJMS, LoseJMSOutput, PutJMSOutput, Put,
           CacheJMSOutput, NotifyJMSOutput, MarkJMS, brokerVars
  <2> QED
    BY <2>1, <2>2, SilentWhenSame, QueuesAnswerElsewhere
<1>3. ASSUME NEW t \in Tests, Start(t) \/ Proceed(t)
      PROVE  Silent(topic) /\ UNCHANGED kafkaListenerVars /\ external' = external
  <2>1. UNCHANGED kafkaListenerVars /\ external' = external
    BY <1>3 DEF Start, Proceed, TestFrame
  <2>2. Inject(t) \/ ResendInjection(t) \/ log' = log
    BY <1>3
       DEF Start, StartTest, Proceed, TestStep, DropInjection, InjectFails, Collect, GiveUp,
           BeginWait, EndWait, brokerVars
  <2> QED
    BY <2>1, <2>2, SilentWhenSame, InjectsElsewhere DEF Inject, ResendInjection
<1>4. CASE CleanupThread \/ Time
  BY <1>4, SilentWhenSame DEF CleanupThread, Time, brokerVars
<1> QED
  BY <1>1, <1>2, <1>3, <1>4 DEF Next

(***************************************************************************)
(* What is due, step by step of the listener.                              *)
(***************************************************************************)
LEMMA RuleAnswersOnce ==
  ASSUME Typed, NEW topic \in OnlyAnswers, kl.pc \in {"output", "duplicate"}
  PROVE  /\ OneAnswer(RuleInHand, topic) /\ kl.out \in DOMAIN Outputs /\ DOMAIN Outputs \subseteq Nat
         /\ AnswersTo(RuleInHand, topic) \subseteq DOMAIN Outputs
         /\ Outputs = RuleInHand.outputs
<1>1. /\ kl.msg.topic \in KafkaTopics /\ kl.rule \in DOMAIN KafkaRules[kl.msg.topic]
      /\ kl.out \in DOMAIN Outputs
  BY DEF Typed, TypeOK, KafkaListenerTypeOK, KafkaRuleTyped, Record
<1>2. OneAnswer(RuleInHand, topic)
  BY <1>1 DEF OnlyAnswers, RuleInHand
<1>3. DOMAIN Outputs \subseteq Nat
  BY KafkaOutputTyped, LenProperties
<1>4. Outputs = RuleInHand.outputs
  BY DEF Outputs, RuleInHand
<1> QED
  BY <1>1, <1>2, <1>3, <1>4 DEF AnswersTo

\* After an output: only the outputs that come later may still answer.
LEMMA DueAfterOutput ==
  ASSUME Typed, NEW topic \in OnlyAnswers, kl.pc \in {"output", "duplicate"},
         NEW dest, NEW payload, kl' = NextOutput(dest, payload),
         dest = topic => AnswersTo(RuleInHand, topic) # {}
  PROVE  /\ TwoDue(topic)' => \E n \in AnswersTo(RuleInHand, topic) : kl.out < n
         /\ ~ OneDue(topic)' /\ DestAnswers(topic)'
<1>1. /\ kl'.msg = kl.msg /\ kl'.rule = kl.rule /\ kl'.dest = dest
      /\ kl'.pc = IF kl.out < Len(Outputs) THEN "output" ELSE "mark"
      /\ kl'.out = IF kl.out < Len(Outputs) THEN kl.out + 1 ELSE kl.out
  BY DEF NextOutput, Typed, TypeOK, KafkaListenerTypeOK
<1>2. RuleInHand' = RuleInHand
  BY <1>1 DEF RuleInHand
<1>3. AnswersTo(RuleInHand, topic)' = AnswersTo(RuleInHand, topic)
  BY <1>2 DEF AnswersTo
<1>4. ~ OneDue(topic)' /\ DestAnswers(topic)'
  BY <1>1, <1>3 DEF OneDue, DestAnswers
<1>5. ASSUME TwoDue(topic)' PROVE \E n \in AnswersTo(RuleInHand, topic) : kl.out < n
  <2>1. kl'.pc = "output"
    BY <1>1, <1>5 DEF TwoDue
  <2>2. kl'.out = kl.out + 1
    BY <1>1, <2>1
  <2>3. PICK n \in AnswersTo(RuleInHand, topic) : kl.out + 1 <= n
    BY <1>3, <1>5, <2>1, <2>2 DEF TwoDue
  <2>4. n \in Nat /\ kl.out \in Nat
    BY <2>3, RuleAnswersOnce
  <2> QED
    BY <2>3, <2>4
<1> QED
  BY <1>4, <1>5

\* What SendOutput and Duplicate send: an answer, or nothing to the topic.
LEMMA DueAfterSend ==
  ASSUME Typed, NEW topic \in OnlyAnswers, DestAnswers(topic), SendOutput
  PROVE  /\ DestAnswers(topic)'
         /\ \/ /\ Silent(topic) /\ (TwoDue(topic)' => TwoDue(topic))
               /\ OneDue(topic)' => TwoDue(topic)
            \/ TwoDue(topic) /\ ~ TwoDue(topic)' /\ \E payload : Produce(topic, payload)
<1> DEFINE o == Outputs[kl.out]
           dest == IF o.type \in {"http", "db"} THEN kl.dest ELSE o.dest
           own == AnswersTo(RuleInHand, topic)
<1>1. kl.pc = "output"
  BY DEF SendOutput
<1>2. /\ OneAnswer(RuleInHand, topic) /\ kl.out \in DOMAIN Outputs /\ DOMAIN Outputs \subseteq Nat
      /\ own \subseteq DOMAIN Outputs /\ Outputs = RuleInHand.outputs
  BY <1>1, RuleAnswersOnce
<1>3. PICK payload : /\ IF o.type \in {"http", "db"} THEN UNCHANGED brokerVars
                                                     ELSE Produce(o.dest, payload)
                     /\ \/ kl' = NextOutput(dest, payload)
                        \/ /\ o.type # "http" /\ "duplicate" \in o.fault
                           /\ kl' = [kl EXCEPT !.dest = dest, !.payload = payload,
                                               !.pc = "duplicate"]
  BY DEF SendOutput
<1>4. kl.out \in own <=> o.type \notin {"http", "db"} /\ o.dest = topic
  BY <1>2 DEF AnswersTo
<1>5. (dest = topic) => own # {}
  BY <1>1, <1>4 DEF DestAnswers
<1>6. /\ \A n \in own : kl.out < n => TwoDue(topic)
      /\ kl.out \in own => TwoDue(topic) /\ \A n \in own : ~ (kl.out < n)
  <2>1. \A n \in own : n \in Nat /\ kl.out \in Nat
    BY <1>2
  <2>2. kl.out \in own => \A n \in own : n = kl.out
    BY <1>2 DEF OneAnswer
  <2> QED
    BY <1>1, <2>1, <2>2 DEF TwoDue
<1>7. kl.out \in own => \E x : Produce(topic, x)
  BY <1>3, <1>4
<1>8. kl.out \notin own => Silent(topic)
  BY <1>3, <1>4, SilentWhenSame, ProduceElsewhere DEF brokerVars
<1>9. CASE kl' = NextOutput(dest, payload)
  <2>1. /\ TwoDue(topic)' => \E n \in own : kl.out < n
        /\ ~ OneDue(topic)' /\ DestAnswers(topic)'
    BY <1>1, <1>5, <1>9, DueAfterOutput
  <2> HIDE DEF own, dest, o
  <2> QED
    BY <1>6, <1>7, <1>8, <2>1
<1>10. CASE /\ o.type # "http" /\ "duplicate" \in o.fault
            /\ kl' = [kl EXCEPT !.dest = dest, !.payload = payload, !.pc = "duplicate"]
  <2>1. /\ kl'.msg = kl.msg /\ kl'.rule = kl.rule /\ kl'.dest = dest /\ kl'.out = kl.out
        /\ kl'.pc = "duplicate"
    BY <1>10 DEF Typed, TypeOK, KafkaListenerTypeOK
  <2>2. RuleInHand' = RuleInHand
    BY <2>1 DEF RuleInHand
  <2>3. AnswersTo(RuleInHand, topic)' = own
    BY <2>2 DEF AnswersTo
  <2>4. dest = topic => kl.out \in own
    <3> SUFFICES ASSUME dest = topic, kl.out \notin own PROVE FALSE
      OBVIOUS
    <3>1. o.type = "db"
      BY <1>4, <1>10
    <3> QED
      BY <1>2, <1>5, <1>10, <3>1 DEF OneAnswer
  <2>5. TwoDue(topic)' => \E n \in own : kl.out < n
    BY <2>1, <2>3 DEF TwoDue
  <2>6. OneDue(topic)' => kl.out \in own
    BY <2>1, <2>4 DEF OneDue
  <2>7. DestAnswers(topic)'
    BY <2>1, <2>3, <2>4 DEF DestAnswers, OneDue
  <2> HIDE DEF own, dest, o
  <2> QED
    BY <1>6, <1>7, <1>8, <2>5, <2>6, <2>7
<1> QED
  BY <1>3, <1>9, <1>10

LEMMA DueAfterDuplicate ==
  ASSUME Typed, NEW topic \in OnlyAnswers, DestAnswers(topic), Duplicate
  PROVE  /\ DestAnswers(topic)' /\ ~ OneDue(topic)'
         /\ \/ Silent(topic) /\ (TwoDue(topic)' => TwoDue(topic))
            \/ OneDue(topic) /\ ~ TwoDue(topic)' /\ \E payload : Produce(topic, payload)
<1> DEFINE own == AnswersTo(RuleInHand, topic)
<1>1. kl.pc = "duplicate" /\ Produce(kl.dest, kl.payload) /\ kl' = NextOutput(kl.dest, kl.payload)
  BY DEF Duplicate
<1>2. OneAnswer(RuleInHand, topic) /\ DOMAIN Outputs \subseteq Nat /\ own \subseteq DOMAIN Outputs
  BY <1>1, RuleAnswersOnce
<1>3. kl.dest = topic => kl.out \in own
  BY <1>1 DEF DestAnswers, OneDue
<1>4. /\ TwoDue(topic)' => \E n \in own : kl.out < n
      /\ ~ OneDue(topic)' /\ DestAnswers(topic)'
  BY <1>1, <1>3, DueAfterOutput
<1>5. TwoDue(topic)' => TwoDue(topic)
  BY <1>1, <1>4 DEF TwoDue
<1>6. CASE kl.dest # topic
  BY <1>1, <1>4, <1>5, <1>6, ProduceElsewhere
<1>7. CASE kl.dest = topic
  <2>1. \A n \in own : n = kl.out /\ n \in Nat
    BY <1>2, <1>3, <1>7 DEF OneAnswer
  <2>2. ~ TwoDue(topic)'
    BY <1>4, <2>1
  <2> QED
    BY <1>1, <1>4, <1>7, <2>2 DEF OneDue
<1> QED
  BY <1>6, <1>7

LEMMA DueAfterDrop ==
  ASSUME Typed, NEW topic \in OnlyAnswers, DestAnswers(topic), DropOutput
  PROVE  DestAnswers(topic)' /\ ~ OneDue(topic)' /\ (TwoDue(topic)' => TwoDue(topic))
<1>1. kl.pc = "output" /\ kl' = NextOutput(kl.dest, kl.payload)
  BY DEF DropOutput
<1>2. DOMAIN Outputs \subseteq Nat /\ AnswersTo(RuleInHand, topic) \subseteq DOMAIN Outputs
      /\ kl.out \in DOMAIN Outputs
  BY <1>1, RuleAnswersOnce
<1>3. /\ TwoDue(topic)' => \E n \in AnswersTo(RuleInHand, topic) : kl.out < n
      /\ ~ OneDue(topic)' /\ DestAnswers(topic)'
  BY <1>1, DueAfterOutput DEF DestAnswers
<1>4. \A n \in AnswersTo(RuleInHand, topic) : kl.out < n => kl.out <= n
  BY <1>2
<1> QED
  BY <1>1, <1>3, <1>4 DEF TwoDue

LEMMA DueAfterMatch ==
  ASSUME Typed, NEW topic \in OnlyAnswers, DestAnswers(topic), Match
  PROVE  DestAnswers(topic)' /\ ~ OneDue(topic)' /\ (TwoDue(topic)' => TwoDue(topic))
<1> DEFINE rules == KafkaRules[kl.msg.topic]
           hits  == Matching(rules, kl.msg.payload)
<1>0. kl.pc = "match" /\ kl.dest = NoDest /\ NoDest # topic
  <2>1. topic \in Destinations
    BY DEF OnlyAnswers, Destinations
  <2> QED
    BY <2>1, RulesAssumption DEF Match, DestAnswers
<1>1. CASE kl' = Idle
  BY <1>1 DEF Idle, DestAnswers, OneDue, TwoDue
<1>2. ASSUME NEW i \in hits, IsFirst(i, hits),
             kl' = [kl EXCEPT !.rule = i, !.out = 1,
                       !.pc = IF rules[i].skip \/ rules[i].outputs = <<>> THEN "mark" ELSE "output"]
      PROVE  DestAnswers(topic)' /\ ~ OneDue(topic)' /\ (TwoDue(topic)' => TwoDue(topic))
  <2>1. /\ kl'.msg = kl.msg /\ kl'.rule = i /\ kl'.dest = NoDest
        /\ kl'.pc = IF rules[i].skip \/ rules[i].outputs = <<>> THEN "mark" ELSE "output"
    BY <1>0, <1>2 DEF Typed, TypeOK, KafkaListenerTypeOK
  <2>2. DestAnswers(topic)' /\ ~ OneDue(topic)'
    BY <1>0, <2>1 DEF DestAnswers, OneDue
  <2>3. ASSUME TwoDue(topic)' PROVE TwoDue(topic)
    <3>1. kl'.pc = "output" /\ ~ rules[i].skip
      BY <2>1, <2>3 DEF TwoDue
    <3>2. RuleInHand' = rules[i]
      BY <2>1 DEF RuleInHand
    <3>3. AnswersTo(RuleInHand, topic)' = AnswersTo(rules[i], topic)
      BY <3>2 DEF AnswersTo
    <3>4. AnswersTo(rules[i], topic) # {}
      BY <2>3, <3>1, <3>3 DEF TwoDue
    <3>5. Asks(kl.msg, topic)
      BY <1>2, <3>1, <3>4 DEF Asks
    <3> QED
      BY <1>0, <3>5 DEF TwoDue
  <2> QED
    BY <2>2, <2>3
<1> QED
  BY <1>1, <1>2 DEF Match

LEMMA DueAfterNotifyOrMark ==
  ASSUME Typed, NEW topic \in OnlyAnswers, DestAnswers(topic), Notify \/ Mark
  PROVE  DestAnswers(topic)' /\ ~ OneDue(topic)' /\ (TwoDue(topic)' => TwoDue(topic))
<1>1. CASE Mark
  BY <1>1 DEF Mark, Idle, DestAnswers, OneDue, TwoDue
<1>2. CASE Notify
  <2>1. kl.pc = "notify" /\ kl'.pc = "match" /\ kl'.msg = kl.msg /\ kl'.dest = kl.dest
    BY <1>2 DEF Notify, Typed, TypeOK, KafkaListenerTypeOK
  <2>2. DestAnswers(topic)' /\ ~ OneDue(topic)'
    BY <2>1 DEF DestAnswers, OneDue
  <2>3. TwoDue(topic)' => TwoDue(topic)
    BY <2>1 DEF TwoDue, Asks
  <2> QED
    BY <2>2, <2>3
<1> QED
  BY <1>1, <1>2

(***************************************************************************)
(* The balance, step by step.                                              *)
(***************************************************************************)
LEMMA DeliveredGrows ==
  ASSUME Typed, log \subseteq log',
         \A s \in Slots : position'[s] \in Nat /\ position[s] <= position'[s], NEW topic
  PROVE  Delivered(topic) \subseteq Delivered(topic)'
<1> SUFFICES ASSUME NEW r \in Delivered(topic) PROVE r \in Delivered(topic)'
  OBVIOUS
<1>1. r \in log' /\ Asks(r, topic) /\ r.offset < position[SlotOf(r)] /\ r \in Record
  BY DEF Delivered, Typed, TypeOK, BrokersTypeOK
<1>2. SlotOf(r) \in Slots /\ r.offset \in Nat /\ position[SlotOf(r)] \in Nat
  BY <1>1, SlotOfRecord DEF Record, Typed, TypeOK, KafkaListenerTypeOK
<1>3. r.offset < position'[SlotOf(r)]
  BY <1>1, <1>2
<1> QED
  BY <1>1, <1>3 DEF Delivered, Asks, SlotOf

LEMMA SilentBalances ==
  ASSUME Typed, LogFinite, LogFinite', NEW topic, Balanced(topic), Silent(topic),
         \A s \in Slots : position'[s] \in Nat /\ position[s] <= position'[s],
         TwoDue(topic)' => TwoDue(topic), OneDue(topic)' => TwoDue(topic) \/ OneDue(topic)
  PROVE  Balanced(topic)'
<1>1. /\ IsFiniteSet(Answered(topic)) /\ IsFiniteSet(Delivered(topic))
      /\ IsFiniteSet(Answered(topic)') /\ IsFiniteSet(Delivered(topic)')
  BY AnswersCount, AnswersCountNext
<1>2. Answered(topic)' \subseteq Answered(topic)
  BY DEF Silent, Answered
<1>3. Delivered(topic) \subseteq Delivered(topic)'
  BY DeliveredGrows DEF Silent
<1>4. Due(topic) \in 0..2 /\ Due(topic)' \in 0..2 /\ Due(topic)' <= Due(topic)
  BY DEF Due
<1>5. Cardinality(Answered(topic)) + Due(topic) <= 2 * Cardinality(Delivered(topic))
  BY DEF Balanced
<1>6. Cardinality(Answered(topic)') + Due(topic)' <= 2 * Cardinality(Delivered(topic)')
  BY <1>1, <1>2, <1>3, <1>4, <1>5, Balance
<1> QED
  BY <1>6 DEF Balanced

LEMMA AnswerBalances ==
  ASSUME Typed, LogFinite, LogFinite', NEW topic, Balanced(topic), position' = position,
         NEW payload, Produce(topic, payload),
         \/ TwoDue(topic) /\ ~ TwoDue(topic)'
         \/ OneDue(topic) /\ ~ TwoDue(topic)' /\ ~ OneDue(topic)'
  PROVE  Balanced(topic)'
<1>1. /\ IsFiniteSet(Answered(topic)) /\ IsFiniteSet(Delivered(topic))
      /\ IsFiniteSet(Answered(topic)') /\ IsFiniteSet(Delivered(topic)')
  BY AnswersCount, AnswersCountNext
<1>2. PICK x : log \subseteq log' /\ log' \subseteq log \cup {x}
  BY DEF Produce, Append1, brokerVars
<1>3. \E y : Answered(topic)' \subseteq Answered(topic) \cup {y}
  <2>1. Answered(topic)' \subseteq Answered(topic) \cup {x}
    BY <1>2 DEF Answered
  <2> QED
    BY <2>1
<1>4. \A s \in Slots : position'[s] \in Nat /\ position[s] <= position'[s]
  BY DEF Typed, TypeOK, KafkaListenerTypeOK
<1>5. Delivered(topic) \subseteq Delivered(topic)'
  BY <1>2, <1>4, DeliveredGrows
<1>6. Due(topic) \in 0..2 /\ Due(topic)' \in 0..2 /\ Due(topic)' + 1 <= Due(topic)
  BY DEF Due
<1>7. Cardinality(Answered(topic)) + Due(topic) <= 2 * Cardinality(Delivered(topic))
  BY DEF Balanced
<1>8. Cardinality(Answered(topic)') + Due(topic)' <= 2 * Cardinality(Delivered(topic)')
  BY <1>1, <1>3, <1>5, <1>6, <1>7, Balance
<1> QED
  BY <1>8 DEF Balanced

LEMMA ListenerBalances ==
  ASSUME Typed, LogFinite, LogFinite', NEW topic \in OnlyAnswers, DestAnswers(topic), ApplyRules
  PROVE  DestAnswers(topic)' /\ (Balanced(topic) => Balanced(topic)')
<1>1. position' = position
  BY DEF ApplyRules, ListenerStep, Notify, Match, DropOutput, SendOutput, Duplicate, Mark,
         consumerVars
<1>2. \A s \in Slots : position'[s] \in Nat /\ position[s] <= position'[s]
  BY <1>1 DEF Typed, TypeOK, KafkaListenerTypeOK
<1>3. CASE SendOutput
  BY <1>1, <1>2, <1>3, DueAfterSend, SilentBalances, AnswerBalances
<1>4. CASE Duplicate
  BY <1>1, <1>2, <1>4, DueAfterDuplicate, SilentBalances, AnswerBalances
<1>5. CASE Notify \/ Match \/ DropOutput \/ Mark
  <2>1. DestAnswers(topic)' /\ ~ OneDue(topic)' /\ (TwoDue(topic)' => TwoDue(topic))
    BY <1>5, DueAfterDrop, DueAfterMatch, DueAfterNotifyOrMark
  <2>2. Silent(topic)
    BY <1>5, SilentWhenSame DEF Notify, Match, DropOutput, Mark, brokerVars
  <2> QED
    BY <1>2, <2>1, <2>2, SilentBalances
<1> QED
  BY <1>3, <1>4, <1>5 DEF ApplyRules, ListenerStep

LEMMA PollBalances ==
  ASSUME Typed, LogOrdered, LogFinite, LogFinite', NEW topic \in OnlyAnswers, DestAnswers(topic),
         NEW r \in log, Poll(r)
  PROVE  DestAnswers(topic)' /\ (Balanced(topic) => Balanced(topic)')
<1>1. /\ kl.pc = "poll" /\ kl'.dest = kl.dest /\ log' = log
      /\ kl'.pc = "poll" \/ (kl'.pc = "notify" /\ kl'.msg = r)
      /\ position[SlotOf(r)] = r.offset
      /\ position' = [position EXCEPT ![SlotOf(r)] = r.offset + 1]
  BY DEF Poll, CacheRecord, brokerVars, SlotOf, Typed, TypeOK, KafkaListenerTypeOK
<1>2. r.offset \in Nat /\ SlotOf(r) \in Slots /\ position \in [Slots -> Nat]
  BY SlotOfRecord DEF Typed, TypeOK, BrokersTypeOK, KafkaListenerTypeOK, Record
<1>3. \A s \in Slots : position'[s] \in Nat /\ position[s] <= position'[s]
  BY <1>1, <1>2
<1>4. DestAnswers(topic)' /\ ~ OneDue(topic)' /\ ~ OneDue(topic) /\ ~ TwoDue(topic)
  BY <1>1 DEF DestAnswers, OneDue, TwoDue
<1>5. TwoDue(topic)' => Asks(r, topic)
  BY <1>1 DEF TwoDue, Asks
<1>6. CASE ~ Asks(r, topic)
  BY <1>1, <1>3, <1>4, <1>5, <1>6, SilentWhenSame, SilentBalances
<1>7. ASSUME Asks(r, topic), Balanced(topic) PROVE Balanced(topic)'
  <2>1. /\ IsFiniteSet(Answered(topic)) /\ IsFiniteSet(Delivered(topic))
        /\ IsFiniteSet(Answered(topic)') /\ IsFiniteSet(Delivered(topic)')
    BY AnswersCount, AnswersCountNext
  <2>2. Answered(topic)' \subseteq Answered(topic)
    BY <1>1 DEF Answered
  <2>3. r \notin Delivered(topic)
    BY <1>1, <1>2 DEF Delivered
  <2>4. r \in Delivered(topic)'
    <3>1. position'[SlotOf(r)] = r.offset + 1 /\ r.offset < r.offset + 1
      BY <1>1, <1>2
    <3> QED
      BY <1>1, <1>7, <3>1 DEF Delivered, Asks, SlotOf
  <2>5. \E x : x \notin Delivered(topic) /\ Delivered(topic) \cup {x} \subseteq Delivered(topic)'
    BY <1>1, <1>3, <2>3, <2>4, DeliveredGrows
  <2>6. Due(topic) = 0 /\ Due(topic) \in 0..2 /\ Due(topic)' \in 0..2
    BY <1>4 DEF Due
  <2>7. Cardinality(Answered(topic)) + Due(topic) <= 2 * Cardinality(Delivered(topic))
    BY <1>7 DEF Balanced
  <2>8. Cardinality(Answered(topic)') + Due(topic)' <= 2 * Cardinality(Delivered(topic)')
    BY <2>1, <2>2, <2>5, <2>6, <2>7, Balance
  <2> QED
    BY <2>8 DEF Balanced
<1> QED
  BY <1>4, <1>6, <1>7

\* Without a loss the consumer connects once, behind nothing it has read.
LEMMA ConsumerBalances ==
  ASSUME Typed, LogOrdered, LogFinite, LogFinite', NeverConnected, NEW topic \in OnlyAnswers,
         DestAnswers(topic), ConsumerStep, UNCHANGED kl
  PROVE  DestAnswers(topic)' /\ (Balanced(topic) => losses' # 0 \/ Balanced(topic)')
<1>1. /\ DestAnswers(topic)' /\ (TwoDue(topic)' => TwoDue(topic)) /\ (OneDue(topic)' => OneDue(topic))
  BY DEF DestAnswers, TwoDue, OneDue, RuleInHand, AnswersTo, Asks
<1>2. log' = log /\ Silent(topic)
  BY SilentWhenSame DEF ConsumerStep
<1>3. \A s \in Slots : position[s] \in Nat /\ logEnd[s] \in Nat
  BY DEF Typed, TypeOK, BrokersTypeOK, KafkaListenerTypeOK
<1>4. CASE LoseConsumer
  <2>1. losses' # 0
    BY <1>4 DEF LoseConsumer, Typed, TypeOK, KafkaListenerTypeOK
  <2> QED
    BY <1>1, <2>1
<1>5. CASE losses = 0 /\ Connect
  <2>1. \A s \in Slots : position'[s] = logEnd[s]
    BY <1>5 DEF Connect, NeverConnected
  <2>2. \A s \in Slots : position'[s] \in Nat /\ position[s] <= position'[s]
    BY <1>3, <2>1 DEF LogOrdered
  <2> QED
    BY <1>1, <1>2, <2>2, SilentBalances
<1>6. CASE losses # 0 /\ Connect
  BY <1>1, <1>6 DEF Connect
<1>7. CASE AutoCommit
  <2>1. \A s \in Slots : position'[s] \in Nat /\ position[s] <= position'[s]
    BY <1>3, <1>7 DEF AutoCommit
  <2> QED
    BY <1>1, <1>2, <2>1, SilentBalances
<1> QED
  BY <1>4, <1>5, <1>6, <1>7 DEF ConsumerStep

LEMMA LogStaysFinite == ASSUME LogFinite, [Next]_vars PROVE LogFinite'
<1>1. CASE log' = log
  BY <1>1 DEF LogFinite
<1>2. ASSUME NEW m, log' = log \cup {m} PROVE LogFinite'
  BY <1>2, FS_AddElement DEF LogFinite
<1> QED
  BY <1>1, <1>2, SendsAtMostOne DEF Sends1

LEMMA NeverConnectedNext ==
  ASSUME Typed, NeverConnected, [Next]_vars PROVE NeverConnected'
<1>1. CASE ConsumerStep
  BY <1>1 DEF ConsumerStep, Connect, AutoCommit, LoseConsumer, NeverConnected, Typed, TypeOK,
              KafkaListenerTypeOK
<1>2. CASE \E r \in log : Poll(r)
  BY <1>2 DEF Poll, NeverConnected
<1>3. CASE UNCHANGED consumerVars
  BY <1>3 DEF consumerVars, NeverConnected
<1> QED
  BY <1>1, <1>2, <1>3, StepKinds

LEMMA LossesStay ==
  ASSUME Typed, [Next]_vars PROVE losses' = 0 => losses = 0
<1>1. losses \in Nat
  BY DEF Typed, TypeOK, KafkaListenerTypeOK
<1>2. CASE ConsumerStep
  BY <1>1, <1>2 DEF ConsumerStep, Connect, AutoCommit, LoseConsumer
<1>3. CASE \E r \in log : Poll(r)
  BY <1>3 DEF Poll
<1>4. CASE UNCHANGED consumerVars
  BY <1>4 DEF consumerVars
<1> QED
  BY <1>2, <1>3, <1>4, StepKinds

LEMMA ExternalStays ==
  ASSUME Typed, [Next]_vars PROVE external' = 0 => external = 0
<1>1. CASE SystemSends
  BY <1>1 DEF SystemSends, Typed, TypeOK
<1>2. CASE ~ SystemSends
  BY <1>2
     DEF Next, vars, ConsumerHazards, Receive, ApplyRules, KafkaFrame, JMSThread, QueueControl,
         JMSFrame, Start, Proceed, TestFrame, CleanupThread, Time
<1> QED
  BY <1>1, <1>2

LEMMA AnswersNext ==
  ASSUME Typed, LogOrdered, AnswersInv, [Next]_vars PROVE AnswersInv'
<1>1. LogFinite /\ LogFinite' /\ NeverConnected /\ NeverConnected'
  BY LogStaysFinite, NeverConnectedNext DEF AnswersInv
<1>2. ASSUME NEW topic \in OnlyAnswers
      PROVE  /\ DestAnswers(topic)'
             /\ losses' = 0 /\ external' = 0 /\ Balanced(topic) => Balanced(topic)'
  <2>1. DestAnswers(topic)
    BY DEF AnswersInv
  <2>2. CASE ApplyRules
    BY <1>1, <2>1, <2>2, ListenerBalances
  <2>3. ASSUME NEW r \in log, Poll(r)
        PROVE  DestAnswers(topic)' /\ (Balanced(topic) => Balanced(topic)')
    BY <1>1, <2>1, <2>3, PollBalances
  <2>4. CASE ConsumerHazards \/ (Receive /\ ~ \E r \in log : Poll(r))
    <3>1. ConsumerStep /\ UNCHANGED kl
      BY <2>4 DEF ConsumerHazards, Receive, ConsumerStep, Connect, AutoCommit, LoseConsumer,
                  brokerVars, cacheVars
    <3> QED
      BY <1>1, <2>1, <3>1, ConsumerBalances
  <2>5. CASE Silent(topic) /\ UNCHANGED kafkaListenerVars
    <3>1. UNCHANGED <<kl, position>>
      BY <2>5 DEF kafkaListenerVars, consumerVars
    <3>2. /\ DestAnswers(topic)' /\ (TwoDue(topic)' => TwoDue(topic))
          /\ OneDue(topic)' => OneDue(topic)
      BY <2>1, <3>1 DEF DestAnswers, TwoDue, OneDue, RuleInHand, AnswersTo, Asks
    <3>3. \A s \in Slots : position'[s] \in Nat /\ position[s] <= position'[s]
      BY <3>1 DEF Typed, TypeOK, KafkaListenerTypeOK
    <3> QED
      BY <1>1, <2>5, <3>2, <3>3, SilentBalances
  <2>6. CASE SystemSends
    <3>1. UNCHANGED kl /\ external' # 0
      BY <2>6 DEF SystemSends, kafkaListenerVars, Typed, TypeOK
    <3>2. DestAnswers(topic)'
      BY <2>1, <3>1 DEF DestAnswers, OneDue, RuleInHand, AnswersTo
    <3> QED
      BY <3>1, <3>2
  <2> QED
    BY <2>2, <2>3, <2>4, <2>5, <2>6, OthersSilent
<1>3. \A topic \in OnlyAnswers : DestAnswers(topic)'
  BY <1>2
<1>4. losses' = 0 /\ external' = 0 => \A topic \in OnlyAnswers : Balanced(topic)'
  BY <1>2, LossesStay, ExternalStays DEF AnswersInv
<1> QED
  BY <1>1, <1>3, <1>4 DEF AnswersInv, OnlyAnswers

LEMMA AnswersInit == Init => AnswersInv
<1> SUFFICES ASSUME Init PROVE AnswersInv
  OBVIOUS
<1>1. log = {} /\ kl = Idle /\ \A s \in Slots : committed[s] = NoOffset
  BY DEF Init, BrokersInit, KafkaListenerInit
<1>2. LogFinite /\ NeverConnected
  BY <1>1, FS_EmptySet DEF LogFinite, NeverConnected
<1>3. ASSUME NEW topic \in OnlyAnswers PROVE DestAnswers(topic) /\ Balanced(topic)
  <2>1. DestAnswers(topic) /\ Due(topic) = 0
    BY <1>1 DEF Idle, DestAnswers, Due, TwoDue, OneDue
  <2>2. Answered(topic) = {} /\ Delivered(topic) = {}
    BY <1>1 DEF Answered, Delivered
  <2>3. Cardinality(Answered(topic)) = 0 /\ Cardinality(Delivered(topic)) = 0
    BY <2>2, FS_EmptySet
  <2> QED
    BY <2>1, <2>3 DEF Balanced
<1> QED
  BY <1>2, <1>3 DEF AnswersInv

LEMMA AnswersAreBounded == Typed /\ AnswersInv => AtMostTwoAnswers
<1> SUFFICES ASSUME Typed, AnswersInv, losses = 0, external = 0, NEW topic \in OnlyAnswers
             PROVE  Cardinality({r \in log : r.topic = topic})
                        <= 2 * Cardinality({r \in log : Asks(r, topic)})
  BY DEF AtMostTwoAnswers
<1> DEFINE asking == {r \in log : Asks(r, topic)}
<1>1. IsFiniteSet(log) /\ IsFiniteSet(Answered(topic)) /\ IsFiniteSet(Delivered(topic))
  BY AnswersCount DEF AnswersInv, LogFinite
<1>2. IsFiniteSet(asking)
  BY <1>1, FS_Subset, asking \in SUBSET log
<1>3. Cardinality(Delivered(topic)) <= Cardinality(asking)
  BY <1>2, FS_Subset, Delivered(topic) \in SUBSET asking DEF Delivered
<1>4. /\ Cardinality(Answered(topic)) \in Nat /\ Cardinality(Delivered(topic)) \in Nat
      /\ Cardinality(asking) \in Nat /\ Due(topic) \in 0..2
  BY <1>1, <1>2, FS_CardinalityType, DueTyped
<1>5. Cardinality(Answered(topic)) + Due(topic) <= 2 * Cardinality(Delivered(topic))
  BY DEF AnswersInv, Balanced
<1> HIDE DEF asking
<1>6. Cardinality(Answered(topic)) <= 2 * Cardinality(asking)
  BY <1>3, <1>4, <1>5
<1> QED
  BY <1>6 DEF Answered, asking

(***************************************************************************)
(* However drop, duplicate and poison are combined and whatever the other  *)
(* outputs of the rule do to the shared locals: as long as records are     *)
(* delivered once, a topic to which only rules write, each by one output,  *)
(* gets at most two messages per record that such a rule accepts first.    *)
(***************************************************************************)
THEOREM AnswersAreAtMostTwo == Spec => []AtMostTwoAnswers
<1>1. Spec => [](Typed /\ LogOrdered)
  BY TypedInvariant, LogOrderedInit, LogOrderedNext, PTL DEF Spec
<1>2. Spec => []AnswersInv
  BY <1>1, AnswersInit, AnswersNext, PTL DEF Spec
<1>3. Spec => [](Typed /\ AnswersInv)
  BY <1>1, <1>2, PTL
<1> QED
  BY <1>3, AnswersAreBounded, PTL
=============================================================================
