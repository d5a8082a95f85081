-------------------------- MODULE MessageFlowProofs --------------------------
(***************************************************************************)
(* Theorems about MessageFlow, for any topics, queues, rules, tests and    *)
(* any number of messages.                                                 *)
(***************************************************************************)
EXTENDS MessageFlow, SequenceTheorems, TLAPS

(***************************************************************************)
(* Types.  The indices kl.rule, kl.out and their JMS counterparts point    *)
(* into the rule table while outputs are sent.                             *)
(***************************************************************************)

KafkaRuleTyped == kl.pc \in {"output", "duplicate"} =>
    /\ kl.rule \in DOMAIN KafkaRules[kl.msg.topic]
    /\ kl.out \in DOMAIN Outputs
JMSRuleTyped ==
    /\ jl.pc = "take" => jl.batch # <<>>
    /\ jl.pc \in {"output", "cache", "notifyOutput"} =>
          /\ jl.rule \in DOMAIN JMSRules[jl.queue]
          /\ jl.out \in DOMAIN JMSOutputs
          /\ jl.pc = "cache" => JMSOutput.dest \in Queues
\* Where a test is, its indices point at an injection or an expectation.
TestTyped(r, t) ==
    /\ r \in RunType
    /\ r.inj \in 1..(Len(Injections[t]) + 1)
    /\ r.exp \in 1..(Len(Expectations[t]) + 1)
    /\ Len(r.received) = r.exp - 1
    /\ r.pc \in {"idle", "inject", "resend"} => r.exp = 1
    /\ r.pc \in {"inject", "resend"} => r.inj \in 1..Len(Injections[t])
    /\ r.pc \in {"collect", "read", "waiting"} => r.exp \in 1..Len(Expectations[t])
TestsTyped == \A t \in Tests : TestTyped(run[t], t)
Typed == TypeOK /\ KafkaRuleTyped /\ JMSRuleTyped /\ TestsTyped

LEMMA TypedInit == Init => Typed
<1> SUFFICES ASSUME Init PROVE Typed
  OBVIOUS
<1> USE DEF Init
<1>1. clock \in Nat /\ external \in Nat
  BY CommonAssumption
<1>2. BrokersTypeOK
  <2>1. \A q \in Queues : queued[q] \in Seq(Payloads)
    BY EmptySeq DEF BrokersInit
  <2> QED
    BY <2>1 DEF BrokersInit, BrokersTypeOK
<1>3. CacheTypeOK
  BY DEF CacheInit, CacheTypeOK
<1>4. KafkaListenerTypeOK
  BY RulesAssumption DEF KafkaListenerInit, KafkaListenerTypeOK, Idle
<1>5. JMSListenerTypeOK
  BY RulesAssumption, JMSListenerAssumption, EmptySeq
     DEF JMSListenerInit, JMSListenerTypeOK, JIdle
<1>6. TestExecutorTypeOK /\ TestsTyped
  <2>1. NotStarted \in RunType
    BY RulesAssumption, EmptySeq DEF NotStarted, RunType
  <2>2. \A t \in Tests : Len(Injections[t]) \in Nat /\ Len(Expectations[t]) \in Nat
    BY TestExecutorAssumption, LenProperties
  <2>3. NotStarted.inj = 1 /\ NotStarted.exp = 1 /\ Len(NotStarted.received) = 0
        /\ NotStarted.pc = "idle"
    BY EmptySeq DEF NotStarted
  <2>4. ASSUME NEW t \in Tests PROVE TestTyped(NotStarted, t)
    BY <2>1, <2>2, <2>3 DEF TestTyped
  <2> QED
    BY <2>1, <2>4 DEF TestExecutorInit, TestExecutorTypeOK, TestTyped, TestsTyped
<1>7. KafkaRuleTyped /\ JMSRuleTyped
  BY DEF KafkaListenerInit, Idle, JMSListenerInit, JIdle, KafkaRuleTyped, JMSRuleTyped
<1> QED
  BY <1>1, <1>2, <1>3, <1>4, <1>5, <1>6, <1>7 DEF Typed, TypeOK

-----------------------------------------------------------------------------
(* The operations of the brokers and of the cache.                         *)

LEMMA AppendTyped ==
  ASSUME BrokersTypeOK, clock \in Nat, NEW topic \in KafkaTopics, NEW p \in Partitions,
         NEW payload \in Payloads, Append1(topic, p, payload)
  PROVE  BrokersTypeOK'
<1>1. <<topic, p>> \in Slots
  BY DEF Slots
<1>2. logEnd[<<topic, p>>] \in Nat
  BY <1>1 DEF BrokersTypeOK
<1>3. logEnd' \in [Slots -> Nat]
  <2> DEFINE s == <<topic, p>>
  <2>1. s \in Slots /\ logEnd' = [logEnd EXCEPT ![s] = logEnd[s] + 1] /\ logEnd[s] + 1 \in Nat
    BY <1>1, <1>2 DEF Append1
  <2> HIDE DEF s
  <2> QED
    BY <2>1 DEF BrokersTypeOK
<1>4. log' \subseteq Record
  BY <1>2 DEF BrokersTypeOK, Append1, Record
<1> QED
  BY <1>3, <1>4 DEF BrokersTypeOK, Append1

LEMMA ProduceTyped ==
  ASSUME BrokersTypeOK, clock \in Nat, NEW topic, NEW payload \in Payloads,
         Produce(topic, payload)
  PROVE  BrokersTypeOK'
<1>1. CASE UNCHANGED brokerVars
  BY <1>1 DEF BrokersTypeOK, brokerVars
<1>2. CASE topic \in KafkaTopics /\ \E p \in Partitions : Append1(topic, p, payload)
  BY <1>2, AppendTyped
<1> QED
  BY <1>1, <1>2 DEF Produce

LEMMA PutTyped ==
  ASSUME BrokersTypeOK, NEW queue, NEW payload \in Payloads, Put(queue, payload)
  PROVE  BrokersTypeOK'
<1>1. Append(queued[queue], payload) \in Seq(Payloads)
  BY AppendProperties DEF Put, BrokersTypeOK
<1> QED
  BY <1>1 DEF Put, BrokersTypeOK

LEMMA AddTyped ==
  ASSUME CacheTypeOK, clock \in Nat, NEW topic \in Destinations, NEW payload \in Payloads,
         NEW p \in Nat, NEW o \in Nat, NEW ts \in Nat, AddMessage(topic, payload, p, o, ts)
  PROVE  CacheTypeOK'
<1>1. NewEntry(topic, payload, p, o, ts) \in Entry
  BY DEF NewEntry, Entry, CacheTypeOK
<1> QED
  BY <1>1 DEF AddMessage, Purge, CacheTypeOK

LEMMA MarkTyped ==
  ASSUME CacheTypeOK, NEW topic, NEW o, MarkConsumedByRules(topic, o)
  PROVE  CacheTypeOK'
<1>1. \A m \in Entry : [m EXCEPT !.byRules = TRUE] \in Entry
  BY DEF Entry
<1> QED
  BY <1>1 DEF MarkConsumedByRules, FirstWithOffset, CacheTypeOK
-----------------------------------------------------------------------------
(* The Kafka listener.                                                     *)

LEMMA SendableTyped ==
  ASSUME NEW payload \in Payloads, NEW fault
  PROVE  Sendable(payload, fault) \subseteq Payloads
  BY RulesAssumption DEF Sendable

\* The current output, and what the loop goes on with.
LEMMA KafkaOutputTyped ==
  ASSUME Typed, kl.pc \in {"output", "duplicate"}
  PROVE  /\ Outputs \in Seq(OutputSpec) /\ Len(Outputs) \in Nat
         /\ kl.out \in 1..Len(Outputs)
         /\ Outputs[kl.out] \in OutputSpec
<1>1. kl.msg.topic \in KafkaTopics
  BY DEF Typed, TypeOK, KafkaListenerTypeOK, Record
<1>2. KafkaRules[kl.msg.topic] \in Seq(RuleSpec)
  BY <1>1, KafkaListenerAssumption DEF IsRuleTable
<1>3. KafkaRules[kl.msg.topic][kl.rule] \in RuleSpec
  BY <1>2, LenProperties, ElementOfSeq DEF Typed, KafkaRuleTyped
<1>4. Outputs \in Seq(OutputSpec)
  BY <1>3 DEF Outputs, RuleSpec
<1> QED
  BY <1>4, LenProperties, ElementOfSeq DEF Typed, KafkaRuleTyped

LEMMA NextOutputTyped ==
  ASSUME Typed, kl.pc \in {"output", "duplicate"}, UNCHANGED consumerVars,
         NEW dest \in Destinations \cup {NoDest}, NEW payload \in Payloads,
         kl' = NextOutput(dest, payload)
  PROVE  KafkaListenerTypeOK' /\ KafkaRuleTyped'
<1>1. kl.out \in 1..Len(Outputs) /\ Len(Outputs) \in Nat /\ DOMAIN Outputs = 1..Len(Outputs)
  BY KafkaOutputTyped, LenProperties
<1>2. /\ kl'.msg = kl.msg /\ kl'.rule = kl.rule
      /\ kl'.pc = IF kl.out < Len(Outputs) THEN "output" ELSE "mark"
      /\ kl'.out = IF kl.out < Len(Outputs) THEN kl.out + 1 ELSE kl.out
  BY DEF NextOutput, Typed, TypeOK, KafkaListenerTypeOK
<1>3. Outputs' = Outputs
  BY <1>2 DEF Outputs
<1>4. kl'.pc = "output" => kl'.out \in DOMAIN Outputs
  BY <1>1, <1>2
<1>5. KafkaRuleTyped'
  BY <1>2, <1>3, <1>4 DEF KafkaRuleTyped, Typed
<1>6. (IF kl.out < Len(Outputs) THEN kl.out + 1 ELSE kl.out) \in Nat
  BY <1>1
<1>7. KafkaListenerTypeOK'
  BY <1>6 DEF NextOutput, Typed, TypeOK, KafkaListenerTypeOK, consumerVars
<1> QED
  BY <1>5, <1>7

\* What a step leaves alone keeps its type.
LEMMA FrameTyped ==
  ASSUME Typed
  PROVE  /\ UNCHANGED brokerVars => BrokersTypeOK'
         /\ UNCHANGED cacheVars => CacheTypeOK'
         /\ UNCHANGED kafkaListenerVars => KafkaListenerTypeOK' /\ KafkaRuleTyped'
         /\ UNCHANGED jmsListenerVars => JMSListenerTypeOK' /\ JMSRuleTyped'
         /\ UNCHANGED run => TestExecutorTypeOK' /\ TestsTyped'
<1> USE DEF Typed, TypeOK
<1>1. UNCHANGED brokerVars => BrokersTypeOK'
  BY DEF BrokersTypeOK, brokerVars
<1>2. UNCHANGED cacheVars => CacheTypeOK'
  BY DEF CacheTypeOK, cacheVars
<1>3. UNCHANGED kafkaListenerVars => KafkaListenerTypeOK' /\ KafkaRuleTyped'
  BY DEF KafkaListenerTypeOK, KafkaRuleTyped, Outputs, kafkaListenerVars, consumerVars
<1>4. UNCHANGED jmsListenerVars => JMSListenerTypeOK' /\ JMSRuleTyped'
  BY DEF JMSListenerTypeOK, JMSRuleTyped, JMSOutputs, JMSOutput, jmsListenerVars
<1>5. UNCHANGED run => TestExecutorTypeOK' /\ TestsTyped'
  BY DEF TestExecutorTypeOK, TestsTyped
<1> QED
  BY <1>1, <1>2, <1>3, <1>4, <1>5

LEMMA ConsumerTyped ==
  ASSUME Typed, ConsumerHazards \/ Receive PROVE Typed'
<1> USE DEF Typed, TypeOK, KafkaListenerTypeOK
<1>1. ASSUME ConsumerHazards \/ (Connect /\ UNCHANGED <<brokerVars, cacheVars>> /\ KafkaFrame)
      PROVE  Typed'
  <2>1. Commit \in [Slots -> Nat \cup {NoOffset}]
    BY DEF Commit
  <2>2. logEnd \in [Slots -> Nat]
    BY DEF BrokersTypeOK
  <2>3. [s \in Slots |-> IF committed[s] = NoOffset THEN logEnd[s] ELSE committed[s]]
           \in [Slots -> Nat]
    BY <2>2
  <2>a. ASSUME AutoCommit PROVE KafkaListenerTypeOK' /\ kl' = kl
    BY <2>a, <2>1 DEF AutoCommit
  <2>b. ASSUME LoseConsumer PROVE KafkaListenerTypeOK' /\ kl' = kl
    <3>1. committed' \in [Slots -> Nat \cup {NoOffset}]
      BY <2>b, <2>1 DEF LoseConsumer
    <3>2. losses' \in Nat
      <4>1. PICK n \in Nat : n = losses
        OBVIOUS
      <4>2. losses' = n + 1
        BY <2>b, <4>1 DEF LoseConsumer
      <4> QED
        BY <4>2
    <3>3. connected' = FALSE /\ polled' = {} /\ position' = position /\ kl' = kl
      BY <2>b DEF LoseConsumer
    <3> QED
      BY <3>1, <3>2, <3>3
  <2>c. ASSUME Connect PROVE KafkaListenerTypeOK' /\ kl' = kl
    BY <2>c, <2>3 DEF Connect
  <2>4. KafkaListenerTypeOK' /\ kl' = kl
    BY <1>1, <2>a, <2>b, <2>c DEF ConsumerHazards
  <2>5. UNCHANGED <<clock, external, run, brokerVars, cacheVars, jmsListenerVars>>
    BY <1>1 DEF ConsumerHazards, KafkaFrame
  <2>6. KafkaRuleTyped'
    BY <2>4 DEF KafkaRuleTyped, Outputs
  <2> QED
    BY <2>4, <2>5, <2>6, FrameTyped
<1>2. ASSUME NEW r \in log, Poll(r), KafkaFrame PROVE Typed'
  <2>1. r \in Record /\ <<r.topic, r.partition>> \in Slots
    BY DEF BrokersTypeOK, Record, Slots
  <2>2. r.topic \in Destinations /\ r.payload \in Payloads /\ r.partition \in Nat
        /\ r.offset \in Nat /\ r.timestamp \in Nat
    BY <2>1, BrokersAssumption DEF Record, Destinations
  <2>3. CacheTypeOK'
    <3>1. CASE r.payload \notin Undecodable
      BY <1>2, <2>2, <3>1, AddTyped DEF Poll, CacheRecord
    <3>2. CASE r.payload \in Undecodable
      BY <1>2, <3>2 DEF Poll, CacheRecord, CacheTypeOK, cacheVars
    <3> QED
      BY <3>1, <3>2
  <2>4. position' \in [Slots -> Nat] /\ polled' \subseteq Slots
    BY <1>2, <2>1, <2>2 DEF Poll
  <2>5. KafkaListenerTypeOK' /\ kl'.pc \in {"notify", "poll"}
    <3>1. CASE r.payload \notin Undecodable
      BY <1>2, <2>1, <2>4, <3>1 DEF Poll, CacheRecord
    <3>2. CASE r.payload \in Undecodable
      BY <1>2, <2>1, <2>4, <3>2 DEF Poll, CacheRecord
    <3> QED
      BY <3>1, <3>2
  <2>6. KafkaRuleTyped'
    BY <2>5 DEF KafkaRuleTyped
  <2>7. UNCHANGED <<clock, external, run, brokerVars, jmsListenerVars>>
    BY <1>2 DEF Poll, KafkaFrame
  <2> QED
    BY <2>3, <2>5, <2>6, <2>7, FrameTyped
<1> QED
  BY <1>1, <1>2 DEF Receive

LEMMA ApplyRulesTyped ==
  ASSUME Typed, ApplyRules PROVE Typed'
<1> USE DEF Typed, TypeOK
<1>0. UNCHANGED <<clock, external, run, jmsListenerVars, consumerVars>>
  BY DEF ApplyRules, ListenerStep, KafkaFrame, Notify, Match, DropOutput, SendOutput,
         Duplicate, Mark
<1>a. ASSUME kl' = Idle PROVE KafkaListenerTypeOK' /\ KafkaRuleTyped'
  BY <1>0, <1>a, RulesAssumption
     DEF Idle, KafkaListenerTypeOK, KafkaRuleTyped, consumerVars
<1>b. ASSUME BrokersTypeOK', CacheTypeOK', KafkaListenerTypeOK', KafkaRuleTyped' PROVE Typed'
  BY <1>0, <1>b, FrameTyped
<1>1. ASSUME Notify PROVE Typed'
  <2>1. KafkaListenerTypeOK' /\ KafkaRuleTyped'
    BY <1>0, <1>1 DEF Notify, KafkaListenerTypeOK, KafkaRuleTyped, consumerVars
  <2>2. CacheTypeOK'
    BY <1>1 DEF Notify, NotifyAll, CacheTypeOK
  <2> QED
    BY <1>1, <1>b, <2>1, <2>2, FrameTyped DEF Notify
<1>2. ASSUME Match PROVE Typed'
  <2>1. kl.msg.topic \in KafkaTopics
    BY <1>2 DEF Match, KafkaListenerTypeOK, Record
  <2> DEFINE rules == KafkaRules[kl.msg.topic]
  <2>2. rules \in Seq(RuleSpec) /\ Len(rules) \in Nat /\ DOMAIN rules = 1..Len(rules)
    BY <2>1, KafkaListenerAssumption, LenProperties DEF IsRuleTable
  <2>3. ASSUME kl' # Idle PROVE KafkaListenerTypeOK' /\ KafkaRuleTyped'
    <3>1. PICK i \in DOMAIN rules :
             kl' = [kl EXCEPT !.rule = i, !.out = 1,
                       !.pc = IF rules[i].skip \/ rules[i].outputs = <<>>
                              THEN "mark" ELSE "output"]
      BY <1>2, <2>3 DEF Match, IsFirst, Matching
    <3>2. rules[i] \in RuleSpec /\ i \in Nat
      BY <2>2, ElementOfSeq
    <3>3. KafkaListenerTypeOK'
      <4>1. PICK there \in {"mark", "output"} : kl' = [kl EXCEPT !.rule = i, !.out = 1, !.pc = there]
        BY <3>1
      <4>2. kl.pc = "match"
        BY <1>2 DEF Match
      <4> QED
        BY <1>0, <3>2, <4>1, <4>2 DEF KafkaListenerTypeOK, consumerVars
    <3>4. /\ kl'.rule = i /\ kl'.out = 1 /\ kl'.msg = kl.msg
          /\ kl'.pc \in {"output", "duplicate"} => rules[i].outputs # <<>>
      BY <3>1 DEF KafkaListenerTypeOK
    <3>5. rules[i].outputs # <<>> => 1 \in DOMAIN rules[i].outputs
      <4>1. rules[i].outputs \in Seq(OutputSpec)
        BY <3>2 DEF RuleSpec
      <4> QED
        BY <4>1, EmptySeq, LenProperties
    <3>6. KafkaRuleTyped'
      BY <3>4, <3>5 DEF KafkaRuleTyped, Outputs
    <3> QED
      BY <3>3, <3>6
  <2> QED
    BY <1>2, <1>a, <1>b, <2>3, FrameTyped DEF Match
<1>3. ASSUME DropOutput PROVE Typed'
  <2>1. kl.dest \in Destinations \cup {NoDest} /\ kl.payload \in Payloads
    BY DEF KafkaListenerTypeOK
  <2>2. KafkaListenerTypeOK' /\ KafkaRuleTyped'
    BY <1>0, <1>3, <2>1, NextOutputTyped DEF DropOutput
  <2> QED
    BY <1>3, <1>b, <2>2, FrameTyped DEF DropOutput
<1>4. ASSUME SendOutput PROVE Typed'
  <2> DEFINE o == Outputs[kl.out]
             dest == IF o.type \in {"http", "db"} THEN kl.dest ELSE o.dest
  <2>1. o \in OutputSpec
    BY <1>4, KafkaOutputTyped DEF SendOutput
  <2>2. dest \in Destinations \cup {NoDest}
    BY <2>1 DEF OutputSpec, KafkaListenerTypeOK
  <2>3. kl.msg.payload \in Payloads
    BY <1>4 DEF SendOutput, KafkaListenerTypeOK, Record
  <2>4. o.render[kl.msg.payload] \in Payloads
    BY <2>1, <2>3 DEF OutputSpec
  <2>5. PICK payload \in Sendable(o.render[kl.msg.payload], o.fault) :
           /\ IF o.type \in {"http", "db"} THEN UNCHANGED brokerVars ELSE Produce(o.dest, payload)
           /\ \/ kl' = NextOutput(dest, payload)
              \/ kl' = [kl EXCEPT !.dest = dest, !.payload = payload, !.pc = "duplicate"]
    BY <1>4 DEF SendOutput
  <2>6. payload \in Payloads
    BY <2>4, <2>5, SendableTyped
  <2>7. BrokersTypeOK'
    BY <2>5, <2>6, ProduceTyped, FrameTyped
  <2> HIDE DEF dest
  <2>8. CASE kl' = NextOutput(dest, payload)
    BY <1>0, <1>4, <1>b, <2>2, <2>6, <2>7, <2>8, NextOutputTyped, FrameTyped DEF SendOutput
  <2>9. CASE kl' = [kl EXCEPT !.dest = dest, !.payload = payload, !.pc = "duplicate"]
    <3>0. kl.pc = "output"
      BY <1>4 DEF SendOutput
    <3>1. KafkaListenerTypeOK'
      BY <1>0, <2>2, <2>6, <2>9, <3>0 DEF KafkaListenerTypeOK, consumerVars
    <3>2. kl'.msg = kl.msg /\ kl'.rule = kl.rule /\ kl'.out = kl.out
      BY <2>9 DEF KafkaListenerTypeOK
    <3>3. KafkaRuleTyped'
      BY <1>4, <3>2 DEF SendOutput, KafkaRuleTyped, Outputs
    <3> QED
      BY <1>4, <1>b, <2>7, <3>1, <3>3, FrameTyped DEF SendOutput
  <2> QED
    BY <2>5, <2>8, <2>9
<1>5. ASSUME Duplicate PROVE Typed'
  <2>1. kl.dest \in Destinations \cup {NoDest} /\ kl.payload \in Payloads
    BY DEF KafkaListenerTypeOK
  <2>2. KafkaListenerTypeOK' /\ KafkaRuleTyped'
    BY <1>0, <1>5, <2>1, NextOutputTyped DEF Duplicate
  <2>3. BrokersTypeOK'
    BY <1>5, <2>1, ProduceTyped DEF Duplicate
  <2> QED
    BY <1>5, <1>b, <2>2, <2>3, FrameTyped DEF Duplicate
<1>6. ASSUME Mark PROVE Typed'
  BY <1>6, <1>a, <1>b, MarkTyped, FrameTyped DEF Mark
<1> QED
  BY <1>1, <1>2, <1>3, <1>4, <1>5, <1>6 DEF ApplyRules, ListenerStep
-----------------------------------------------------------------------------
(* The JMS listener.                                                       *)

\* The state of the thread between two messages of a batch.
LEMMA NextMessageTyped ==
  ASSUME Typed, NEW batch \in Seq(Payloads), Len(batch) <= MaxBatch, jl.queue \in Queues,
         jl' = NextMessage(batch), UNCHANGED paused
  PROVE  JMSListenerTypeOK' /\ JMSRuleTyped'
<1> USE DEF Typed, TypeOK, JMSListenerTypeOK, JMSRuleTyped
<1>1. JIdle \in [pc: {"idle"}, queue: {NoDest}, batch: {<<>>}, rule: Nat, out: Nat,
                 payload: Payloads]
  BY RulesAssumption DEF JIdle
<1>2. Len(<<>>) <= MaxBatch /\ <<>> \in Seq(Payloads)
  BY JMSListenerAssumption, EmptySeq
<1>3. CASE batch = <<>>
  <2>1. jl' = JIdle
    BY <1>3 DEF NextMessage
  <2> QED
    BY <1>1, <1>2, <2>1
<1>4. CASE batch # <<>>
  <2>1. jl' = [JIdle EXCEPT !.pc = "take", !.queue = jl.queue, !.batch = batch]
    BY <1>4 DEF NextMessage
  <2>2. jl'.pc = "take" /\ jl'.batch = batch
    BY <1>1, <2>1
  <2> QED
    BY <1>1, <1>4, <2>1, <2>2
<1> QED
  BY <1>3, <1>4

LEMMA JMSOutputTyped ==
  ASSUME Typed, jl.pc \in {"output", "cache", "notifyOutput"}
  PROVE  /\ JMSOutputs \in Seq(OutputSpec) /\ Len(JMSOutputs) \in Nat
         /\ jl.out \in 1..Len(JMSOutputs)
         /\ JMSOutput \in OutputSpec
         /\ JMSOutput.render[jl.payload] \in Payloads
<1>1. jl.queue \in Queues /\ jl.payload \in Payloads
  BY DEF Typed, TypeOK, JMSListenerTypeOK
<1>2. JMSRules[jl.queue] \in Seq(RuleSpec)
  BY <1>1, JMSListenerAssumption DEF IsRuleTable
<1>3. JMSRules[jl.queue][jl.rule] \in RuleSpec
  BY <1>2, LenProperties, ElementOfSeq DEF Typed, JMSRuleTyped
<1>4. JMSOutputs \in Seq(OutputSpec)
  BY <1>3 DEF JMSOutputs, RuleSpec
<1>5. jl.out \in 1..Len(JMSOutputs) /\ Len(JMSOutputs) \in Nat
  BY <1>4, LenProperties DEF Typed, JMSRuleTyped
<1>6. JMSOutput \in OutputSpec
  BY <1>4, <1>5, ElementOfSeq DEF JMSOutput
<1>7. JMSOutput.render[jl.payload] \in Payloads
  BY <1>1, <1>6 DEF OutputSpec
<1> QED
  BY <1>4, <1>5, <1>6, <1>7

LEMMA NextJMSOutputTyped ==
  ASSUME Typed, jl.pc \in {"output", "cache", "notifyOutput"}, jl' = NextJMSOutput,
         UNCHANGED paused
  PROVE  JMSListenerTypeOK' /\ JMSRuleTyped'
<1>1. jl.out \in 1..Len(JMSOutputs) /\ Len(JMSOutputs) \in Nat /\ DOMAIN JMSOutputs = 1..Len(JMSOutputs)
  BY JMSOutputTyped, LenProperties
<1>2. /\ jl'.queue = jl.queue /\ jl'.rule = jl.rule
      /\ jl'.pc = IF jl.out < Len(JMSOutputs) THEN "output" ELSE "mark"
      /\ jl'.out = IF jl.out < Len(JMSOutputs) THEN jl.out + 1 ELSE jl.out
  BY DEF NextJMSOutput, Typed, TypeOK, JMSListenerTypeOK
<1>3. JMSOutputs' = JMSOutputs
  BY <1>2 DEF JMSOutputs
<1>4. jl'.pc = "output" => jl'.out \in DOMAIN JMSOutputs
  BY <1>1, <1>2
<1>5. JMSRuleTyped'
  BY <1>2, <1>3, <1>4 DEF JMSRuleTyped, Typed
<1>6. (IF jl.out < Len(JMSOutputs) THEN jl.out + 1 ELSE jl.out) \in Nat
  BY <1>1
<1>7. JMSListenerTypeOK'
  BY <1>6 DEF NextJMSOutput, Typed, TypeOK, JMSListenerTypeOK
<1> QED
  BY <1>5, <1>7

\* A prefix of a queue, and the rest of it.
LEMMA TakePrefix ==
  ASSUME NEW S, NEW s \in Seq(S), NEW n \in 0..Len(s)
  PROVE  /\ SubSeq(s, 1, n) \in Seq(S) /\ Len(SubSeq(s, 1, n)) = n
         /\ SubSeq(s, n + 1, Len(s)) \in Seq(S)
<1>1. PICK l \in Nat : l = Len(s)
  BY LenProperties
<1>2. n \in Nat /\ n <= l
  BY <1>1
<1>3. \A i \in 1..l : s[i] \in S
  BY <1>1, ElementOfSeq
<1>4. SubSeq(s, 1, n) \in Seq(S) /\ Len(SubSeq(s, 1, n)) = IF 1 <= n THEN n - 1 + 1 ELSE 0
  <2>1. \A i \in 1..n : s[i] \in S
    BY <1>2, <1>3
  <2> QED
    BY <1>2, <2>1, SubSeqProperties
<1>5. SubSeq(s, n + 1, l) \in Seq(S)
  <2>1. \A i \in (n + 1)..l : s[i] \in S
    BY <1>2, <1>3
  <2>2. n + 1 \in Int /\ l \in Int
    BY <1>1, <1>2
  <2> QED
    BY <2>1, <2>2, SubSeqProperties
<1>6. (IF 1 <= n THEN n - 1 + 1 ELSE 0) = n
  BY <1>2
<1> QED
  BY <1>1, <1>4, <1>5, <1>6

\* An entry of the cache that the JMS thread adds, and what only moves jl.pc.
LEMMA JMSThreadTyped ==
  ASSUME Typed, JMSThread PROVE Typed'
<1> USE DEF Typed, TypeOK
<1>0. UNCHANGED <<clock, external, run, kafkaListenerVars, paused>>
  BY DEF JMSThread, JMSFrame, ChooseQueue, JMSListenerStep, GetMessages, TakeMessage,
         NotifyTaken, MatchJMS, LoseJMSOutput, PutJMSOutput, CacheJMSOutput,
         NotifyJMSOutput, SendJMSOutput, MarkJMS
<1>a. ASSUME BrokersTypeOK', CacheTypeOK', JMSListenerTypeOK', JMSRuleTyped' PROVE Typed'
  BY <1>0, <1>a, FrameTyped
<1>b. ASSUME NotifyAll PROVE CacheTypeOK'
  BY <1>b DEF NotifyAll, CacheTypeOK
<1>1. ASSUME NEW q \in Queues, ChooseQueue(q) PROVE Typed'
  <2>1. JMSListenerTypeOK' /\ JMSRuleTyped'
    BY <1>1, <1>0 DEF ChooseQueue, JMSListenerTypeOK, JMSRuleTyped
  <2> QED
    BY <1>1, <1>a, <2>1, FrameTyped DEF ChooseQueue
<1>2. ASSUME GetMessages PROVE Typed'
  <2>1. jl.queue \in Queues
    BY <1>2 DEF GetMessages, JMSListenerTypeOK
  <2>2. PICK s \in Seq(Payloads) : s = queued[jl.queue]
    BY <2>1 DEF BrokersTypeOK
  <2>3. PICK n \in 0..Min2(MaxBatch, Len(s)) :
           /\ jl' = NextMessage(SubSeq(s, 1, n))
           /\ queued' = [queued EXCEPT ![jl.queue] = SubSeq(s, n + 1, Len(s))]
    BY <1>2, <2>2 DEF GetMessages
  <2>4. n \in 0..Len(s) /\ n <= MaxBatch
    <3>1. PICK l \in Nat : l = Len(s)
      BY LenProperties
    <3>2. n \in 0..l /\ n <= MaxBatch
      BY <2>3, <3>1, JMSListenerAssumption DEF Min2
    <3> QED
      BY <3>1, <3>2
  <2>5. /\ SubSeq(s, 1, n) \in Seq(Payloads) /\ Len(SubSeq(s, 1, n)) <= MaxBatch
        /\ SubSeq(s, n + 1, Len(s)) \in Seq(Payloads)
    BY <2>4, TakePrefix
  <2>6. JMSListenerTypeOK' /\ JMSRuleTyped'
    BY <1>0, <2>1, <2>3, <2>5, NextMessageTyped
  <2>7. BrokersTypeOK'
    BY <1>2, <2>3, <2>5 DEF GetMessages, BrokersTypeOK
  <2> QED
    BY <1>2, <1>a, <2>6, <2>7, FrameTyped DEF GetMessages
<1>3. ASSUME TakeMessage PROVE Typed'
  <2>1. jl.queue \in Queues /\ jl.queue \in Destinations
    BY <1>3 DEF TakeMessage, JMSListenerTypeOK, Destinations
  <2>2. jl.batch # <<>>
    BY <1>3 DEF TakeMessage, JMSListenerTypeOK, JMSRuleTyped
  <2>3. Head(jl.batch) \in Payloads /\ Tail(jl.batch) \in Seq(Payloads)
        /\ Len(Tail(jl.batch)) = Len(jl.batch) - 1
    BY <2>2, HeadTailProperties DEF JMSListenerTypeOK
  <2>4. CacheTypeOK'
    BY <1>3, <2>1, <2>3, AddTyped DEF TakeMessage
  <2>5. Len(Tail(jl.batch)) <= MaxBatch
    <3>1. PICK l \in Nat : l = Len(jl.batch)
      BY LenProperties DEF JMSListenerTypeOK
    <3>2. l <= MaxBatch /\ Len(Tail(jl.batch)) = l - 1
      BY <2>3, <3>1 DEF JMSListenerTypeOK
    <3> QED
      BY <3>2, JMSListenerAssumption
  <2>6. JMSListenerTypeOK' /\ jl'.pc = "notify"
    BY <1>0, <1>3, <2>1, <2>3, <2>5 DEF TakeMessage, JMSListenerTypeOK
  <2>7. JMSRuleTyped'
    BY <2>6 DEF JMSRuleTyped
  <2> QED
    BY <1>3, <1>a, <2>4, <2>6, <2>7, FrameTyped DEF TakeMessage
<1>4. ASSUME NotifyTaken PROVE Typed'
  <2>1. JMSListenerTypeOK' /\ JMSRuleTyped'
    BY <1>0, <1>4 DEF NotifyTaken, JMSListenerTypeOK, JMSRuleTyped
  <2> QED
    BY <1>4, <1>a, <1>b, <2>1, FrameTyped DEF NotifyTaken
<1>5. ASSUME MatchJMS PROVE Typed'
  <2>1. jl.queue \in Queues /\ jl.batch \in Seq(Payloads) /\ Len(jl.batch) <= MaxBatch
    BY <1>5 DEF MatchJMS, JMSListenerTypeOK
  <2> DEFINE rules == JMSRules[jl.queue]
  <2>2. rules \in Seq(RuleSpec) /\ Len(rules) \in Nat /\ DOMAIN rules = 1..Len(rules)
    BY <2>1, JMSListenerAssumption, LenProperties DEF IsRuleTable
  <2>3. CASE jl' = NextMessage(jl.batch)
    BY <1>0, <1>5, <1>a, <2>1, <2>3, NextMessageTyped, FrameTyped DEF MatchJMS
  <2>4. ASSUME jl' # NextMessage(jl.batch) PROVE JMSListenerTypeOK' /\ JMSRuleTyped'
    <3>1. PICK i \in DOMAIN rules :
             jl' = [jl EXCEPT !.rule = i, !.out = 1,
                       !.pc = IF rules[i].skip \/ rules[i].outputs = <<>>
                              THEN "mark" ELSE "output"]
      BY <1>5, <2>4 DEF MatchJMS, IsFirst, Matching
    <3>2. rules[i] \in RuleSpec /\ i \in Nat
      BY <2>2, ElementOfSeq
    <3>3. JMSListenerTypeOK'
      <4>1. PICK there \in {"mark", "output"} : jl' = [jl EXCEPT !.rule = i, !.out = 1, !.pc = there]
        BY <3>1
      <4> QED
        BY <1>0, <2>1, <3>2, <4>1 DEF JMSListenerTypeOK
    <3>4. /\ jl'.rule = i /\ jl'.out = 1 /\ jl'.queue = jl.queue
          /\ jl'.pc \in {"mark", "output"}
          /\ jl'.pc = "output" => rules[i].outputs # <<>>
      BY <3>1 DEF JMSListenerTypeOK
    <3>5. rules[i].outputs # <<>> => 1 \in DOMAIN rules[i].outputs
      <4>1. rules[i].outputs \in Seq(OutputSpec)
        BY <3>2 DEF RuleSpec
      <4> QED
        BY <4>1, EmptySeq, LenProperties
    <3>6. JMSRuleTyped'
      BY <3>4, <3>5 DEF JMSRuleTyped, JMSOutputs
    <3> QED
      BY <3>3, <3>6
  <2> QED
    BY <1>5, <1>a, <2>3, <2>4, FrameTyped DEF MatchJMS
<1>6. ASSUME LoseJMSOutput PROVE Typed'
  BY <1>0, <1>6, <1>a, NextJMSOutputTyped, FrameTyped DEF LoseJMSOutput
<1>7. ASSUME PutJMSOutput PROVE Typed'
  <2>1. BrokersTypeOK' /\ JMSOutput.dest \in Queues
    BY <1>7, JMSOutputTyped, PutTyped DEF PutJMSOutput, Put
  <2>2. JMSListenerTypeOK'
    BY <1>0, <1>7 DEF PutJMSOutput, JMSListenerTypeOK
  <2>3. jl'.pc = "cache" /\ jl'.queue = jl.queue /\ jl'.rule = jl.rule /\ jl'.out = jl.out
    BY <1>7 DEF PutJMSOutput, JMSListenerTypeOK
  <2>4. JMSRuleTyped'
    BY <1>7, <2>1, <2>3 DEF PutJMSOutput, JMSRuleTyped, JMSOutputs, JMSOutput
  <2> QED
    BY <1>7, <1>a, <2>1, <2>2, <2>4, FrameTyped DEF PutJMSOutput
<1>8. ASSUME CacheJMSOutput PROVE Typed'
  <2>1. JMSOutput.dest \in Destinations /\ JMSOutput.render[jl.payload] \in Payloads
    BY <1>8, JMSOutputTyped DEF CacheJMSOutput, JMSRuleTyped, Destinations
  <2>2. CacheTypeOK'
    BY <1>8, <2>1, AddTyped DEF CacheJMSOutput
  <2>3. JMSListenerTypeOK'
    BY <1>0, <1>8 DEF CacheJMSOutput, JMSListenerTypeOK
  <2>4. jl'.pc = "notifyOutput" /\ jl'.queue = jl.queue /\ jl'.rule = jl.rule /\ jl'.out = jl.out
    BY <1>8 DEF CacheJMSOutput, JMSListenerTypeOK
  <2>5. JMSRuleTyped'
    BY <1>8, <2>4 DEF CacheJMSOutput, JMSRuleTyped, JMSOutputs, JMSOutput
  <2> QED
    BY <1>8, <1>a, <2>2, <2>3, <2>5, FrameTyped DEF CacheJMSOutput
<1>9. ASSUME NotifyJMSOutput PROVE Typed'
  BY <1>0, <1>9, <1>a, <1>b, NextJMSOutputTyped, FrameTyped DEF NotifyJMSOutput
<1>10. ASSUME SendJMSOutput PROVE Typed'
  <2>1. BrokersTypeOK'
    BY <1>10, JMSOutputTyped, ProduceTyped, FrameTyped DEF SendJMSOutput
  <2> QED
    BY <1>0, <1>10, <1>a, <2>1, NextJMSOutputTyped, FrameTyped DEF SendJMSOutput
<1>11. ASSUME MarkJMS PROVE Typed'
  <2>1. jl.queue \in Queues /\ jl.batch \in Seq(Payloads) /\ Len(jl.batch) <= MaxBatch
    BY <1>11 DEF MarkJMS, JMSListenerTypeOK
  <2>2. JMSListenerTypeOK' /\ JMSRuleTyped'
    BY <1>0, <1>11, <2>1, NextMessageTyped DEF MarkJMS
  <2> QED
    BY <1>11, <1>a, <2>2, MarkTyped, FrameTyped DEF MarkJMS
<1> QED
  BY <1>1, <1>2, <1>3, <1>4, <1>5, <1>6, <1>7, <1>8, <1>9, <1>10, <1>11
     DEF JMSThread, JMSListenerStep
-----------------------------------------------------------------------------
(* The tests.                                                              *)

LEMMA TestsTypedIsTypeOK ==
  ASSUME NEW t \in Tests, NEW r, TestTyped(r, t), Typed, run' = [run EXCEPT ![t] = r]
  PROVE  TestExecutorTypeOK' /\ TestsTyped'
<1>1. run' \in [Tests -> RunType]
  BY DEF Typed, TypeOK, TestExecutorTypeOK, TestTyped
<1>2. \A u \in Tests : run'[u] = IF u = t THEN r ELSE run[u]
  BY DEF Typed, TypeOK, TestExecutorTypeOK
<1>3. TestsTyped'
  BY <1>2 DEF Typed, TestsTyped
<1> QED
  BY <1>1, <1>3 DEF TestExecutorTypeOK, TestsTyped, TestTyped

LEMMA EndTimeTyped == clock \in Nat => EndTime \in Nat
  BY TestExecutorAssumption, CommonAssumption DEF EndTime, Min2

LEMMA ExpectingTyped ==
  ASSUME NEW t \in Tests, NEW r \in RunType, NEW n \in 1..(Len(Expectations[t]) + 1),
         clock \in Nat, r.inj \in 1..(Len(Injections[t]) + 1), Len(r.received) = n - 1
  PROVE  TestTyped(Expecting(r, t, n), t)
<1>1. PICK l \in Nat : l = Len(Expectations[t])
  BY TestExecutorAssumption, LenProperties
<1>2. EndTime \in Nat /\ n \in Nat
  BY <1>1, EndTimeTyped
<1>3. CASE n <= Len(Expectations[t])
  <2> DEFINE e == [r EXCEPT !.pc = "collect", !.exp = n, !.deadline = EndTime,
                            !.seen = {}, !.seenId = 0, !.until = 0]
  <2>1. Expecting(r, t, n) = e
    BY <1>3 DEF Expecting
  <2>2. /\ e \in RunType /\ e.pc = "collect" /\ e.exp = n /\ e.inj = r.inj
        /\ e.received = r.received
    BY <1>2 DEF RunType
  <2> HIDE DEF e
  <2>3. n \in 1..Len(Expectations[t])
    BY <1>1, <1>3
  <2> QED
    BY <2>1, <2>2, <2>3 DEF TestTyped
<1>4. CASE ~(n <= Len(Expectations[t]))
  <2> DEFINE e == [r EXCEPT !.pc = "done", !.exp = n, !.deadline = 0,
                            !.seen = {}, !.seenId = 0, !.until = 0]
  <2>1. Expecting(r, t, n) = e
    BY <1>4 DEF Expecting
  <2>2. /\ e \in RunType /\ e.pc = "done" /\ e.exp = n /\ e.inj = r.inj
        /\ e.received = r.received
    BY <1>2 DEF RunType
  <2> HIDE DEF e
  <2> QED
    BY <2>1, <2>2 DEF TestTyped
<1> QED
  BY <1>3, <1>4

LEMMA InjectingTyped ==
  ASSUME NEW t \in Tests, NEW r \in RunType, NEW n \in 1..(Len(Injections[t]) + 1),
         clock \in Nat, r.exp = 1, Len(r.received) = 0
  PROVE  TestTyped(Injecting(r, t, n), t)
<1>1. PICK l \in Nat, k \in Nat : l = Len(Injections[t]) /\ k = Len(Expectations[t])
  BY TestExecutorAssumption, LenProperties
<1>a. n \in Nat
  BY <1>1
<1>2. CASE n <= Len(Injections[t])
  <2> DEFINE e == [r EXCEPT !.pc = "inject", !.inj = n]
  <2>1. Injecting(r, t, n) = e
    BY <1>2 DEF Injecting
  <2>2. /\ e \in RunType /\ e.pc = "inject" /\ e.exp = 1 /\ e.inj = n
        /\ e.received = r.received
    BY <1>a DEF RunType
  <2> HIDE DEF e
  <2>3. n \in 1..Len(Injections[t]) /\ 1 \in 1..(Len(Expectations[t]) + 1)
    BY <1>1, <1>2
  <2> QED
    BY <2>1, <2>2, <2>3 DEF TestTyped
<1>3. CASE ~(n <= Len(Injections[t]))
  <2> DEFINE e == [r EXCEPT !.inj = n]
  <2>1. Injecting(r, t, n) = Expecting(e, t, 1)
    BY <1>3 DEF Injecting
  <2>2. e \in RunType /\ e.inj = n /\ e.received = r.received
    BY <1>a DEF RunType
  <2> HIDE DEF e
  <2>3. 1 \in 1..(Len(Expectations[t]) + 1)
    BY <1>1
  <2> QED
    BY <2>1, <2>2, <2>3, ExpectingTyped
<1> QED
  BY <1>2, <1>3

\* What an expectation found is recorded, and the next one begins.
LEMMA ConcludedTyped ==
  ASSUME NEW t \in Tests, NEW hits \in SUBSET Entry, Typed,
         run[t].pc \in {"collect", "read", "waiting"}
  PROVE  TestTyped(Concluded(t, hits), t)
<1> DEFINE found == {RecordOf(m) : m \in hits}
<1>1. found \in SUBSET Message
  BY DEF RecordOf, Entry, Message
<1> HIDE DEF found
<1>2. run[t] \in RunType /\ TestTyped(run[t], t) /\ clock \in Nat
  BY DEF Typed, TypeOK, TestsTyped, TestTyped
<1>3. PICK s \in Seq(SUBSET Message) : s = run[t].received
  BY <1>2 DEF RunType
<1>4. Append(s, found) \in Seq(SUBSET Message) /\ Len(Append(s, found)) = Len(s) + 1
  BY <1>1, AppendProperties
<1> DEFINE r == [run[t] EXCEPT !.received = Append(s, found)]
<1>5. /\ r \in RunType /\ r.inj = run[t].inj /\ r.received = Append(s, found)
  BY <1>2, <1>4 DEF RunType
<1>6. Concluded(t, hits) = Expecting(r, t, run[t].exp + 1)
  BY <1>3 DEF Concluded, found
<1> HIDE DEF r
<1>7. PICK l \in Nat, e \in Nat, k \in Nat : l = Len(Expectations[t]) /\ e = run[t].exp /\ k = Len(s)
  BY <1>2, TestExecutorAssumption, LenProperties DEF RunType
<1>8. e \in 1..l /\ k = e - 1
  BY <1>2, <1>3, <1>7 DEF TestTyped
<1>9. e + 1 \in 1..(l + 1) /\ k + 1 = (e + 1) - 1
  <2>1. e \in Nat /\ l \in Nat /\ 1 <= e /\ e <= l /\ k = e - 1
    BY <1>7, <1>8, SMTT(30)
  <2>2. e + 1 \in 1..(l + 1)
    BY <2>1, SMTT(30)
  <2>3. k + 1 = (e + 1) - 1
    BY <2>1, SMTT(30)
  <2> QED
    BY <2>2, <2>3
<1>10. r.inj \in 1..(Len(Injections[t]) + 1)
  BY <1>2, <1>5 DEF TestTyped
<1>11. Len(r.received) = (e + 1) - 1
  BY <1>4, <1>5, <1>7, <1>9
<1> QED
  BY <1>2, <1>5, <1>6, <1>7, <1>9, <1>10, <1>11, ExpectingTyped

\* A test starts with its first injection or its first expectation.
LEMMA StartTyped ==
  ASSUME Typed, NEW t \in Tests, Start(t) PROVE Typed'
<1>1. run[t] \in RunType /\ TestTyped(run[t], t) /\ clock \in Nat /\ run[t].pc = "idle"
  BY DEF Typed, TypeOK, TestsTyped, TestTyped, Start, StartTest
<1> DEFINE r == [run[t] EXCEPT !.start = clock]
<1>2. r \in RunType /\ r.exp = 1 /\ Len(r.received) = 0
  <2>1. r \in RunType /\ r.exp = run[t].exp /\ r.received = run[t].received
    BY <1>1 DEF RunType
  <2>2. run[t].exp = 1 /\ Len(run[t].received) = run[t].exp - 1
    BY <1>1 DEF TestTyped
  <2> QED
    BY <2>1, <2>2
<1>3. run' = [run EXCEPT ![t] = Injecting(r, t, 1)]
  BY DEF Start, StartTest
<1> HIDE DEF r
<1>4. 1 \in 1..(Len(Injections[t]) + 1)
  <2>1. PICK l \in Nat : l = Len(Injections[t])
    BY TestExecutorAssumption, LenProperties
  <2> QED
    BY <2>1
<1>5. TestTyped(Injecting(r, t, 1), t)
  BY <1>1, <1>2, <1>4, InjectingTyped
<1>6. TestExecutorTypeOK' /\ TestsTyped'
  BY <1>3, <1>5, TestsTypedIsTypeOK
<1> QED
  BY <1>6, FrameTyped DEF Typed, TypeOK, Start, StartTest, TestFrame

\* An injection that is over: the next one, or the first expectation.
LEMMA InjectedTyped ==
  ASSUME Typed, NEW t \in Tests, run[t].pc \in {"inject", "resend"}, run' = Injected(t)
  PROVE  TestExecutorTypeOK' /\ TestsTyped'
<1>1. run[t] \in RunType /\ TestTyped(run[t], t) /\ clock \in Nat
  BY DEF Typed, TypeOK, TestsTyped, TestTyped
<1> DEFINE r == [run[t] EXCEPT !.resend = Poison]
<1>2. r \in RunType /\ r.exp = 1 /\ Len(r.received) = 0
  <2>1. r \in RunType /\ r.exp = run[t].exp /\ r.received = run[t].received
    BY <1>1, RulesAssumption DEF RunType
  <2>2. run[t].exp = 1 /\ Len(run[t].received) = run[t].exp - 1
    BY <1>1 DEF TestTyped
  <2> QED
    BY <2>1, <2>2
<1>3. run' = [run EXCEPT ![t] = Injecting(r, t, run[t].inj + 1)]
  BY DEF Injected
<1> HIDE DEF r
<1>4. run[t].inj + 1 \in 1..(Len(Injections[t]) + 1)
  <2>1. PICK l \in Nat, i \in Nat : l = Len(Injections[t]) /\ i = run[t].inj
    BY <1>1, TestExecutorAssumption, LenProperties DEF RunType
  <2>2. i \in 1..l
    BY <1>1, <2>1 DEF TestTyped
  <2>3. i + 1 \in 1..(l + 1)
    BY <2>1, <2>2
  <2> QED
    BY <2>1, <2>3
<1>5. TestTyped(Injecting(r, t, run[t].inj + 1), t)
  BY <1>1, <1>2, <1>4, InjectingTyped
<1> QED
  BY <1>3, <1>5, TestsTypedIsTypeOK

\* A step that changes where a test is, but no index and no result.
LEMMA ElsewhereTyped ==
  ASSUME Typed, NEW t \in Tests, NEW r \in RunType, run' = [run EXCEPT ![t] = r],
         r.inj = run[t].inj, r.exp = run[t].exp, r.received = run[t].received,
         \/ r.pc = "done"
         \/ run[t].pc = "inject" /\ r.pc = "resend"
         \/ run[t].pc \in {"collect", "read", "waiting"} /\ r.pc \in {"collect", "read", "waiting"}
  PROVE  TestExecutorTypeOK' /\ TestsTyped'
<1>1. TestTyped(run[t], t)
  BY DEF Typed, TestsTyped
<1>2. TestTyped(r, t)
  BY <1>1 DEF TestTyped
<1> QED
  BY <1>2, TestsTypedIsTypeOK

LEMMA InjectionTyped ==
  ASSUME Typed, NEW t \in Tests, run[t].pc \in {"inject", "resend"}
  PROVE  /\ ThisInjection(t).payload \in Payloads
         /\ ThisInjection(t).dest \in Destinations
<1>1. Injections[t] \in Seq([dest: Destinations, payload: Payloads, fault: SUBSET Faults])
  BY TestExecutorAssumption
<1>2. run[t].inj \in 1..Len(Injections[t])
  BY DEF Typed, TestsTyped, TestTyped
<1>3. ThisInjection(t) \in [dest: Destinations, payload: Payloads, fault: SUBSET Faults]
  BY <1>1, <1>2, ElementOfSeq DEF ThisInjection
<1> QED
  BY <1>3

LEMMA SendInjectionTyped ==
  ASSUME Typed, NEW i, NEW payload \in Payloads, SendInjection(i, payload)
  PROVE  BrokersTypeOK'
<1>1. BrokersTypeOK /\ clock \in Nat
  BY DEF Typed, TypeOK
<1> QED
  BY <1>1, PutTyped, ProduceTyped DEF SendInjection

LEMMA ProceedTyped ==
  ASSUME Typed, NEW t \in Tests, Proceed(t) PROVE Typed'
<1>0. UNCHANGED <<clock, kafkaListenerVars, jmsListenerVars, external>>
  BY DEF Proceed, TestFrame
<1>a. ASSUME BrokersTypeOK', CacheTypeOK', TestExecutorTypeOK', TestsTyped' PROVE Typed'
  BY <1>0, <1>a, FrameTyped DEF Typed, TypeOK
<1>b. run[t] \in RunType /\ clock \in Nat /\ BrokersTypeOK /\ CacheTypeOK
  BY DEF Typed, TypeOK, TestsTyped, TestTyped
<1>1. CASE DropInjection(t)
  BY <1>1, <1>a, InjectedTyped, FrameTyped DEF DropInjection
<1>2. CASE Inject(t)
  <2>1. PICK payload \in Sendable(ThisInjection(t).payload, ThisInjection(t).fault) :
           /\ SendInjection(ThisInjection(t), payload)
           /\ \/ run' = Injected(t)
              \/ run' = [run EXCEPT ![t].pc = "resend", ![t].resend = payload]
    BY <1>2 DEF Inject
  <2>2. payload \in Payloads
    BY <1>2, <2>1, InjectionTyped, SendableTyped DEF Inject
  <2>3. BrokersTypeOK'
    BY <2>1, <2>2, SendInjectionTyped
  <2>4. CASE run' = Injected(t)
    BY <1>2, <1>a, <2>3, <2>4, InjectedTyped, FrameTyped DEF Inject
  <2>5. CASE run' = [run EXCEPT ![t].pc = "resend", ![t].resend = payload]
    <3> DEFINE r == [run[t] EXCEPT !.pc = "resend", !.resend = payload]
    <3>1. /\ r \in RunType /\ r.inj = run[t].inj /\ r.exp = run[t].exp
          /\ r.received = run[t].received /\ r.pc = "resend"
      BY <1>b, <2>2 DEF RunType
    <3>2. run' = [run EXCEPT ![t] = r]
      BY <2>5
    <3> HIDE DEF r
    <3>3. TestExecutorTypeOK' /\ TestsTyped'
      BY <1>2, <3>1, <3>2, ElsewhereTyped DEF Inject
    <3> QED
      BY <1>2, <1>a, <2>3, <3>3, FrameTyped DEF Inject
  <2> QED
    BY <2>1, <2>4, <2>5
<1>3. CASE ResendInjection(t)
  <2>1. BrokersTypeOK'
    BY <1>3, <1>b, SendInjectionTyped DEF ResendInjection, RunType
  <2> QED
    BY <1>3, <1>a, <2>1, InjectedTyped, FrameTyped DEF ResendInjection
<1>4. CASE InjectFails(t)
  <2> DEFINE r == [run[t] EXCEPT !.pc = "done", !.resend = Poison]
  <2>1. /\ r \in RunType /\ r.inj = run[t].inj /\ r.exp = run[t].exp
        /\ r.received = run[t].received /\ r.pc = "done"
    BY <1>b, RulesAssumption DEF RunType
  <2>2. run' = [run EXCEPT ![t] = r]
    BY <1>4 DEF InjectFails
  <2> HIDE DEF r
  <2>3. TestExecutorTypeOK' /\ TestsTyped'
    BY <2>1, <2>2, ElsewhereTyped
  <2> QED
    BY <1>4, <1>a, <2>3, FrameTyped DEF InjectFails
<1>5. CASE Collect(t)
  <2>1. CacheTypeOK'
    BY <1>5, <1>b DEF Collect, PurgeTopic, Purge, CacheTypeOK
  <2>2. Batch(t) \subseteq Entry /\ Hits(t) \in SUBSET Entry
    BY <1>b DEF Hits, Evaluated, Batch, Cached, CacheTypeOK
  <2>3. CASE Hits(t) # {}
    <3>1. run' = [run EXCEPT ![t] = Concluded(t, Hits(t))]
      BY <1>5, <2>3 DEF Collect
    <3>2. TestTyped(Concluded(t, Hits(t)), t)
      BY <1>5, <2>2, ConcludedTyped DEF Collect
    <3> QED
      BY <1>5, <1>a, <2>1, <3>1, <3>2, TestsTypedIsTypeOK, FrameTyped DEF Collect
  <2>4. CASE Hits(t) = {}
    <3> DEFINE keys == {Key(m) : m \in Batch(t)}
               r == [run[t] EXCEPT !.pc = "read", !.seenId = nextId, !.seen = run[t].seen \cup keys]
    <3>1. keys \subseteq Nat \X Nat
      BY <2>2 DEF Key, Entry
    <3>a. run' = [run EXCEPT ![t] =
                     IF Hits(t) # {} THEN Concluded(t, Hits(t))
                     ELSE [run[t] EXCEPT !.pc = "read", !.seenId = nextId,
                                         !.seen = run[t].seen \cup {Key(m) : m \in Batch(t)}]]
      BY <1>5 DEF Collect
    <3>2. run' = [run EXCEPT ![t] = r]
      BY <2>4, <3>a
    <3> HIDE DEF keys
    <3>3. run[t].seen \cup keys \in SUBSET (Nat \X Nat) /\ nextId \in Nat
      BY <1>b, <3>1 DEF RunType, CacheTypeOK
    <3>4. /\ r \in RunType /\ r.inj = run[t].inj /\ r.exp = run[t].exp
          /\ r.received = run[t].received /\ r.pc = "read"
      BY <1>b, <3>3 DEF RunType
    <3> HIDE DEF r
    <3>5. TestExecutorTypeOK' /\ TestsTyped'
      BY <1>5, <3>2, <3>4, ElsewhereTyped DEF Collect
    <3> QED
      BY <1>5, <1>a, <2>1, <3>5, FrameTyped DEF Collect
  <2> QED
    BY <2>3, <2>4
<1>6. CASE GiveUp(t)
  <2>1. TestTyped(Concluded(t, {}), t)
    BY <1>6, ConcludedTyped DEF GiveUp
  <2> QED
    BY <1>6, <1>a, <2>1, TestsTypedIsTypeOK, FrameTyped DEF GiveUp
<1>7. CASE BeginWait(t)
  <2> DEFINE u == Min2(clock + PollWait, run[t].deadline)
             r == [run[t] EXCEPT !.pc = "waiting", !.until = u]
  <2>1. u \in Nat
    BY <1>b, TestExecutorAssumption, SMTT(30) DEF Min2, RunType
  <2>2. run' = [run EXCEPT ![t] = r]
    BY <1>7 DEF BeginWait
  <2> HIDE DEF u
  <2>3. /\ r \in RunType /\ r.inj = run[t].inj /\ r.exp = run[t].exp
        /\ r.received = run[t].received /\ r.pc = "waiting"
    BY <1>b, <2>1 DEF RunType
  <2> HIDE DEF r
  <2>4. TestExecutorTypeOK' /\ TestsTyped'
    BY <1>7, <2>2, <2>3, ElsewhereTyped DEF BeginWait
  <2>5. CacheTypeOK'
    BY <1>7, <1>b, TestExecutorAssumption DEF BeginWait, BeginWaiting, CacheTypeOK
  <2> QED
    BY <1>7, <1>a, <2>4, <2>5, FrameTyped DEF BeginWait
<1>8. CASE EndWait(t)
  <2> DEFINE r == [run[t] EXCEPT !.pc = "collect", !.until = 0]
  <2>1. run' = [run EXCEPT ![t] = r]
    <3>1. run' = [run EXCEPT ![t].pc = "collect", ![t].until = 0]
      BY <1>8 DEF EndWait
    <3> QED
      BY <3>1
  <2>2. /\ r \in RunType /\ r.inj = run[t].inj /\ r.exp = run[t].exp
        /\ r.received = run[t].received /\ r.pc = "collect"
    BY <1>b DEF RunType
  <2> HIDE DEF r
  <2>3. TestExecutorTypeOK' /\ TestsTyped'
    BY <1>8, <2>1, <2>2, ElsewhereTyped DEF EndWait
  <2>4. CacheTypeOK'
    BY <1>8, <1>b DEF EndWait, EndWaiting, CacheTypeOK
  <2> QED
    BY <1>8, <1>a, <2>3, <2>4, FrameTyped DEF EndWait
<1> QED
  BY <1>1, <1>2, <1>3, <1>4, <1>5, <1>6, <1>7, <1>8 DEF Proceed, TestStep

-----------------------------------------------------------------------------
(* Everything else, and type correctness.                                  *)

LEMMA EnvironmentTyped ==
  ASSUME Typed, QueueControl \/ CleanupThread \/ SystemSends \/ Time PROVE Typed'
<1> USE DEF Typed, TypeOK
<1>1. CASE QueueControl
  <2>1. JMSListenerTypeOK' /\ jl' = jl
    BY <1>1, MessageFlowAssumption DEF QueueControl, PauseQueue, ResumeQueue, JMSListenerTypeOK
  <2>2. JMSRuleTyped'
    BY <2>1 DEF JMSRuleTyped, JMSOutput, JMSOutputs
  <2> QED
    BY <1>1, <2>1, <2>2, FrameTyped DEF QueueControl, PauseQueue, ResumeQueue, JMSFrame
<1>2. CASE CleanupThread
  <2>1. CacheTypeOK'
    BY <1>2 DEF CleanupThread, CleanupAllExpired, CacheTypeOK
  <2> QED
    BY <1>2, <2>1, FrameTyped DEF CleanupThread
<1>3. CASE SystemSends
  <2>1. BrokersTypeOK'
    BY <1>3, MessageFlowAssumption, AppendTyped, PutTyped DEF SystemSends
  <2>2. external' \in Nat
    BY <1>3 DEF SystemSends
  <2> QED
    BY <1>3, <2>1, <2>2, FrameTyped DEF SystemSends
<1>4. CASE Time
  <2>1. clock' \in Nat
    BY <1>4 DEF Time, Tick
  <2> QED
    BY <1>4, <2>1, FrameTyped DEF Time
<1> QED
  BY <1>1, <1>2, <1>3, <1>4

LEMMA StutterTyped == Typed /\ UNCHANGED vars => Typed'
  BY FrameTyped DEF vars, Typed, TypeOK

LEMMA TypedNext == Typed /\ [Next]_vars => Typed'
  BY ConsumerTyped, ApplyRulesTyped, JMSThreadTyped, StartTyped, ProceedTyped,
     EnvironmentTyped, StutterTyped DEF Next

LEMMA TypedInvariant == Spec => []Typed
  BY TypedNext, TypedInit, PTL DEF Spec

\* Type correctness of the whole message flow: in particular no test ends with
\* more or fewer verdicts than expectations it has gone through, and the loops
\* over rules, outputs, injections and expectations stay inside their lists.
THEOREM TypeCorrect == Spec => []TypeOK
<1>1. Typed => TypeOK
  BY DEF Typed
<1> QED
  BY <1>1, TypedInvariant, PTL

(***************************************************************************)
(* A MATCHED verdict is sound because every entry of the cache under a     *)
(* Kafka topic is a record of that topic's log: only the Kafka listener    *)
(* writes such entries, the JMS listener caches under the names of queues, *)
(* and a name is not both.                                                 *)
(***************************************************************************)

CacheFromLog == \A m \in messages : m.topic \in KafkaTopics => RecordOf(m) \in log

\* MatchedSound for one test in state r, given the log L.
SoundFor(t, r, L) ==
    \A n \in DOMAIN r.received : Expectations[t][n].dest \in KafkaTopics =>
        \A x \in r.received[n] :
            /\ x \in L /\ x.topic = Expectations[t][n].dest
            /\ x.payload \in Expectations[t][n].wanted
            /\ x.timestamp >= r.start - Margin

Sound == CacheFromLog /\ \A t \in Tests : SoundFor(t, run[t], log)

LEMMA SoundIsMatchedSound == Sound => MatchedSound
  BY DEF Sound, SoundFor, MatchedSound, InWindow, Since

LEMMA SoundInit == Init => Sound
<1> SUFFICES ASSUME Init PROVE Sound
  OBVIOUS
<1>1. CacheFromLog
  BY DEF Init, CacheInit, CacheFromLog
<1>2. ASSUME NEW t \in Tests PROVE SoundFor(t, run[t], log)
  <2>1. run[t].received = <<>>
    BY DEF Init, TestExecutorInit, NotStarted
  <2>2. DOMAIN run[t].received = {}
    BY <2>1, EmptySeq
  <2> QED
    BY <2>2 DEF SoundFor
<1> QED
  BY <1>1, <1>2 DEF Sound

-----------------------------------------------------------------------------
(* The log only grows, and nothing else enters the cache.                  *)

LEMMA ProduceGrows ==
  ASSUME NEW topic, NEW payload, Produce(topic, payload) PROVE log \subseteq log'
  BY DEF Produce, Append1, brokerVars

LEMMA LogGrows ==
  ASSUME [Next]_vars PROVE log \subseteq log'
<1>1. CASE UNCHANGED vars
  BY <1>1 DEF vars, brokerVars
<1>2. CASE ConsumerHazards \/ Receive
  BY <1>2 DEF ConsumerHazards, Receive, Poll, brokerVars
<1>3. CASE ApplyRules
  BY <1>3, ProduceGrows
     DEF ApplyRules, ListenerStep, Notify, Match, DropOutput, SendOutput, Duplicate, Mark,
         brokerVars
<1>4. CASE JMSThread \/ QueueControl
  BY <1>4, ProduceGrows
     DEF JMSThread, QueueControl, PauseQueue, ResumeQueue, ChooseQueue, JMSListenerStep,
         GetMessages, TakeMessage, NotifyTaken, MatchJMS, LoseJMSOutput, PutJMSOutput, Put,
         CacheJMSOutput, NotifyJMSOutput, SendJMSOutput, MarkJMS, brokerVars
<1>5. CASE \E t \in Tests : Start(t) \/ Proceed(t)
  BY <1>5, ProduceGrows
     DEF Start, StartTest, Proceed, TestStep, DropInjection, Inject, ResendInjection,
         SendInjection, Put, InjectFails, Collect, GiveUp, BeginWait, EndWait, brokerVars
<1>6. CASE CleanupThread \/ SystemSends \/ Time
  BY <1>6 DEF CleanupThread, SystemSends, Append1, Put, Time, brokerVars
<1> QED
  BY <1>1, <1>2, <1>3, <1>4, <1>5, <1>6 DEF Next


LEMMA AddKnown ==
  ASSUME CacheFromLog, log \subseteq log',
         NEW topic, NEW payload, NEW p, NEW o, NEW ts, AddMessage(topic, payload, p, o, ts),
         topic \in KafkaTopics =>
             [topic |-> topic, partition |-> p, offset |-> o, payload |-> payload,
              timestamp |-> ts] \in log
  PROVE  CacheFromLog'
<1> DEFINE e == NewEntry(topic, payload, p, o, ts)
<1>1. messages' \subseteq messages \cup {e}
  BY DEF AddMessage, Purge
<1>2. /\ e.topic = topic
      /\ RecordOf(e) = [topic |-> topic, partition |-> p, offset |-> o, payload |-> payload,
                        timestamp |-> ts]
  BY DEF NewEntry, RecordOf
<1> HIDE DEF e
<1> QED
  BY <1>1, <1>2 DEF CacheFromLog

LEMMA MarkKnown ==
  ASSUME CacheFromLog, CacheTypeOK, log \subseteq log', NEW topic, NEW o,
         MarkConsumedByRules(topic, o)
  PROVE  CacheFromLog'
<1>1. \A m \in Entry : /\ [m EXCEPT !.byRules = TRUE].topic = m.topic
                       /\ RecordOf([m EXCEPT !.byRules = TRUE]) = RecordOf(m)
  BY DEF Entry, RecordOf
<1>2. \A m \in messages' : m \in messages \/ \E k \in messages : m = [k EXCEPT !.byRules = TRUE]
  BY DEF MarkConsumedByRules, FirstWithOffset
<1>3. ASSUME NEW m \in messages', m.topic \in KafkaTopics PROVE RecordOf(m) \in log'
  <2>1. CASE m \in messages
    BY <1>3, <2>1 DEF CacheFromLog
  <2>2. ASSUME NEW k \in messages, m = [k EXCEPT !.byRules = TRUE] PROVE RecordOf(m) \in log'
    <3>1. k \in Entry
      BY DEF CacheTypeOK
    <3>2. m.topic = k.topic /\ RecordOf(m) = RecordOf(k)
      BY <1>1, <2>2, <3>1
    <3> QED
      BY <1>3, <3>2 DEF CacheFromLog
  <2> QED
    BY <1>2, <2>1, <2>2
<1> QED
  BY <1>3 DEF CacheFromLog

LEMMA FewerKnown ==
  ASSUME CacheFromLog, log \subseteq log', messages' \subseteq messages
  PROVE  CacheFromLog'
  BY DEF CacheFromLog

LEMMA CacheStaysKnown ==
  ASSUME Typed, CacheFromLog, [Next]_vars PROVE CacheFromLog'
<1>0. log \subseteq log'
  BY LogGrows
<1>a. CacheTypeOK
  BY DEF Typed, TypeOK
<1>b. ASSUME NotifyAll PROVE CacheFromLog'
  BY <1>0, <1>b, FewerKnown DEF NotifyAll
<1>c. ASSUME UNCHANGED cacheVars PROVE CacheFromLog'
  BY <1>0, <1>c, FewerKnown DEF cacheVars
<1>1. CASE UNCHANGED vars
  BY <1>1, <1>c DEF vars
<1>2. CASE ConsumerHazards \/ (Connect /\ UNCHANGED <<brokerVars, cacheVars>>)
  BY <1>2, <1>c DEF ConsumerHazards
<1>3. ASSUME NEW r \in log, Poll(r) PROVE CacheFromLog'
  <2>1. r \in Record
    BY DEF Typed, TypeOK, BrokersTypeOK
  <2>2. r = [topic |-> r.topic, partition |-> r.partition, offset |-> r.offset,
             payload |-> r.payload, timestamp |-> r.timestamp]
    BY <2>1 DEF Record
  <2>3. \/ AddMessage(r.topic, r.payload, r.partition, r.offset, r.timestamp)
        \/ UNCHANGED cacheVars
    BY <1>3 DEF Poll, CacheRecord
  <2>4. [topic |-> r.topic, partition |-> r.partition, offset |-> r.offset,
             payload |-> r.payload, timestamp |-> r.timestamp] \in log
    BY <2>2
  <2> QED
    BY <1>0, <1>c, <2>3, <2>4, AddKnown
<1>4. CASE ApplyRules
  BY <1>0, <1>4, <1>a, <1>b, <1>c, MarkKnown
     DEF ApplyRules, ListenerStep, Notify, Match, DropOutput, SendOutput, Duplicate, Mark
<1>5. CASE TakeMessage
  <2>1. jl.queue \notin KafkaTopics
    BY <1>5, CommonAssumption DEF TakeMessage, Typed, TypeOK, JMSListenerTypeOK
  <2> QED
    BY <1>0, <1>5, <2>1, AddKnown DEF TakeMessage
<1>6. CASE CacheJMSOutput
  <2>1. JMSOutput.dest \notin KafkaTopics
    BY <1>6, CommonAssumption DEF CacheJMSOutput, Typed, JMSRuleTyped
  <2> QED
    BY <1>0, <1>6, <2>1, AddKnown DEF CacheJMSOutput
<1>7. CASE JMSThread \/ QueueControl
  BY <1>0, <1>5, <1>6, <1>7, <1>a, <1>b, <1>c, MarkKnown
     DEF JMSThread, QueueControl, PauseQueue, ResumeQueue, ChooseQueue, JMSListenerStep,
         GetMessages, NotifyTaken, MatchJMS, LoseJMSOutput, PutJMSOutput,
         NotifyJMSOutput, SendJMSOutput, MarkJMS, cacheVars
<1>8. CASE \E t \in Tests : Start(t) \/ Proceed(t)
  <2>1. messages' \subseteq messages
    BY <1>8
       DEF Start, StartTest, Proceed, TestStep, DropInjection, Inject, ResendInjection,
           InjectFails, Collect, GiveUp, BeginWait, BeginWaiting, EndWait, EndWaiting,
           PurgeTopic, Purge, cacheVars
  <2> QED
    BY <1>0, <2>1, FewerKnown
<1>9. CASE CleanupThread \/ SystemSends \/ Time
  <2>1. messages' \subseteq messages
    BY <1>9 DEF CleanupThread, CleanupAllExpired, SystemSends, Time, cacheVars
  <2> QED
    BY <1>0, <2>1, FewerKnown
<1> QED
  BY <1>1, <1>2, <1>3, <1>4, <1>7, <1>8, <1>9 DEF Next, Receive
-----------------------------------------------------------------------------
(* What a test has received.                                               *)

\* Going on with the next injection or expectation keeps what was received.
LEMMA ExpectingKeeps ==
  ASSUME NEW t, NEW r \in RunType, NEW n
  PROVE  /\ Expecting(r, t, n).received = r.received
         /\ Expecting(r, t, n).start = r.start
  BY DEF Expecting, RunType

LEMMA InjectingKeeps ==
  ASSUME NEW t, NEW r \in RunType, NEW n \in Nat
  PROVE  /\ Injecting(r, t, n).received = r.received
         /\ Injecting(r, t, n).start = r.start
<1> DEFINE e == [r EXCEPT !.inj = n]
<1>1. e \in RunType /\ e.received = r.received /\ e.start = r.start
  BY DEF RunType
<1>2. /\ [r EXCEPT !.pc = "inject", !.inj = n].received = r.received
      /\ [r EXCEPT !.pc = "inject", !.inj = n].start = r.start
  BY DEF RunType
<1>3. CASE n <= Len(Injections[t])
  BY <1>2, <1>3 DEF Injecting
<1>4. CASE ~(n <= Len(Injections[t]))
  <2>1. Injecting(r, t, n) = Expecting(e, t, 1)
    BY <1>4 DEF Injecting
  <2> HIDE DEF e
  <2> QED
    BY <1>1, <2>1, ExpectingKeeps
<1> QED
  BY <1>3, <1>4

\* A verdict drawn from a read that found only sound messages is sound.
LEMMA ConcludedSound ==
  ASSUME Typed, Sound, NEW t \in Tests, run[t].pc \in {"collect", "read"},
         NEW hits \in SUBSET messages,
         \A m \in hits : /\ m.topic = Expected(t).dest
                         /\ m.timestamp >= Since(t) /\ m.payload \in Expected(t).wanted
  PROVE  SoundFor(t, Concluded(t, hits), log)
<1> DEFINE found == {RecordOf(m) : m \in hits}
           c == Concluded(t, hits)
<1>1. run[t] \in RunType /\ TestTyped(run[t], t) /\ messages \subseteq Entry
  BY DEF Typed, TypeOK, TestsTyped, TestTyped, CacheTypeOK
<1>2. found \in SUBSET Message
  BY <1>1 DEF RecordOf, Entry, Message
<1>3. \A x \in found : \E m \in hits : x = RecordOf(m)
  OBVIOUS
<1> HIDE DEF found
<1>4. PICK s \in Seq(SUBSET Message) : s = run[t].received
  BY <1>1 DEF RunType
<1> DEFINE r == [run[t] EXCEPT !.received = Append(s, found)]
<1>5. Append(s, found) \in Seq(SUBSET Message)
  BY <1>2, AppendProperties
<1>6. r \in RunType /\ r.received = Append(s, found) /\ r.start = run[t].start
  BY <1>1, <1>5 DEF RunType
<1>7. c = Expecting(r, t, run[t].exp + 1)
  BY <1>4 DEF Concluded, found
<1> HIDE DEF r, c
<1>8. c.received = Append(s, found) /\ c.start = run[t].start
  BY <1>6, <1>7, ExpectingKeeps
<1>9. PICK k \in Nat : k = Len(s)
  BY LenProperties
<1>10. run[t].exp = k + 1
  <2>1. run[t].exp \in Nat /\ k = run[t].exp - 1
    BY <1>1, <1>4, <1>9 DEF TestTyped, RunType
  <2> QED
    BY <2>1
<1>11. /\ DOMAIN s = 1..k /\ DOMAIN Append(s, found) = 1..(k + 1)
       /\ \A n \in 1..k : Append(s, found)[n] = s[n]
       /\ Append(s, found)[k + 1] = found
  BY <1>2, <1>9, AppendProperties, LenProperties
<1>12. SUFFICES ASSUME NEW n \in 1..(k + 1), Expectations[t][n].dest \in KafkaTopics,
                       NEW x \in Append(s, found)[n]
                PROVE  /\ x \in log /\ x.topic = Expectations[t][n].dest
                       /\ x.payload \in Expectations[t][n].wanted
                       /\ x.timestamp >= run[t].start - Margin
  BY <1>8, <1>11 DEF SoundFor, c
<1>13. CASE n \in 1..k
  <2>1. x \in run[t].received[n] /\ n \in DOMAIN run[t].received
    BY <1>4, <1>11, <1>12, <1>13
  <2> QED
    BY <1>12, <2>1 DEF Sound, SoundFor
<1>14. CASE n = k + 1
  <2>1. Expectations[t][n] = Expected(t)
    BY <1>10, <1>14 DEF Expected
  <2>2. PICK m \in hits : x = RecordOf(m)
    BY <1>3, <1>11, <1>12, <1>14
  <2>3. m \in messages /\ m.topic \in KafkaTopics
    BY <1>12, <2>1, <2>2
  <2>4. /\ x.topic = m.topic /\ x.payload = m.payload /\ x.timestamp = m.timestamp
    BY <2>2 DEF RecordOf
  <2>5. x \in log
    BY <2>2, <2>3 DEF Sound, CacheFromLog
  <2> QED
    BY <2>1, <2>4, <2>5 DEF Since
<1>15. n \in 1..k \/ n = k + 1
  BY <1>9, <1>12
<1> QED
  BY <1>13, <1>14, <1>15

LEMMA ProceedSound ==
  ASSUME Typed, Sound, NEW t \in Tests, Proceed(t)
  PROVE  \E r : run' = [run EXCEPT ![t] = r] /\ SoundFor(t, r, log)
<1>0. run[t] \in RunType /\ SoundFor(t, run[t], log) /\ run[t].inj + 1 \in Nat
  BY DEF Typed, TypeOK, TestsTyped, TestTyped, Sound, RunType
<1>a. ASSUME NEW r, r.received = run[t].received, r.start = run[t].start
      PROVE  SoundFor(t, r, log)
  BY <1>0, <1>a DEF SoundFor
<1>b. ASSUME run' = Injected(t)
      PROVE  \E r : run' = [run EXCEPT ![t] = r] /\ SoundFor(t, r, log)
  <2> DEFINE e == [run[t] EXCEPT !.resend = Poison]
             r == Injecting(e, t, run[t].inj + 1)
  <2>1. e \in RunType /\ e.received = run[t].received /\ e.start = run[t].start
    BY <1>0, RulesAssumption DEF RunType
  <2>2. run' = [run EXCEPT ![t] = r]
    BY <1>b DEF Injected
  <2> HIDE DEF e
  <2>3. r.received = run[t].received /\ r.start = run[t].start
    BY <1>0, <2>1, InjectingKeeps
  <2> HIDE DEF r
  <2> QED
    BY <1>a, <2>2, <2>3
<1>1. CASE DropInjection(t) \/ ResendInjection(t)
  BY <1>1, <1>b DEF DropInjection, ResendInjection
<1>2. CASE Inject(t)
  <2>1. ASSUME NEW payload,
               run' = [run EXCEPT ![t].pc = "resend", ![t].resend = payload]
        PROVE  \E r : run' = [run EXCEPT ![t] = r] /\ SoundFor(t, r, log)
    <3> DEFINE r == [run[t] EXCEPT !.pc = "resend", !.resend = payload]
    <3>1. run' = [run EXCEPT ![t] = r]
      BY <2>1
    <3>2. r.received = run[t].received /\ r.start = run[t].start
      BY <1>0 DEF RunType
    <3> HIDE DEF r
    <3> QED
      BY <1>a, <3>1, <3>2
  <2> QED
    BY <1>2, <1>b, <2>1 DEF Inject
<1>3. CASE InjectFails(t)
  <2> DEFINE r == [run[t] EXCEPT !.pc = "done", !.resend = Poison]
  <2>1. run' = [run EXCEPT ![t] = r]
    BY <1>3 DEF InjectFails
  <2>2. r.received = run[t].received /\ r.start = run[t].start
    BY <1>0 DEF RunType
  <2> HIDE DEF r
  <2> QED
    BY <1>a, <2>1, <2>2
<1>4. CASE Collect(t)
  <2>1. CASE Hits(t) # {}
    <3>1. run' = [run EXCEPT ![t] = Concluded(t, Hits(t))]
      BY <1>4, <2>1 DEF Collect
    <3>2. /\ Hits(t) \in SUBSET messages
          /\ \A m \in Hits(t) : /\ m.topic = Expected(t).dest
                                /\ m.timestamp >= Since(t) /\ m.payload \in Expected(t).wanted
      BY DEF Hits, Evaluated, Batch, Cached
    <3>3. SoundFor(t, Concluded(t, Hits(t)), log)
      BY <1>4, <3>2, ConcludedSound DEF Collect
    <3> QED
      BY <3>1, <3>3
  <2>2. CASE Hits(t) = {}
    <3> DEFINE r == [run[t] EXCEPT !.pc = "read", !.seenId = nextId,
                                   !.seen = run[t].seen \cup {Key(m) : m \in Batch(t)}]
    <3>1. run' = [run EXCEPT ![t] = r]
      BY <1>4, <2>2 DEF Collect
    <3>2. r.received = run[t].received /\ r.start = run[t].start
      BY <1>0 DEF RunType
    <3> HIDE DEF r
    <3> QED
      BY <1>a, <3>1, <3>2
  <2> QED
    BY <2>1, <2>2
<1>5. CASE GiveUp(t)
  <2>1. SoundFor(t, Concluded(t, {}), log)
    BY <1>5, ConcludedSound DEF GiveUp
  <2> QED
    BY <1>5, <2>1 DEF GiveUp
<1>6. CASE BeginWait(t)
  <2> DEFINE u == Min2(clock + PollWait, run[t].deadline)
             r == [run[t] EXCEPT !.pc = "waiting", !.until = u]
  <2>1. run' = [run EXCEPT ![t] = r]
    BY <1>6 DEF BeginWait
  <2>2. r.received = run[t].received /\ r.start = run[t].start
    BY <1>0 DEF RunType
  <2> HIDE DEF r
  <2> QED
    BY <1>a, <2>1, <2>2
<1>7. CASE EndWait(t)
  <2> DEFINE r == [run[t] EXCEPT !.pc = "collect", !.until = 0]
  <2>1. run' = [run EXCEPT ![t] = r]
    BY <1>7 DEF EndWait
  <2>2. r.received = run[t].received /\ r.start = run[t].start
    BY <1>0 DEF RunType
  <2> HIDE DEF r
  <2> QED
    BY <1>a, <2>1, <2>2
<1> QED
  BY <1>1, <1>2, <1>3, <1>4, <1>5, <1>6, <1>7 DEF Proceed, TestStep

LEMMA StartSound ==
  ASSUME Typed, NEW t \in Tests, Start(t)
  PROVE  \E r : run' = [run EXCEPT ![t] = r] /\ SoundFor(t, r, log)
<1> DEFINE e == [run[t] EXCEPT !.start = clock]
           r == Injecting(e, t, 1)
<1>1. TestTyped(run[t], t) /\ run[t] \in RunType /\ run[t].pc = "idle" /\ clock \in Nat
  BY DEF Typed, TypeOK, TestsTyped, TestTyped, Start, StartTest
<1>2. e \in RunType /\ e.received = run[t].received
  BY <1>1 DEF RunType
<1>3. run' = [run EXCEPT ![t] = r]
  BY DEF Start, StartTest
<1> HIDE DEF e
<1>4. r.received = run[t].received
  BY <1>2, InjectingKeeps
<1>5. DOMAIN r.received = {}
  <2>1. Len(run[t].received) = 0 /\ run[t].received \in Seq(SUBSET Message)
    BY <1>1 DEF TestTyped, RunType
  <2> QED
    BY <1>4, <2>1, EmptySeq, LenProperties
<1> HIDE DEF r
<1>6. SoundFor(t, r, log)
  BY <1>5 DEF SoundFor
<1> QED
  BY <1>3, <1>6

LEMMA SoundNext == Typed /\ Sound /\ [Next]_vars => Sound'
<1> SUFFICES ASSUME Typed, Sound, [Next]_vars PROVE Sound'
  OBVIOUS
<1>1. CacheFromLog'
  BY CacheStaysKnown DEF Sound
<1>2. log \subseteq log'
  BY LogGrows
<1>3. \A t \in Tests : \A r : SoundFor(t, r, log) => SoundFor(t, r, log')
  BY <1>2 DEF SoundFor
<1>4. CASE \E t \in Tests : Start(t) \/ Proceed(t)
  <2>1. PICK t \in Tests : \E r : run' = [run EXCEPT ![t] = r] /\ SoundFor(t, r, log)
    BY <1>4, StartSound, ProceedSound
  <2>2. \A u \in Tests : SoundFor(u, run'[u], log)
    BY <2>1 DEF Sound, Typed, TypeOK, TestExecutorTypeOK
  <2> QED
    BY <1>1, <1>3, <2>2 DEF Sound
<1>5. CASE ~ \E t \in Tests : Start(t) \/ Proceed(t)
  <2>1. run' = run
    BY <1>5
       DEF Next, ConsumerHazards, Receive, ApplyRules, KafkaFrame, JMSThread, QueueControl,
           JMSFrame, CleanupThread, SystemSends, Time, vars
  <2> QED
    BY <1>1, <1>3, <2>1 DEF Sound
<1> QED
  BY <1>4, <1>5

\* A MATCHED verdict on a topic is never from another topic, from before the
\* test's window or out of thin air, whatever the listeners, the other tests
\* and the system under test do meanwhile.
THEOREM MatchedIsSound == Spec => []MatchedSound
<1> QED
  BY TypedInvariant, SoundInit, SoundNext, SoundIsMatchedSound, PTL DEF Spec

-----------------------------------------------------------------------------
(* What the cache keeps.                                                   *)

\* The cache forgets no message that is younger than its TTL, in no step of
\* any thread: what a test may still have to find stays there.
THEOREM CacheKeepsLiveMessages == Spec => NoEarlyEviction
<1> DEFINE Kept == \A m \in messages : Live(m) => \E n \in messages' : n.id = m.id
<1>1. CacheTypeOK /\ [Next]_vars => Kept
  <2> SUFFICES ASSUME CacheTypeOK, [Next]_vars, NEW m \in messages, Live(m)
               PROVE  \E n \in messages' : n.id = m.id
    OBVIOUS
  <2>0. \A k \in Entry : [k EXCEPT !.byRules = TRUE].id = k.id
    BY DEF Entry
  <2>1. ASSUME NEW topic, NEW payload, NEW p, NEW o, NEW ts, AddMessage(topic, payload, p, o, ts)
        PROVE  m \in messages'
    BY <2>1 DEF AddMessage, Purge
  <2>2. ASSUME NEW topic, NEW o, MarkConsumedByRules(topic, o)
        PROVE  \E n \in messages' : n.id = m.id
    <3>1. CASE messages' = messages
      BY <3>1
    <3>2. ASSUME NEW k \in messages, messages' = (messages \ {k}) \cup {[k EXCEPT !.byRules = TRUE]}
          PROVE  \E n \in messages' : n.id = m.id
      <4>1. k \in Entry
        BY DEF CacheTypeOK
      <4>2. CASE m = k
        BY <2>0, <3>2, <4>1, <4>2
      <4>3. CASE m # k
        BY <3>2, <4>3
      <4> QED
        BY <4>2, <4>3
    <3> QED
      BY <2>2, <3>1, <3>2 DEF MarkConsumedByRules, FirstWithOffset
  <2>3. CASE UNCHANGED vars
    BY <2>3 DEF vars, cacheVars
  <2>4. CASE ConsumerHazards \/ Receive
    BY <2>1, <2>4 DEF ConsumerHazards, Receive, Poll, CacheRecord, cacheVars
  <2>5. CASE ApplyRules
    BY <2>2, <2>5
       DEF ApplyRules, ListenerStep, Notify, NotifyAll, Match, DropOutput, SendOutput,
           Duplicate, Mark, cacheVars
  <2>6. CASE JMSThread \/ QueueControl
    BY <2>1, <2>2, <2>6
       DEF JMSThread, QueueControl, PauseQueue, ResumeQueue, ChooseQueue, JMSListenerStep,
           GetMessages, TakeMessage, NotifyTaken, NotifyAll, MatchJMS, LoseJMSOutput,
           PutJMSOutput, CacheJMSOutput, NotifyJMSOutput, SendJMSOutput, MarkJMS, cacheVars
  <2>7. CASE \E t \in Tests : Start(t) \/ Proceed(t)
    BY <2>7
       DEF Start, StartTest, Proceed, TestStep, DropInjection, Inject, ResendInjection,
           InjectFails, Collect, PurgeTopic, Purge, GiveUp, BeginWait, BeginWaiting, EndWait,
           EndWaiting, cacheVars
  <2>8. CASE CleanupThread \/ SystemSends \/ Time
    BY <2>8 DEF CleanupThread, CleanupAllExpired, SystemSends, Time, cacheVars
  <2> QED
    BY <2>3, <2>4, <2>5, <2>6, <2>7, <2>8 DEF Next
<1>2. Typed /\ [Next]_vars => [Kept]_vars
  BY <1>1 DEF Typed, TypeOK
<1>3. Spec => [][Kept]_vars
  BY <1>2, TypedInvariant, PTL DEF Spec
<1> QED
  BY <1>3 DEF NoEarlyEviction
=============================================================================
