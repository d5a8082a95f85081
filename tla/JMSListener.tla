---------------------------- MODULE JMSListener ----------------------------
(***************************************************************************)
(* jms/listener.py: the JMS listener thread.  Each cycle polls, without    *)
(* waiting, the queues that some JMS rule reads and that are not paused,   *)
(* takes up to MaxBatch messages of a queue and processes them one by one. *)
(* Getting a message removes it from its queue.                            *)
(*                                                                         *)
(* The outputs of JMS rules are not handled like those of Kafka rules: a   *)
(* JMS output is also written to the cache, under the queue it was put to; *)
(* every type but "http" and "jms" is produced to a Kafka topic.           *)
(***************************************************************************)
EXTENDS Brokers, MessageCache, Rules

CONSTANTS JMSRules,  \* [queue -> sequence of rules, by priority]
          MaxBatch   \* max_messages, 5 in the code

ASSUME JMSListenerAssumption ==
    /\ IsRuleTable(JMSRules, Queues)
    /\ MaxBatch \in Nat \ {0}

VARIABLES jl, paused
jmsListenerVars == <<jl, paused>>

JIdle == [pc |-> "idle", queue |-> NoDest, batch |-> <<>>,
          rule |-> 0, out |-> 0, payload |-> Poison]

JMSListenerTypeOK ==
    /\ jl \in [pc: {"idle", "get", "take", "notify", "match", "output", "cache",
                    "notifyOutput", "mark"},
               queue: Queues \cup {NoDest}, batch: Seq(Payloads),
               rule: Nat, out: Nat, payload: Payloads]
    /\ jl.pc # "idle" => jl.queue \in Queues
    /\ Len(jl.batch) <= MaxBatch
    /\ paused \subseteq Queues

JMSListenerInit == jl = JIdle /\ paused = {}

\* _update_subscriptions: the queues that JMS rules read.
Polled == {q \in Queues : JMSRules[q] # <<>>}

\* The next message of the batch, or the next cycle.
NextMessage(batch) == IF batch = <<>> THEN JIdle
                      ELSE [JIdle EXCEPT !.pc = "take", !.queue = jl.queue, !.batch = batch]

-----------------------------------------------------------------------------
\* The API calls pause_queue and resume_queue.  They do not stop a batch that
\* was taken before.
PauseQueue(q)  == paused' = paused \cup {q} /\ UNCHANGED <<jl, cacheVars, brokerVars>>
ResumeQueue(q) == paused' = paused \ {q} /\ UNCHANGED <<jl, cacheVars, brokerVars>>

\* One turn of the loop over the queues: the pause flag is read under its
\* lock, which is released before the provider is asked for messages.
ChooseQueue(q) ==
    /\ jl.pc = "idle" /\ q \in Polled \ paused
    /\ queued[q] # <<>>   \* (choosing an empty queue changes nothing)
    /\ jl' = [jl EXCEPT !.pc = "get", !.queue = q]
    /\ UNCHANGED <<paused, brokerVars, cacheVars>>

\* Mutant of GetMessages: max_messages is ignored.
GetAllMessages ==
    /\ jl.pc = "get"
    /\ jl' = NextMessage(queued[jl.queue])
    /\ queued' = [queued EXCEPT ![jl.queue] = <<>>]
    /\ UNCHANGED <<paused, log, logEnd, cacheVars>>

\* client.get_message(queue, max_messages, no_wait): all there is, up to
\* MaxBatch; less when the provider fails half way, which it only logs.
GetMessages ==
    /\ jl.pc = "get"
    /\ \E n \in 0..Min2(MaxBatch, Len(queued[jl.queue])) :
          /\ jl' = NextMessage(SubSeq(queued[jl.queue], 1, n))
          /\ queued' = [queued EXCEPT ![jl.queue] = SubSeq(@, n + 1, Len(@))]
    /\ UNCHANGED <<paused, log, logEnd, cacheVars>>

\* _process_message caches the message.  It passes no timestamp, partition
\* or offset, so the entry gets the defaults, 0.
TakeMessage ==
    /\ jl.pc = "take"
    /\ AddMessage(jl.queue, Head(jl.batch), 0, 0, 0)
    /\ jl' = [jl EXCEPT !.pc = "notify", !.batch = Tail(@),
                        !.payload = Head(jl.batch)]
    /\ UNCHANGED <<paused, brokerVars>>

NotifyTaken ==
    /\ jl.pc = "notify"
    /\ NotifyAll
    /\ jl' = [jl EXCEPT !.pc = "match"]
    /\ UNCHANGED <<paused, brokerVars>>

MatchJMS ==
    /\ jl.pc = "match"
    /\ LET rules == JMSRules[jl.queue]
           hits  == Matching(rules, jl.payload)
       IN  \/ hits = {} /\ jl' = NextMessage(jl.batch)
           \/ \E i \in hits :
                 /\ IsFirst(i, hits)
                 /\ jl' = [jl EXCEPT !.rule = i, !.out = 1,
                             !.pc = IF rules[i].skip \/ rules[i].outputs = <<>>
                                    THEN "mark" ELSE "output"]
    /\ UNCHANGED <<paused, cacheVars, brokerVars>>

JMSOutputs == JMSRules[jl.queue][jl.rule].outputs
JMSOutput  == JMSOutputs[jl.out]
NextJMSOutput ==
    [jl EXCEPT !.pc  = IF jl.out < Len(JMSOutputs) THEN "output" ELSE "mark",
               !.out = IF jl.out < Len(JMSOutputs) THEN jl.out + 1 ELSE jl.out]

\* An output with a fault calls FaultInjector.should_inject, which does not
\* exist: the AttributeError is caught and the output is lost.  So is one
\* whose client raises.
LoseJMSOutput ==
    /\ jl.pc = "output"
    /\ JMSOutput.fault # {} \/ JMSOutput.type = "jms"
    /\ jl' = NextJMSOutput
    /\ UNCHANGED <<paused, cacheVars, brokerVars>>

\* Mutant of PutJMSOutput: cached even when put_message fails.
PutUnchecked ==
    /\ jl.pc = "output"
    /\ JMSOutput.fault = {} /\ JMSOutput.type = "jms"
    /\ Put(JMSOutput.dest, JMSOutput.render[jl.payload]) \/ UNCHANGED brokerVars
    /\ jl' = [jl EXCEPT !.pc = "cache"]
    /\ UNCHANGED <<paused, cacheVars>>

\* msg_type "jms": put_message, after which the message is cached.
PutJMSOutput ==
    /\ jl.pc = "output"
    /\ JMSOutput.fault = {} /\ JMSOutput.type = "jms"
    /\ Put(JMSOutput.dest, JMSOutput.render[jl.payload])
    /\ jl' = [jl EXCEPT !.pc = "cache"]
    /\ UNCHANGED <<paused, cacheVars>>

CacheJMSOutput ==
    /\ jl.pc = "cache"
    /\ AddMessage(JMSOutput.dest, JMSOutput.render[jl.payload], 0, 0, clock)
    /\ jl' = [jl EXCEPT !.pc = "notifyOutput"]
    /\ UNCHANGED <<paused, brokerVars>>

NotifyJMSOutput ==
    /\ jl.pc = "notifyOutput"
    /\ NotifyAll
    /\ jl' = NextJMSOutput
    /\ UNCHANGED <<paused, brokerVars>>

\* msg_type "http" leaves queues and topics alone; any other goes to Kafka.
SendJMSOutput ==
    /\ jl.pc = "output"
    /\ JMSOutput.fault = {} /\ JMSOutput.type # "jms"
    /\ IF JMSOutput.type = "http" THEN UNCHANGED brokerVars
       ELSE Produce(JMSOutput.dest, JMSOutput.render[jl.payload])
    /\ jl' = NextJMSOutput
    /\ UNCHANGED <<paused, cacheVars>>

\* mark_consumed_by_rules(queue_name, 0).
MarkJMS ==
    /\ jl.pc = "mark"
    /\ MarkConsumedByRules(jl.queue, 0)
    /\ jl' = NextMessage(jl.batch)
    /\ UNCHANGED <<paused, brokerVars>>

JMSListenerStep ==
    \/ GetMessages \/ TakeMessage \/ NotifyTaken \/ MatchJMS \/ LoseJMSOutput
    \/ PutJMSOutput \/ CacheJMSOutput \/ NotifyJMSOutput \/ SendJMSOutput \/ MarkJMS
=============================================================================
