---------------------------- MODULE SendExecutor ----------------------------
(***************************************************************************)
(* The coroutine run_send of send/executor.py: the items of a send, one    *)
(* after the other, on the one event loop.  A coroutine keeps the loop     *)
(* until it awaits a latency, an answer or a delay, or ends.               *)
(***************************************************************************)
EXTENDS Integers, Sequences, FiniteSets

CONSTANTS Runs,         \* identities of runs
          Definitions,  \* [skip, items] per send
          NoRun,        \* nobody has the loop
          HasDB         \* whether there is a db_executor

\* An item: drop, latency and duplicate say that the fault may strike.
Messages  == {"kafka", "jms", "http"}
ItemTypes == Messages \cup {"script", "db"}
Item      == [type: ItemTypes, drop: BOOLEAN, latency: BOOLEAN, duplicate: BOOLEAN, delay: BOOLEAN]

ASSUME SendAssumption ==
    /\ NoRun \notin Runs /\ HasDB \in BOOLEAN
    /\ \A d \in DOMAIN Definitions :
        Definitions[d].skip \in BOOLEAN /\ Definitions[d].items \in Seq(Item)

VARIABLES send,    \* per run: which send, at which item, what it will report
          sent,    \* per run: the items whose message a client has sent, in order
          holder   \* the run that has the loop, or NoRun

sendVars == <<send, sent, holder>>

Awaiting  == {"latency", "answer", "delay"}
NotBegun  == [def |-> CHOOSE d \in DOMAIN Definitions : TRUE, at |-> 0, pc |-> "idle",
              told |-> <<>>, status |-> "PENDING"]
SendInit  == send = [x \in Runs |-> NotBegun] /\ sent = [x \in Runs |-> <<>>] /\ holder = NoRun

Items(s)   == Definitions[s.def].items
ItemOf(x)  == Items(send[x])[send[x].at]
At(x, pc, types) == /\ holder \in {x, NoRun} /\ send[x].pc = pc /\ ItemOf(x).type \in types

\* The run is now in state s; it gives the loop away when it awaits or ends.
Becomes(x, s) ==
    /\ send' = [send EXCEPT ![x] = s]
    /\ holder' = IF s.pc \in Awaiting \cup {"done"} THEN NoRun ELSE x

Beyond(s) ==
    IF s.at = Len(Items(s)) THEN [s EXCEPT !.pc = "done", !.status = "COMPLETED"]
                            ELSE [s EXCEPT !.pc = "item", !.at = @ + 1]

\* Whatever raises ends the send; what it had sent before is not reported.
Raises(x) == Becomes(x, [send[x] EXCEPT !.pc = "done", !.status = "FAILED", !.told = <<>>])

HandOver(x, n) == sent' = [sent EXCEPT ![x] = @ \o [i \in 1..n |-> send[x].at]]

\* injected_messages.append, then the delay.
Told(s) ==
    LET t == [s EXCEPT !.told = Append(@, s.at)] IN
    IF Items(s)[s.at].delay THEN [t EXCEPT !.pc = "delay"] ELSE Beyond(t)

-----------------------------------------------------------------------------
Begin(x, d) ==
    /\ holder = NoRun /\ send[x] = NotBegun
    /\ LET s == [NotBegun EXCEPT !.def = d] IN
       Becomes(x, IF Definitions[d].skip THEN [s EXCEPT !.pc = "done", !.status = "SKIPPED"]
                                         ELSE Beyond(s))
    /\ UNCHANGED sent

\* Mutant of Drop: the dropped message is reported nevertheless.
DropTelling(x) ==
    /\ At(x, "item", Messages) /\ ItemOf(x).drop
    /\ Becomes(x, Told(send[x])) /\ UNCHANGED sent

\* apply_fault: the message is not produced, nor reported, nor delayed.
Drop(x) ==
    /\ At(x, "item", Messages) /\ ItemOf(x).drop
    /\ Becomes(x, Beyond(send[x])) /\ UNCHANGED sent

Sleep(x) ==
    /\ At(x, "item", Messages) /\ ItemOf(x).latency
    /\ Becomes(x, [send[x] EXCEPT !.pc = "latency"]) /\ UNCHANGED sent

\* Rendering, a missing client, or the call itself raises.
Refuse(x) ==
    /\ \E pc \in {"item", "latency"} : At(x, pc, Messages)
    /\ Raises(x) /\ UNCHANGED sent

Copies(x) == 1..(IF ItemOf(x).duplicate THEN 2 ELSE 1)

\* Each call of produce catches what goes wrong and returns None, which nobody
\* looks at: the topic is unknown, the client not connected or the delivery failed.
Produce(x) ==
    /\ \E pc \in {"item", "latency"} : At(x, pc, {"kafka"})
    /\ \E n \in {0} \cup Copies(x) : HandOver(x, n)
    /\ Becomes(x, Told(send[x]))

\* put_message raises instead; when it does so after a message went out, with the
\* copy or with the answer to the message itself, the send fails all the same.
Put(x) ==
    /\ \E pc \in {"item", "latency"} : At(x, pc, {"jms"})
    /\ \E n \in Copies(x) : HandOver(x, n)
    /\ Becomes(x, Told(send[x])) \/ Raises(x)

\* HTTP is awaited and never duplicated.
Call(x) ==
    /\ \E pc \in {"item", "latency"} : At(x, pc, {"http"})
    /\ HandOver(x, 1)
    /\ Becomes(x, [send[x] EXCEPT !.pc = "answer"])

Answered(x) ==
    /\ At(x, "answer", {"http"})
    /\ Becomes(x, Told(send[x])) \/ Raises(x)
    /\ UNCHANGED sent

Wake(x) ==
    /\ At(x, "delay", Messages)
    /\ Becomes(x, Beyond(send[x])) /\ UNCHANGED sent

\* exec of a script; it may raise.
RunScript(x) ==
    /\ At(x, "item", {"script"})
    /\ Becomes(x, Beyond(send[x])) \/ Raises(x)
    /\ UNCHANGED sent

\* A database action, delayed before; without an executor it is skipped.
DBItem(x) ==
    /\ UNCHANGED sent
    /\ LET delayed == HasDB /\ ItemOf(x).delay IN
       \/ /\ At(x, "item", {"db"}) /\ delayed
          /\ Becomes(x, [send[x] EXCEPT !.pc = "delay"])
       \/ /\ At(x, "delay", {"db"}) \/ (At(x, "item", {"db"}) /\ ~delayed)
          /\ Becomes(x, Beyond(send[x])) \/ (HasDB /\ Raises(x))

\* The caller has the results and is done with the runs X.
Forget(X) ==
    /\ send' = [x \in Runs |-> IF x \in X THEN NotBegun ELSE send[x]]
    /\ sent' = [x \in Runs |-> IF x \in X THEN <<>> ELSE sent[x]]
    /\ UNCHANGED holder

SendStep(x) ==
    /\ send[x].pc \notin {"idle", "done"}
    /\ \/ Drop(x) \/ Sleep(x) \/ Refuse(x) \/ Produce(x) \/ Put(x) \/ Call(x)
       \/ Answered(x) \/ Wake(x) \/ RunScript(x) \/ DBItem(x)

-----------------------------------------------------------------------------
\* A completed send reports every message that it has sent, and reports none that
\* it has not sent unless it is one of Kafka, whose failure the client keeps to
\* itself.  Messages and report follow the items, and a message went out once, or
\* twice if its fault says so.
ReportIsTrue ==
    \A x \in Runs : send[x].status = "COMPLETED" =>
        LET s == sent[x]
            told == send[x].told
            Times(n) == {i \in DOMAIN s : s[i] = n}
        IN /\ \A i \in DOMAIN s : \E j \in DOMAIN told : told[j] = s[i]
           /\ \A j \in DOMAIN told :
                Items(send[x])[told[j]].type = "kafka" \/ \E i \in DOMAIN s : s[i] = told[j]
           /\ \A i, j \in DOMAIN s : i < j => s[i] <= s[j]
           /\ \A i, j \in DOMAIN told : i < j => told[i] < told[j]
           /\ \A i \in DOMAIN s :
                Cardinality(Times(s[i])) <= IF Items(send[x])[s[i]].duplicate THEN 2 ELSE 1
=============================================================================
