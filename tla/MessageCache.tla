---------------------------- MODULE MessageCache ----------------------------
(***************************************************************************)
(* test/cache.py: the in-memory cache into which the Kafka and the JMS     *)
(* listener threads put every message they consume, and out of which the   *)
(* running tests read.                                                     *)
(*                                                                         *)
(* The lists self.messages[topic] are append-only apart from the removal   *)
(* of expired messages, so their order is the order of arrival: an entry   *)
(* carries its arrival number `id` and the cache is a set of entries.      *)
(*                                                                         *)
(* add_message uses two locks, one after the other: the entry is appended  *)
(* under _lock, and the condition is notified later, under its own lock.   *)
(* The operators below are the critical sections.                          *)
(***************************************************************************)
EXTENDS Common

CONSTANTS Waiters,  \* the threads that may block in wait_for_new_message
          TTL       \* ttl_seconds

ASSUME CacheAssumption == TTL \in Nat \ {0}

VARIABLES messages, nextId, waiting
cacheVars == <<messages, nextId, waiting>>

Entry == [id: Nat, topic: Destinations, payload: Payloads, partition: Nat,
          offset: Nat, timestamp: Nat, cachedAt: Nat,
          byRules: BOOLEAN, byTests: BOOLEAN]

CacheTypeOK ==
    /\ messages \subseteq Entry
    /\ nextId \in Nat
    /\ waiting \subseteq Waiters

CacheInit ==
    /\ messages = {}
    /\ nextId = 0
    /\ waiting = {}

-----------------------------------------------------------------------------
\* An entry is kept while (current_time - cached_at) < ttl_seconds.
Live(m) == clock < m.cachedAt + TTL

\* Mutant of Purge: age counted from the message's own timestamp.
PurgeByTimestamp(S, topic) == {m \in S : m.topic = topic => clock < m.timestamp + TTL}

\* _cleanup_expired(topic)
Purge(S, topic) == {m \in S : m.topic = topic => Live(m)}

\* The entry that add_message appends.
NewEntry(topic, payload, partition, offset, timestamp) ==
    [id |-> nextId, topic |-> topic, payload |-> payload, partition |-> partition,
     offset |-> offset, timestamp |-> timestamp, cachedAt |-> clock,
     byRules |-> FALSE, byTests |-> FALSE]

\* add_message, the section under _lock: append, then clean the topic up.
AddMessage(topic, payload, partition, offset, timestamp) ==
    /\ messages' = Purge(messages \cup
                         {NewEntry(topic, payload, partition, offset, timestamp)}, topic)
    /\ nextId' = nextId + 1
    /\ UNCHANGED waiting

\* add_message, the section under _new_message_condition: wake everybody.
NotifyAll == waiting' = {} /\ UNCHANGED <<messages, nextId>>

\* get_messages(topic, since): the answer, and what the call does to the cache.
Cached(topic, since) ==
    {m \in messages : m.topic = topic /\ Live(m) /\ m.cachedAt >= since}
PurgeTopic(topic) ==
    /\ messages' = Purge(messages, topic)
    /\ UNCHANGED <<nextId, waiting>>

\* Mutants of FirstWithOffset: the last entry; the topic is not part of the
\* key either.
LastWithOffset(m, topic, offset) ==
    /\ m \in messages /\ m.topic = topic /\ m.offset = offset
    /\ \A n \in messages : n.topic = topic /\ n.offset = offset => n.id <= m.id
FirstOfAnyTopic(m, topic, offset) ==
    /\ m \in messages /\ m.offset = offset
    /\ \A n \in messages : n.offset = offset => m.id <= n.id

\* The first entry of the topic's list that has this offset.  The partition
\* is not part of the key.
FirstWithOffset(m, topic, offset) ==
    /\ m \in messages /\ m.topic = topic /\ m.offset = offset
    /\ \A n \in messages : n.topic = topic /\ n.offset = offset => m.id <= n.id

\* mark_consumed_by_rules / mark_consumed_by_tests: flag that entry, if any.
MarkConsumedByRules(topic, offset) ==
    /\ \/ \E m \in messages :
             /\ FirstWithOffset(m, topic, offset)
             /\ messages' = (messages \ {m}) \cup {[m EXCEPT !.byRules = TRUE]}
       \/ /\ ~ \E m \in messages : m.topic = topic /\ m.offset = offset
          /\ messages' = messages
    /\ UNCHANGED <<nextId, waiting>>

\* wait_for_new_message: block until notified; the caller's timeout is
\* modelled with the caller.
BeginWaiting(w) == waiting' = waiting \cup {w} /\ UNCHANGED <<messages, nextId>>
EndWaiting(w)   == waiting' = waiting \ {w} /\ UNCHANGED <<messages, nextId>>

\* _cleanup_all_expired, run every cleanup_interval_seconds by its own thread.
CleanupAllExpired ==
    /\ messages' = {m \in messages : Live(m)}
    /\ UNCHANGED <<nextId, waiting>>
=============================================================================
