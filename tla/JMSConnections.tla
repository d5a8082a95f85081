--------------------------- MODULE JMSConnections ---------------------------
(***************************************************************************)
(* The connections of the IBM MQ providers of jms/providers/ibm_mq.py that  *)
(* target one queue manager.  A process has one MQI connection to it; each *)
(* provider holds a handle (a pymqi QueueManager), its own or one it shares *)
(* through the module's cache.  The threads that put and get find out that *)
(* the connection is broken, invalidate the handle and connect again, under *)
(* two locks: one for the operations on the connection, one per provider   *)
(* for connect().  self._lock only guards single steps of this model.      *)
(***************************************************************************)
EXTENDS Integers, FiniteSets

CONSTANTS Providers, Users,
          ProviderOf,   \* the provider each user thread calls
          Calls,        \* what each user thread calls: {"put"}, {"get"} or both
          First,        \* the provider that was made first
          Retries,      \* max_retries of connect()
          MaxBreaks,    \* bound: how often the connection breaks
          MaxOutages,   \* bound: how often the queue manager goes down
          NoHandle, Nobody

ASSUME ConnectionsAssumption ==
    /\ ProviderOf \in [Users -> Providers] /\ Calls \in [Users -> SUBSET {"put", "get"}] /\ First \in Providers
    /\ Retries \in Nat \ {0} /\ MaxBreaks \in Nat /\ MaxOutages \in Nat
    /\ Nobody \notin Users \cup Providers

VARIABLES prov,      \* per provider: qm, _connected, _shared_connection
          cache,     \* _qm_connection_cache for the one queue manager
          user,      \* per thread: where it is in put_message or get_message
          opLock,    \* who has the hConn's operation lock
          dialLock,  \* per provider: who has _reconnect_lock
          live,      \* the connection that works, or 0
          tracked,   \* the connection the MQ client library knows of, or 0
          links,     \* the connections there have been
          up, breaks, outages, closed

provVars == <<prov, cache>>
mqVars   == <<live, tracked, links>>
envVars  == <<up, breaks, outages>>
vars == <<provVars, user, opLock, dialLock, mqVars, envVars, closed>>

\* A handle is an object: `by` is the one whose connect() made it.
Handle == [conn: Nat, by: Providers \cup Users]
Old(p) == [conn |-> 1, by |-> First]
Resting == [pc |-> "idle", op |-> "get", snap |-> NoHandle, attempt |-> 0, tries |-> 0,
            old |-> NoHandle, shared |-> FALSE, accepted |-> 0, result |-> "ok"]

\* The providers have connected one after the other in their constructors.
Init ==
    /\ prov = [p \in Providers |-> [qm |-> Old(p), connected |-> TRUE, shared |-> p # First]]
    /\ cache = Old(First)
    /\ user = [u \in Users |-> Resting]
    /\ opLock = Nobody /\ dialLock = [p \in Providers |-> Nobody]
    /\ live = 1 /\ tracked = 1 /\ links = 1
    /\ up = TRUE /\ breaks = 0 /\ outages = 0 /\ closed = FALSE

Mine(u) == prov[ProviderOf[u]]
Goes(u, s) == user' = [user EXCEPT ![u] = s]
Moves(u, pc) == Goes(u, [user[u] EXCEPT !.pc = pc])
\* The end of a call; what get_message meets is logged and swallowed.
Ending(s, result) ==
    IF s.op = "get" THEN Resting
    ELSE IF result = "raised" THEN [Resting EXCEPT !.op = "put", !.result = "raised"]
    ELSE [Resting EXCEPT !.op = "put", !.attempt = s.attempt, !.accepted = s.accepted]

-----------------------------------------------------------------------------
\* is_connected() at the start of put_message and get_message.
Ask(u) ==
    /\ user[u].pc = "idle" /\ ~closed
    /\ \E op \in Calls[u] :
        Goes(u, IF Mine(u).connected /\ Mine(u).qm # NoHandle
                THEN [Resting EXCEPT !.op = op, !.pc = "snap"]
                ELSE Ending([Resting EXCEPT !.op = op], "raised"))
    /\ UNCHANGED <<provVars, opLock, dialLock, mqVars, envVars, closed>>

\* qm_snapshot = self.qm, before the operation lock.
Snap(u) ==
    /\ user[u].pc = "snap"
    /\ Goes(u, [user[u] EXCEPT !.snap = Mine(u).qm, !.pc = "queue"])
    /\ UNCHANGED <<provVars, opLock, dialLock, mqVars, envVars, closed>>

Usable(h) == h # NoHandle /\ h.conn = live
MayOperate(u) == user[u].pc = "queue" /\ opLock = Nobody

Works(u) ==
    /\ MayOperate(u) /\ Usable(user[u].snap)
    /\ LET s == [user[u] EXCEPT !.accepted = @ + 1] IN Goes(u, Ending(s, "ok"))
    /\ UNCHANGED <<provVars, opLock, dialLock, mqVars, envVars, closed>>

\* An error that says nothing of the connection, or a handle that is None.
Errs(u) ==
    /\ MayOperate(u) /\ (Usable(user[u].snap) \/ user[u].snap = NoHandle)
    /\ Goes(u, Ending(user[u], "raised"))
    /\ UNCHANGED <<provVars, opLock, dialLock, mqVars, envVars, closed>>

\* After a loss: the first attempt of a put, and every get, cleans up.
Lost(u, n) ==
    LET s == [user[u] EXCEPT !.accepted = @ + n] IN
    IF s.op = "put" /\ s.attempt = 1
    THEN Goes(u, Ending(s, "raised")) /\ UNCHANGED opLock
    ELSE Goes(u, [s EXCEPT !.pc = "drop"]) /\ opLock' = u

FindsBroken(u) ==
    /\ MayOperate(u) /\ user[u].snap # NoHandle /\ ~Usable(user[u].snap)
    /\ Lost(u, 0)
    /\ UNCHANGED <<provVars, dialLock, mqVars, envVars, closed>>

\* The connection breaks under the operation, before or after the queue
\* manager has accepted the message.
BreaksUnder(u) ==
    /\ MayOperate(u) /\ Usable(user[u].snap) /\ breaks < MaxBreaks /\ ~closed
    /\ breaks' = breaks + 1 /\ live' = 0
    /\ \E n \in {0, 1} : Lost(u, n)
    /\ UNCHANGED <<provVars, dialLock, tracked, links, up, outages, closed>>

-----------------------------------------------------------------------------
\* Mutant of Stale: whatever the provider holds now is torn down.
StaleOrNot(u) == TRUE

\* No other thread has replaced the handle that failed.
Stale(u) == Mine(u).qm = user[u].snap

\* _invalidate_connection, still under the operation lock.
Invalidate(u) ==
    /\ user[u].pc = "drop"
    /\ IF Stale(u)
       THEN /\ prov' = [prov EXCEPT ![ProviderOf[u]] = [qm |-> NoHandle, connected |-> FALSE, shared |-> FALSE]]
            /\ Goes(u, [user[u] EXCEPT !.snap = NoHandle, !.old = IF Mine(u).shared THEN NoHandle ELSE Mine(u).qm,
                            !.pc = IF Mine(u).shared THEN "reconnect" ELSE "hang up"])
            /\ opLock' = IF Mine(u).shared THEN Nobody ELSE u
       ELSE /\ Goes(u, [user[u] EXCEPT !.snap = NoHandle, !.pc = "reconnect"])
            /\ opLock' = Nobody /\ UNCHANGED prov
    /\ UNCHANGED <<cache, dialLock, mqVars, envVars, closed>>

\* MQDISC, which also makes the library forget the connection.
HangUp(h) ==
    /\ tracked' = IF h # NoHandle /\ h.conn = tracked THEN 0 ELSE tracked
    /\ live' = IF h # NoHandle /\ h.conn = live THEN 0 ELSE live
    /\ UNCHANGED links
DropHandle(u) ==
    /\ user[u].pc = "hang up"
    /\ HangUp(user[u].old) /\ Moves(u, "evict")
    /\ UNCHANGED <<provVars, opLock, dialLock, envVars, closed>>

\* Mutant of Kept: the entry stays in the cache.
KeptAlways(h) == cache

\* The cache without one's own entry.
Kept(h) == IF cache = h THEN NoHandle ELSE cache

Evict(u) ==
    /\ user[u].pc = "evict"
    /\ cache' = Kept(user[u].old)
    /\ Goes(u, [user[u] EXCEPT !.old = NoHandle, !.pc = "reconnect"]) /\ opLock' = Nobody
    /\ UNCHANGED <<prov, dialLock, mqVars, envVars, closed>>

-----------------------------------------------------------------------------
\* Mutant of Resumed: a put is taken for done once it is connected again.
ResumedAsDone(u) == Ending(user[u], "ok")

\* After connect() has returned: a put is tried once more, a get returns.
Resumed(u) ==
    IF user[u].op = "put"
    THEN [Resting EXCEPT !.op = "put", !.pc = "snap", !.attempt = 1, !.accepted = user[u].accepted]
    ELSE Ending(user[u], "ok")

\* connect() by one thread of the provider at a time; it looks in the cache.
Connect(u) ==
    /\ user[u].pc = "reconnect" /\ dialLock[ProviderOf[u]] = Nobody
    /\ IF Mine(u).connected /\ Mine(u).qm # NoHandle
       THEN Goes(u, Resumed(u)) /\ UNCHANGED dialLock
       ELSE /\ dialLock' = [dialLock EXCEPT ![ProviderOf[u]] = u]
            /\ Goes(u, [user[u] EXCEPT !.old = cache, !.shared = cache # NoHandle, !.tries = 0,
                            !.pc = IF cache # NoHandle THEN "publish" ELSE "dial"])
    /\ UNCHANGED <<provVars, opLock, mqVars, envVars, closed>>

\* connectTCPClient: a new connection, or with MQRC_ALREADY_CONNECTED a new
\* object for the connection that the library still knows.
Dial(u) ==
    /\ user[u].pc = "dial" /\ up
    /\ IF tracked # 0 THEN UNCHANGED mqVars
       ELSE links' = links + 1 /\ tracked' = links + 1 /\ live' = links + 1
    /\ Goes(u, [user[u] EXCEPT !.pc = "publish", !.old = [conn |-> tracked', by |-> u]])
    /\ UNCHANGED <<provVars, opLock, dialLock, envVars, closed>>

DialFails(u) ==
    /\ user[u].pc = "dial" /\ ~up
    /\ IF user[u].tries + 1 < Retries
       THEN Goes(u, [user[u] EXCEPT !.tries = @ + 1]) /\ UNCHANGED dialLock
       ELSE /\ Goes(u, Ending(user[u], "raised"))
            /\ dialLock' = [dialLock EXCEPT ![ProviderOf[u]] = Nobody]
    /\ UNCHANGED <<provVars, opLock, mqVars, envVars, closed>>

\* connect() assigns without self._lock: the handle first, whose it is and the
\* cache entry later, which is what the provider has by then: None when another
\* thread has invalidated the handle meanwhile.
Publish(u) ==
    /\ user[u].pc = "publish"
    /\ prov' = [prov EXCEPT ![ProviderOf[u]].qm = user[u].old, ![ProviderOf[u]].connected = TRUE]
    /\ Moves(u, "settle")
    /\ UNCHANGED <<cache, opLock, dialLock, mqVars, envVars, closed>>
Settle(u) ==
    /\ user[u].pc = "settle"
    /\ prov' = [prov EXCEPT ![ProviderOf[u]].shared = user[u].shared]
    /\ cache' = IF user[u].shared THEN cache ELSE Mine(u).qm
    /\ dialLock' = [dialLock EXCEPT ![ProviderOf[u]] = Nobody]
    /\ Goes(u, Resumed(u))
    /\ UNCHANGED <<opLock, mqVars, envVars, closed>>

-----------------------------------------------------------------------------
\* The registry's close_all when the program ends, after the listeners have
\* stopped: disconnect() of the providers, taken as one step.  A shared handle
\* is only let go; the cache keeps its entry.
CloseAll ==
    /\ ~closed /\ closed' = TRUE /\ \A u \in Users : user[u].pc = "idle"
    /\ prov' = [p \in Providers |-> IF prov[p].qm = NoHandle THEN prov[p]
                                    ELSE [prov[p] EXCEPT !.qm = NoHandle, !.connected = FALSE]]
    /\ LET own == {prov[p].qm : p \in {x \in Providers : ~prov[x].shared}} \ {NoHandle} IN
       HangUp(IF \E h \in own : h.conn = tracked THEN CHOOSE h \in own : h.conn = tracked ELSE NoHandle)
    /\ UNCHANGED <<cache, user, opLock, dialLock, envVars>>

\* The network or the queue manager ends the connection (bound: not once the
\* program ends).
Break ==
    /\ live # 0 /\ breaks < MaxBreaks /\ ~closed
    /\ breaks' = breaks + 1 /\ live' = 0
    /\ UNCHANGED <<provVars, user, opLock, dialLock, tracked, links, up, outages, closed>>
GoDown ==
    /\ up /\ outages < MaxOutages /\ ~closed
    /\ up' = FALSE /\ outages' = outages + 1 /\ live' = 0
    /\ UNCHANGED <<provVars, user, opLock, dialLock, tracked, links, breaks, closed>>
ComeBack ==
    /\ ~up /\ up' = TRUE
    /\ UNCHANGED <<provVars, user, opLock, dialLock, mqVars, breaks, outages, closed>>

UserStep(u) ==
    \/ Ask(u) \/ Snap(u) \/ Works(u) \/ Errs(u) \/ FindsBroken(u) \/ BreaksUnder(u)
    \/ Invalidate(u) \/ DropHandle(u) \/ Evict(u)
    \/ Connect(u) \/ Dial(u) \/ DialFails(u) \/ Publish(u) \/ Settle(u)
Next == \/ \E u \in Users : UserStep(u)
        \/ CloseAll \/ Break \/ GoDown \/ ComeBack
Spec == Init /\ [][Next]_vars

\* Threads run and get a lock that is released again and again, every provider
\* is polled for ever, and outages end.
Fairness == WF_vars(ComeBack) /\ \A u \in Users : SF_vars(UserStep(u))
FairSpec == Spec /\ Fairness

-----------------------------------------------------------------------------
AnyHandle == Handle \cup {NoHandle}
Places == {"idle", "snap", "queue", "drop", "hang up", "evict", "reconnect", "dial", "publish", "settle"}
UserState ==
    [pc: Places, op: {"put", "get"}, snap: AnyHandle, attempt: {0, 1}, tries: Nat,
     old: AnyHandle, shared: BOOLEAN, accepted: Nat, result: {"ok", "raised"}]
ConnectionsTypeOK ==
    /\ prov \in [Providers -> [qm: AnyHandle, connected: BOOLEAN, shared: BOOLEAN]]
    /\ cache \in AnyHandle
    /\ user \in [Users -> UserState]
    /\ opLock \in Users \cup {Nobody}
    /\ dialLock \in [Providers -> Users \cup {Nobody}]
    /\ links \in Nat /\ tracked \in 0..links /\ live \in {0, tracked}
    /\ breaks \in Nat /\ outages \in Nat /\ up \in BOOLEAN /\ closed \in BOOLEAN

\* A put that returns has put its message, at least once, and twice only when
\* it lost the connection on the way.
PutsAreTrue ==
    \A u \in Users :
        user[u].pc = "idle" /\ user[u].op = "put" /\ user[u].result = "ok"
            => user[u].accepted \in 1..(1 + user[u].attempt)

\* "preventing the new connection from being torn down by a racing thread"
\* (ibm_mq.py:370): while the program runs, a connection that works ends only
\* because it breaks, whoever still sees errors from the one before it.
LiveLinksStay ==
    [][live # 0 /\ live' # live => breaks' # breaks \/ outages' # outages \/ closed' # closed]_vars

\* A provider whose connection is broken gets a working one, as long as all
\* are in use, unless all attempts fell into an outage or the program ends.
GivenUp(p) == outages > 0 /\ ~prov[p].connected /\ \A u \in Users :
    ProviderOf[u] = p => user[u].pc \in {"idle", "snap", "queue"}
Recovers ==
    \A p \in Providers : ~Usable(prov[p].qm) ~> Usable(prov[p].qm) \/ GivenUp(p) \/ closed
=============================================================================
