------------------------------- MODULE JMSPool -------------------------------
(***************************************************************************)
(* jms/pool.py, and jms/registry.py which makes the pools and closes them. *)
(*                                                                         *)
(* A borrower gets a handle (PooledConnection) around a JMS client.  One   *)
(* Condition guards the list `available` and the set `inUse`: whoever is   *)
(* in get_connection holds it, also while the factory is asked, and gives  *)
(* it up only to wait.  Clocks are left out: an idle handle may be too old *)
(* at any visit, and a wait may time out at any moment.                    *)
(*                                                                         *)
(* The factory may return a client that it has returned before, connected  *)
(* or not, or raise: the registry's always returns the client it was made  *)
(* for, reconnected if it can be, and does not raise.  A client may so     *)
(* have several handles, and it is the handles that the pool lends.        *)
(***************************************************************************)
EXTENDS Integers, Sequences, FiniteSets, SequencesExt

CONSTANTS Borrowers,
          Handles,            \* bound: the handles that may exist
          Clients,            \* the clients that the factory may return
          MinIdle, MaxTotal,  \* min_idle, max_size
          NoHandle, NoClient

ASSUME JMSPoolAssumption ==
    /\ IsFiniteSet(Borrowers)
    /\ MinIdle \in Nat /\ MaxTotal \in Nat \ {0}
    /\ NoHandle \notin Handles /\ NoClient \notin Clients

VARIABLES available, inUse,
          client,    \* the client of every handle that exists
          invalid,   \* the lent handles whose is_valid is False
          usable,    \* the clients with a connection (hconn)
          place, borrowed,  \* per borrower: where it is, its handle
          waiters,   \* who waits on the condition, the first in first
          closing    \* the registry's close_all: "no", "pools" or "done"
jmsVars == <<available, inUse, client, invalid, usable, place, borrowed, waiters, closing>>

IdleHandles == {available[i] : i \in DOMAIN available}
Entered     == {t \in Borrowers : place[t] \in {"inside", "reconnecting"}}
MonitorFree == Entered = {}

JMSPoolTypeOK ==
    /\ available \in Seq(Handles) /\ inUse \subseteq Handles
    /\ client \in [Handles -> Clients \cup {NoClient}]
    /\ invalid \subseteq Handles /\ usable \subseteq Clients
    /\ place \in [Borrowers -> {"out", "asking", "inside", "reconnecting",
                                "waiting", "late", "using"}]
    /\ borrowed \in [Borrowers -> Handles \cup {NoHandle}]
    /\ waiters \in Seq(Borrowers)
    /\ closing \in {"no", "pools", "done"}

\* _initialize_idle_connections keeps the clients that the factory could make.
JMSInit ==
    /\ \E n \in 0..MinIdle : available \in {s \in [1..n -> Handles] : IsInjective(s)}
    /\ client \in [Handles -> Clients \cup {NoClient}]
    /\ \A h \in Handles : client[h] # NoClient <=> h \in IdleHandles
    /\ usable \in SUBSET {client[h] : h \in IdleHandles}
    /\ inUse = {} /\ invalid = {}
    /\ place = [t \in Borrowers |-> "out"]
    /\ borrowed = [t \in Borrowers |-> NoHandle]
    /\ waiters = <<>> /\ closing = "no"

MoveTo(t, there) == place' = [place EXCEPT ![t] = there]

\* The factory returns c, which it has connected or not.
Supply(c) == usable' \in {usable, usable \cup {c}}

\* A handle that does not exist yet.
NewHandle == CHOOSE h \in Handles : client[h] = NoClient

-----------------------------------------------------------------------------
Call(t) ==
    /\ place[t] = "out"
    /\ MoveTo(t, "asking")
    /\ UNCHANGED <<available, inUse, client, invalid, usable, borrowed, waiters, closing>>

\* `with self._cv`, at the start and after having been notified.
TakeMonitor(t) ==
    /\ place[t] = "asking" /\ MonitorFree
    /\ MoveTo(t, "inside")
    /\ UNCHANGED <<available, inUse, client, invalid, usable, borrowed, waiters, closing>>

\* _cleanup_connections: an idle handle has expired and its client is closed.
Expire(t) ==
    /\ place[t] = "inside"
    /\ \E i \in DOMAIN available :
          /\ available' = RemoveAt(available, i)
          /\ usable' = usable \ {client[available[i]]}
          /\ client' = [client EXCEPT ![available[i]] = NoClient]
    /\ UNCHANGED <<inUse, invalid, place, borrowed, waiters, closing>>

\* _in_use.add(pooled) and return pooled
Hand(t, h) ==
    /\ inUse' = inUse \cup {h}
    /\ borrowed' = [borrowed EXCEPT ![t] = h]
    /\ MoveTo(t, "using")

\* The first idle handle is lent when its client is connected; otherwise the
\* client is closed and a new one asked for.
Pop(t) ==
    /\ place[t] = "inside" /\ available # <<>>
    /\ LET h == Head(available) IN
          \/ client[h] \in usable /\ Hand(t, h) /\ UNCHANGED usable
          \/ /\ client[h] \notin usable
             /\ borrowed' = [borrowed EXCEPT ![t] = h]
             /\ MoveTo(t, "reconnecting")
             /\ UNCHANGED <<inUse, usable>>
    /\ available' = Tail(available)
    /\ UNCHANGED <<client, invalid, waiters, closing>>

Renew(t) ==
    /\ place[t] = "reconnecting"
    /\ \E c \in Clients :
          /\ Supply(c)
          /\ client' = [client EXCEPT ![borrowed[t]] = c]
    /\ Hand(t, borrowed[t])
    /\ UNCHANGED <<available, invalid, waiters, closing>>

\* Mutant of RenewFails: the handle stays in the list.
RenewFailsKeeping(t) ==
    /\ place[t] = "reconnecting"
    /\ available' = <<borrowed[t]>> \o available
    /\ borrowed' = [borrowed EXCEPT ![t] = NoHandle]
    /\ MoveTo(t, "inside")
    /\ UNCHANGED <<inUse, client, invalid, usable, waiters, closing>>

\* The factory has raised at every attempt, or auto_reconnect is off: the
\* handle is dropped and the next one tried.
RenewFails(t) ==
    /\ place[t] = "reconnecting"
    /\ client' = [client EXCEPT ![borrowed[t]] = NoClient]
    /\ borrowed' = [borrowed EXCEPT ![t] = NoHandle]
    /\ MoveTo(t, "inside")
    /\ UNCHANGED <<available, inUse, invalid, usable, waiters, closing>>

\* Mutant of Grow: only the idle handles count.
GrowBeyond(t) ==
    /\ place[t] = "inside" /\ available = <<>>
    /\ \E h \in Handles : client[h] = NoClient
    /\ \E c \in Clients : Supply(c) /\ client' = [client EXCEPT ![NewHandle] = c]
    /\ Hand(t, NewHandle)
    /\ UNCHANGED <<available, invalid, waiters, closing>>

\* No handle is idle and there may be one more.
Grow(t) ==
    /\ place[t] = "inside" /\ available = <<>>
    /\ Cardinality(inUse) < MaxTotal
    /\ \E h \in Handles : client[h] = NoClient
    /\ \E c \in Clients : Supply(c) /\ client' = [client EXCEPT ![NewHandle] = c]
    /\ Hand(t, NewHandle)
    /\ UNCHANGED <<available, invalid, waiters, closing>>

\* There may not be one more, or the factory has raised.
Wait(t) ==
    /\ place[t] = "inside" /\ available = <<>>
    /\ waiters' = Append(waiters, t)
    /\ MoveTo(t, "waiting")
    /\ UNCHANGED <<available, inUse, client, invalid, usable, borrowed, closing>>

\* The wait is over; the thread is listed as a waiter until it has the lock
\* again, and may be notified in vain.
TimesOut(t) ==
    /\ place[t] = "waiting"
    /\ MoveTo(t, "late")
    /\ UNCHANGED <<available, inUse, client, invalid, usable, borrowed, waiters, closing>>
GiveUp(t) ==
    /\ place[t] = "late" /\ MonitorFree
    /\ \/ \E i \in DOMAIN waiters : waiters[i] = t /\ waiters' = RemoveAt(waiters, i)
       \/ (\A i \in DOMAIN waiters : waiters[i] # t) /\ UNCHANGED waiters
    /\ MoveTo(t, "out")
    /\ UNCHANGED <<available, inUse, client, invalid, usable, borrowed, closing>>

-----------------------------------------------------------------------------
\* The borrower has found its connection faulty.
Invalidate(t) ==
    /\ place[t] = "using" /\ borrowed[t] \notin invalid
    /\ invalid' = invalid \cup {borrowed[t]}
    /\ UNCHANGED <<available, inUse, client, usable, place, borrowed, waiters, closing>>

\* _cv.notify(): the first waiter goes on, if it still waits.
Notified(t) ==
    [u \in Borrowers |->
        IF u = t THEN "out"
        ELSE IF waiters # <<>> /\ u = Head(waiters) /\ place[u] = "waiting" THEN "asking"
        ELSE place[u]]

\* return_connection: an invalid handle is dropped, its client not closed.
GiveBack(t) ==
    /\ place[t] = "using" /\ MonitorFree
    /\ inUse' = inUse \ {borrowed[t]}
    /\ \/ /\ borrowed[t] \notin invalid
          /\ available' = Append(available, borrowed[t])
          /\ UNCHANGED client
       \/ /\ borrowed[t] \in invalid
          /\ client' = [client EXCEPT ![borrowed[t]] = NoClient]
          /\ UNCHANGED available
    /\ invalid' = invalid \ {borrowed[t]}
    /\ borrowed' = [borrowed EXCEPT ![t] = NoHandle]
    /\ place' = Notified(t)
    /\ waiters' = IF waiters = <<>> THEN waiters ELSE Tail(waiters)
    /\ UNCHANGED <<usable, closing>>

\* The broker ends the connection of a client that some handle has.
LinkBreaks(c) ==
    /\ c \in usable /\ \E h \in Handles : client[h] = c
    /\ usable' = usable \ {c}
    /\ UNCHANGED <<available, inUse, client, invalid, place, borrowed, waiters, closing>>

-----------------------------------------------------------------------------
\* close() closes what is idle; _closed is never looked at.
ClosePool ==
    /\ closing = "no" /\ MonitorFree
    /\ closing' = "pools"
    /\ usable' = usable \ {client[h] : h \in IdleHandles}
    /\ client' = [h \in Handles |-> IF h \in IdleHandles THEN NoClient ELSE client[h]]
    /\ available' = <<>>
    /\ UNCHANGED <<inUse, invalid, place, borrowed, waiters>>

\* close_all goes on with the clients that the registry knows, those of handles
\* in use among them.
CloseRegistered ==
    /\ closing = "pools"
    /\ closing' = "done"
    /\ usable' = {}
    /\ UNCHANGED <<available, inUse, client, invalid, place, borrowed, waiters>>

GetConnection(t) == \/ TakeMonitor(t) \/ Expire(t) \/ Pop(t) \/ Renew(t) \/ RenewFails(t)
                    \/ Grow(t) \/ Wait(t) \/ TimesOut(t) \/ GiveUp(t)
JMSNext == \/ \E t \in Borrowers : Call(t) \/ GetConnection(t) \/ Invalidate(t) \/ GiveBack(t)
           \/ \E c \in Clients : LinkBreaks(c)
           \/ ClosePool \/ CloseRegistered
JMSSpec == JMSInit /\ [][JMSNext]_jmsVars

\* Every thread runs on, the factory returns and a wait has a timeout.
\* Nothing is assumed of who gets the lock, or of how long a handle is used.
JMSFairness == \A t \in Borrowers : WF_jmsVars(GetConnection(t))
JMSFairSpec == JMSSpec /\ JMSFairness

-----------------------------------------------------------------------------
JMSPoolLimit == IF MinIdle > MaxTotal THEN MinIdle ELSE MaxTotal

\* Seen from the borrowers the pool is the lease of module BoundedLease, for
\* the handles: nobody else has a handle that somebody uses, and no more are in
\* use than "max_size: Maximum connections in pool" says, whatever expires, is
\* invalidated, replaced or closed meanwhile, and whoever is notified in vain.
HandleLease == INSTANCE BoundedLease
    WITH Things <- Handles, Limit <- JMSPoolLimit, Nothing <- NoHandle,
         loan <- [t \in Borrowers |-> IF place[t] = "using" THEN borrowed[t] ELSE NoHandle]
ImplementsHandleLease == HandleLease!Spec

\* Whoever asks for a connection is served or told that there is none, unless
\* other threads pass it at the lock again and again.
Trying(t) == place[t] \notin {"out", "using"}
RequestsEnd ==
    \A t \in Borrowers :
        \/ []<>~Trying(t)
        \/ []<><<\E u \in Borrowers \ {t} : TakeMonitor(u)>>_jmsVars
=============================================================================
