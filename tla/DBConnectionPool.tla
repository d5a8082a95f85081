-------------------------- MODULE DBConnectionPool --------------------------
(***************************************************************************)
(* db/pool.py, with what db/registry.py and db/executor.py do around it:   *)
(* threads borrow a connection for one statement each.                     *)
(*                                                                         *)
(* A semaphore bounds the borrowers; a lock protects the list `idle`       *)
(* (_available, used from its end) and the list _in_use, of which only the *)
(* multiplicities matter (`lent`).  The lock is held while a connection is *)
(* inspected, reconnected or created.  A borrower uses its connection      *)
(* without the lock, and the providers reconnect by themselves.            *)
(*                                                                         *)
(* release returns the connection under the lock and the permit after it.  *)
(* The factory may return what it has returned before, connected if it was *)
(* not: the one that main.py passes always returns the one provider of the *)
(* database.  A connection may then be in the lists several times and have *)
(* several borrowers, and the pool bounds the borrowers.                   *)
(*                                                                         *)
(* close_all empties the lists, disconnects what was in them and then      *)
(* forgets the pool; whoever borrowed before that does not return.         *)
(***************************************************************************)
EXTENDS Integers, Sequences, FiniteSets

CONSTANTS Threads,
          Connections,   \* the provider objects that the factory may return
          MinSize, MaxSize,
          Nobody, None

ASSUME PoolAssumption ==
    /\ IsFiniteSet(Threads)
    /\ MinSize \in Nat /\ MaxSize \in Nat \ {0}
    /\ Nobody \notin Threads /\ None \notin Connections

VARIABLES permits, lock, idle, lent,
          up,        \* the connections whose is_connected() is true
          pc, held,  \* per thread: what it does, the connection it has
          closer,    \* the shutdown: "no", "disconnecting" or "done"
          doomed     \* the connections that close has yet to disconnect
vars == <<permits, lock, idle, lent, up, pc, held, closer, doomed>>

Idle == {idle[i] : i \in DOMAIN idle}
PoolTypeOK ==
    /\ permits \in Nat
    /\ lock \in Threads \cup {Nobody}
    /\ idle \in Seq(Connections)
    /\ lent \in [Connections -> Nat]
    /\ up \subseteq Connections
    /\ pc \in [Threads -> {"out", "acquire", "enter", "borrow", "reconnect",
                           "using", "permit"}]
    /\ held \in [Threads -> Connections \cup {None}]
    /\ closer \in {"no", "disconnecting", "done"}
    /\ doomed \subseteq Connections

\* The constructor asks the factory MinSize times and keeps what succeeds.
Init ==
    /\ permits = MaxSize
    /\ lock = Nobody
    /\ \E n \in 0..MinSize : idle \in [1..n -> Connections]
    /\ lent = [c \in Connections |-> 0]
    /\ up = Idle
    /\ pc = [t \in Threads |-> "out"]
    /\ held = [t \in Threads |-> None]
    /\ closer = "no" /\ doomed = {}

Goto(t, there) == pc' = [pc EXCEPT ![t] = there]

-----------------------------------------------------------------------------
\* DBExecutor.execute asks the registry, which still knows the pool.
Ask(t) ==
    /\ pc[t] = "out" /\ closer # "done"
    /\ Goto(t, "acquire")
    /\ UNCHANGED <<permits, lock, idle, lent, up, held, closer, doomed>>

\* _semaphore.acquire(timeout)
TakePermit(t) ==
    /\ pc[t] = "acquire" /\ permits > 0
    /\ permits' = permits - 1
    /\ Goto(t, "enter")
    /\ UNCHANGED <<lock, idle, lent, up, held, closer, doomed>>
TimeOut(t) ==
    /\ pc[t] = "acquire" /\ permits = 0
    /\ Goto(t, "out")
    /\ UNCHANGED <<permits, lock, idle, lent, up, held, closer, doomed>>

Enter(t) ==
    /\ pc[t] = "enter" /\ lock = Nobody
    /\ lock' = t
    /\ Goto(t, "borrow")
    /\ UNCHANGED <<permits, idle, lent, up, held, closer, doomed>>

\* _in_use.append(provider) and return provider
Lend(t, c) ==
    /\ lent' = [lent EXCEPT ![c] = @ + 1]
    /\ held' = [held EXCEPT ![t] = c]
    /\ lock' = Nobody
    /\ Goto(t, "using")

\* The last idle connection is taken off the list and lent when it is up.
Borrow(t) ==
    /\ pc[t] = "borrow" /\ idle # <<>>
    /\ LET c == idle[Len(idle)] IN
          IF c \in up THEN Lend(t, c)
          ELSE /\ held' = [held EXCEPT ![t] = c]
               /\ Goto(t, "reconnect")
               /\ UNCHANGED <<lock, lent>>
    /\ idle' = SubSeq(idle, 1, Len(idle) - 1)
    /\ UNCHANGED <<permits, up, closer, doomed>>

Reconnect(t) ==
    /\ pc[t] = "reconnect"
    /\ up' = up \cup {held[t]}
    /\ Lend(t, held[t])
    /\ UNCHANGED <<permits, idle, closer, doomed>>

\* Mutant of Discard: the stale connection goes back to the list.
DiscardBack(t) ==
    /\ pc[t] = "reconnect"
    /\ up' = up \ {held[t]}
    /\ idle' = Append(idle, held[t])
    /\ held' = [held EXCEPT ![t] = None]
    /\ Goto(t, "borrow")
    /\ UNCHANGED <<permits, lock, lent, closer, doomed>>

\* connect() has raised: the candidate is disconnected and forgotten.
Discard(t) ==
    /\ pc[t] = "reconnect"
    /\ up' = up \ {held[t]}
    /\ held' = [held EXCEPT ![t] = None]
    /\ Goto(t, "borrow")
    /\ UNCHANGED <<permits, lock, idle, lent, closer, doomed>>

\* No idle connection is left: the factory returns a connected one.
Create(t) ==
    /\ pc[t] = "borrow" /\ idle = <<>>
    /\ \E c \in Connections : up' = up \cup {c} /\ Lend(t, c)
    /\ UNCHANGED <<permits, idle, closer, doomed>>

\* Mutant of CreateFails: the permit is kept.
CreateFailsKeeping(t) ==
    /\ pc[t] = "borrow" /\ idle = <<>>
    /\ lock' = Nobody
    /\ Goto(t, "out")
    /\ UNCHANGED <<permits, idle, lent, up, held, closer, doomed>>

\* The factory raises: the permit is given back.
CreateFails(t) ==
    /\ pc[t] = "borrow" /\ idle = <<>>
    /\ permits' = permits + 1
    /\ lock' = Nobody
    /\ Goto(t, "out")
    /\ UNCHANGED <<idle, lent, up, held, closer, doomed>>

-----------------------------------------------------------------------------
\* A statement finds its connection down and the provider reconnects.
Use(t) ==
    /\ pc[t] = "using" /\ held[t] \notin up
    /\ up' = up \cup {held[t]}
    /\ UNCHANGED <<permits, lock, idle, lent, pc, held, closer, doomed>>

\* Mutant of Return: all the copies leave _in_use.
ReturnAll(t) ==
    /\ pc[t] = "using" /\ lock = Nobody /\ closer # "done"
    /\ lent' = [lent EXCEPT ![held[t]] = 0]
    /\ idle' = Append(idle, held[t])
    /\ held' = [held EXCEPT ![t] = None]
    /\ Goto(t, "permit")
    /\ UNCHANGED <<permits, lock, up, closer, doomed>>

\* release(provider), the section under the lock: one copy of the connection
\* leaves _in_use, if close has not emptied it, and is idle again.
Return(t) ==
    /\ pc[t] = "using" /\ lock = Nobody /\ closer # "done"
    /\ lent' = [lent EXCEPT ![held[t]] = IF @ > 0 THEN @ - 1 ELSE @]
    /\ idle' = Append(idle, held[t])
    /\ held' = [held EXCEPT ![t] = None]
    /\ Goto(t, "permit")
    /\ UNCHANGED <<permits, lock, up, closer, doomed>>

\* release(provider): _semaphore.release()
ReturnPermit(t) ==
    /\ pc[t] = "permit"
    /\ permits' = permits + 1
    /\ Goto(t, "out")
    /\ UNCHANGED <<lock, idle, lent, up, held, closer, doomed>>

\* release_provider does not find the pool any more and does nothing.
Abandon(t) ==
    /\ pc[t] = "using" /\ closer = "done"
    /\ held' = [held EXCEPT ![t] = None]
    /\ Goto(t, "out")
    /\ UNCHANGED <<permits, lock, idle, lent, up, closer, doomed>>

\* The database drops a connection.
Break(c) ==
    /\ c \in up
    /\ up' = up \ {c}
    /\ UNCHANGED <<permits, lock, idle, lent, pc, held, closer, doomed>>

-----------------------------------------------------------------------------
\* close(): the lists are emptied under the lock ...
Close ==
    /\ closer = "no" /\ lock = Nobody
    /\ closer' = "disconnecting"
    /\ doomed' = Idle \cup {c \in Connections : lent[c] > 0}
    /\ idle' = <<>>
    /\ lent' = [c \in Connections |-> 0]
    /\ UNCHANGED <<permits, lock, up, pc, held>>

\* ... and what was in them is disconnected without it ...
Disconnect(c) ==
    /\ c \in doomed
    /\ doomed' = doomed \ {c}
    /\ up' = up \ {c}
    /\ UNCHANGED <<permits, lock, idle, lent, pc, held, closer>>

\* ... after which close_all forgets the pool.
Forget ==
    /\ closer = "disconnecting" /\ doomed = {}
    /\ closer' = "done"
    /\ UNCHANGED <<permits, lock, idle, lent, up, pc, held, doomed>>

Acquire(t) == TakePermit(t) \/ TimeOut(t) \/ Enter(t) \/ Borrow(t)
              \/ Reconnect(t) \/ Discard(t) \/ Create(t) \/ CreateFails(t)
Release(t) == Return(t) \/ ReturnPermit(t) \/ Abandon(t)
Shutdown   == Close \/ Forget \/ \E c \in Connections : Disconnect(c)
Next == \/ \E t \in Threads : Ask(t) \/ Acquire(t) \/ Use(t) \/ Release(t)
        \/ \E c \in Connections : Break(c)
        \/ Shutdown
Spec == Init /\ [][Next]_vars

\* Every thread runs on, and the drivers' connect and disconnect return.
\* Nothing is assumed of who gets the lock, or of how long a statement takes.
Fairness == \A t \in Threads : WF_vars(Acquire(t))
FairSpec == Spec /\ Fairness

-----------------------------------------------------------------------------
Borrowing == {t \in Threads : pc[t] \in {"enter", "borrow", "reconnect", "using", "permit"}}
Holding(c) == {t \in Threads : pc[t] = "using" /\ held[t] = c}

\* No permit is lost or made up on any path through acquire and release, also
\* when the factory fails, a connection is stale or the pool is closed.
PermitsConserved ==
    closer # "done" => permits + Cardinality(Borrowing) = MaxSize

\* "Maximum simultaneous connections in the pool": there are never more loans
\* and idle entries together than the pool may have, even across a close.  (An
\* entry is a loan or an idle copy: several may be of one provider.)
SizeBounded ==
    Len(idle) + Cardinality({t \in Threads : held[t] # None})
        <= IF MinSize > MaxSize THEN MinSize ELSE MaxSize

\* What /api/db/status reports as in_use is the number of borrowers, also when
\* they have borrowed the same provider.
StatsExact ==
    closer = "no" => \A c \in Connections : lent[c] = Cardinality(Holding(c))

\* The lock, which every operation of the pool needs, is never held for ever:
\* the loop over the idle connections ends, whatever fails in it.
LockReleased == lock # Nobody ~> lock = Nobody
=============================================================================
