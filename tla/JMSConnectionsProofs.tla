------------------------ MODULE JMSConnectionsProofs ------------------------
(***************************************************************************)
(* Proofs about JMSConnections for every set of providers and threads and  *)
(* any number of attempts, breaks and outages: type correctness, that puts *)
(* are true, and that a connection that works is never torn down.          *)
(***************************************************************************)
EXTENDS JMSConnections, TLAPS

\* A handle is of one of the first n connections; it does not work while l does.
Known(h, n)  == h # NoHandle => h.conn \in 1..n
Broken(h, l) == h # NoHandle => h.conn # l

\* How often the message of a put may have been accepted, by where its thread is.
Counted(s) ==
    s.op = "put" =>
        /\ s.pc = "idle" /\ s.result = "ok" => s.accepted \in 1..(1 + s.attempt)
        /\ s.pc \in {"snap", "queue"} => s.accepted \in 0..s.attempt
        /\ s.pc \notin {"idle", "snap", "queue"} => s.accepted \in 0..1

\* A thread knows connections there have been; the handle that it is about to
\* invalidate or to disconnect does not work.
Sound(s, n, l) ==
    /\ Known(s.snap, n) /\ Known(s.old, n)
    /\ s.pc = "drop" => Broken(s.snap, l)
    /\ s.pc = "hang up" => Broken(s.old, l)
    /\ Counted(s)

ThreadsSound == \A u \in Users : Sound(user[u], links, live)
HandlesKnown == (\A p \in Providers : Known(prov[p].qm, links)) /\ Known(cache, links)

-----------------------------------------------------------------------------
\* Type correctness.
LEMMA TypeInit == Init => ConnectionsTypeOK
<1> SUFFICES ASSUME Init PROVE ConnectionsTypeOK
  OBVIOUS
<1>1. Old(First) \in AnyHandle /\ \A p \in Providers : Old(p) \in AnyHandle
  BY ConnectionsAssumption DEF Old, AnyHandle, Handle
<1>2. Resting \in UserState
  BY DEF Resting, UserState, Places, AnyHandle
<1>3. /\ prov \in [Providers -> [qm: AnyHandle, connected: BOOLEAN, shared: BOOLEAN]]
      /\ cache \in AnyHandle
  BY <1>1 DEF Init
<1>4. user \in [Users -> UserState]
  BY <1>2 DEF Init
<1>5. /\ opLock \in Users \cup {Nobody}
      /\ dialLock \in [Providers -> Users \cup {Nobody}]
  BY DEF Init
<1>6. links = 1 /\ tracked = 1 /\ live = 1 /\ breaks = 0 /\ outages = 0 /\ up = TRUE /\ closed = FALSE
  BY DEF Init
<1>7. links \in Nat /\ tracked \in 0..links /\ live \in {0, tracked} /\ breaks \in Nat /\ outages \in Nat
  BY <1>6
<1>8. up \in BOOLEAN /\ closed \in BOOLEAN
  BY <1>6
<1> QED
  BY <1>3, <1>4, <1>5, <1>7, <1>8 DEF ConnectionsTypeOK

\* States of a thread: the end of a call, the way on after connect(), and what
\* the steps assign.
LEMMA EndingTyped ==
  ASSUME NEW s \in UserState, NEW r \in {"ok", "raised"}
  PROVE  Ending(s, r) \in UserState
<1>1. NoHandle \in AnyHandle
  BY DEF AnyHandle
<1> QED
  BY <1>1 DEF Ending, Resting, UserState, Places

LEMMA ResumedTyped ==
  ASSUME NEW u \in Users, user[u] \in UserState
  PROVE  Resumed(u) \in UserState
<1>1. NoHandle \in AnyHandle
  BY DEF AnyHandle
<1>2. Ending(user[u], "ok") \in UserState
  BY EndingTyped
<1> QED
  BY ZenonT(60), <1>1, <1>2 DEF Resumed, Resting, UserState, Places

LEMMA UserTyped ==
  ASSUME NEW s \in UserState, NEW pc \in Places, NEW h \in AnyHandle, NEW g \in AnyHandle
  PROVE  /\ [s EXCEPT !.pc = pc] \in UserState
         /\ [s EXCEPT !.snap = h, !.pc = pc] \in UserState
         /\ [s EXCEPT !.pc = pc, !.old = h] \in UserState
         /\ [s EXCEPT !.old = h, !.pc = pc] \in UserState
         /\ [s EXCEPT !.snap = h, !.old = g, !.pc = pc] \in UserState
         /\ \A f \in BOOLEAN :
               [s EXCEPT !.old = h, !.shared = f, !.tries = 0, !.pc = pc] \in UserState
         /\ [s EXCEPT !.tries = @ + 1] \in UserState
<1>1. /\ [s EXCEPT !.pc = pc] \in UserState
      /\ [s EXCEPT !.snap = h, !.pc = pc] \in UserState
  BY DEF UserState
<1>2. /\ [s EXCEPT !.pc = pc, !.old = h] \in UserState
      /\ [s EXCEPT !.old = h, !.pc = pc] \in UserState
  BY DEF UserState
<1>3. [s EXCEPT !.snap = h, !.old = g, !.pc = pc] \in UserState
  BY DEF UserState
<1>4. ASSUME NEW f \in BOOLEAN
      PROVE  [s EXCEPT !.old = h, !.shared = f, !.tries = 0, !.pc = pc] \in UserState
  BY DEF UserState
<1>5. [s EXCEPT !.tries = @ + 1] \in UserState
  BY DEF UserState
<1> QED
  BY <1>1, <1>2, <1>3, <1>4, <1>5

\* A disconnection leaves no connection, or the one there was.
LEMMA HangUpTyped ==
  ASSUME links \in Nat, tracked \in 0..links, live \in {0, tracked}, NEW h, HangUp(h)
  PROVE  links' \in Nat /\ tracked' \in 0..links' /\ live' \in {0, tracked'} /\ live' \in {0, live}
<1>1. CASE h # NoHandle /\ h.conn = tracked
  BY <1>1 DEF HangUp
<1>2. CASE ~(h # NoHandle /\ h.conn = tracked)
  BY <1>2 DEF HangUp
<1> QED
  BY <1>1, <1>2

-----------------------------------------------------------------------------
LEMMA TypeStep ==
  ASSUME ConnectionsTypeOK, [Next]_vars
  PROVE  ConnectionsTypeOK'
<1>0. /\ NoHandle \in AnyHandle
      /\ \A u \in Users : user[u] \in UserState /\ ProviderOf[u] \in Providers
      /\ \A u \in Users : /\ user[u].snap \in AnyHandle /\ user[u].old \in AnyHandle
                          /\ user[u].shared \in BOOLEAN /\ user[u].tries \in Nat
      /\ \A p \in Providers : /\ prov[p] \in [qm: AnyHandle, connected: BOOLEAN, shared: BOOLEAN]
                              /\ prov[p].qm \in AnyHandle
  BY ConnectionsAssumption DEF ConnectionsTypeOK, UserState, AnyHandle
<1>1. ASSUME NEW u \in Users, Ask(u) PROVE ConnectionsTypeOK'
  <2>1. PICK op \in Calls[u] :
          Goes(u, IF Mine(u).connected /\ Mine(u).qm # NoHandle
                  THEN [Resting EXCEPT !.op = op, !.pc = "snap"]
                  ELSE Ending([Resting EXCEPT !.op = op], "raised"))
    BY <1>1 DEF Ask
  <2>2. op \in {"put", "get"}
    BY ConnectionsAssumption
  <2>3. /\ [Resting EXCEPT !.op = op, !.pc = "snap"] \in UserState
        /\ [Resting EXCEPT !.op = op] \in UserState
    BY <1>0, <2>2 DEF Resting, UserState, Places
  <2>4. Ending([Resting EXCEPT !.op = op], "raised") \in UserState
    BY <2>3, EndingTyped
  <2>5. user' \in [Users -> UserState]
    BY <2>1, <2>3, <2>4 DEF Goes, ConnectionsTypeOK
  <2> QED
    BY <1>1, <2>5 DEF Ask, ConnectionsTypeOK, provVars, mqVars, envVars
<1>2. ASSUME NEW u \in Users, Snap(u) PROVE ConnectionsTypeOK'
  <2>1. [user[u] EXCEPT !.snap = Mine(u).qm, !.pc = "queue"] \in UserState
    BY <1>0, UserTyped DEF Mine, Places
  <2> QED
    BY <1>2, <2>1 DEF Snap, Goes, ConnectionsTypeOK, provVars, mqVars, envVars
<1>3. ASSUME NEW u \in Users, Works(u) PROVE ConnectionsTypeOK'
  <2>1. Ending([user[u] EXCEPT !.accepted = @ + 1], "ok") \in UserState
    BY <1>0, EndingTyped DEF UserState
  <2> QED
    BY <1>3, <2>1 DEF Works, Goes, ConnectionsTypeOK, provVars, mqVars, envVars
<1>4. ASSUME NEW u \in Users, Errs(u) PROVE ConnectionsTypeOK'
  <2>1. Ending(user[u], "raised") \in UserState
    BY <1>0, EndingTyped
  <2> QED
    BY <1>4, <2>1 DEF Errs, Goes, ConnectionsTypeOK, provVars, mqVars, envVars
<1>5. ASSUME NEW u \in Users, NEW n \in {0, 1}, Lost(u, n)
      PROVE  user' \in [Users -> UserState] /\ opLock' \in Users \cup {Nobody}
  <2> DEFINE s == [user[u] EXCEPT !.accepted = @ + n]
  <2>1. s \in UserState
    BY <1>0 DEF UserState
  <2>2. Ending(s, "raised") \in UserState
    BY <2>1, EndingTyped
  <2>3. [s EXCEPT !.pc = "drop"] \in UserState
    BY <2>1 DEF UserState, Places
  <2> HIDE DEF s
  <2>4. \/ Goes(u, Ending(s, "raised")) /\ UNCHANGED opLock
        \/ Goes(u, [s EXCEPT !.pc = "drop"]) /\ opLock' = u
    BY <1>5 DEF Lost, s
  <2> QED
    BY <2>2, <2>3, <2>4 DEF Goes, ConnectionsTypeOK
<1>6. ASSUME NEW u \in Users, FindsBroken(u) PROVE ConnectionsTypeOK'
  BY <1>5, <1>6 DEF FindsBroken, ConnectionsTypeOK, provVars, mqVars, envVars
<1>7. ASSUME NEW u \in Users, BreaksUnder(u) PROVE ConnectionsTypeOK'
  BY <1>5, <1>7 DEF BreaksUnder, ConnectionsTypeOK, provVars
<1>8. ASSUME NEW u \in Users, Invalidate(u) PROVE ConnectionsTypeOK'
  <2>1. \A h \in AnyHandle, pc \in Places :
          /\ [user[u] EXCEPT !.snap = NoHandle, !.old = h, !.pc = pc] \in UserState
          /\ [user[u] EXCEPT !.snap = NoHandle, !.pc = pc] \in UserState
    BY <1>0, UserTyped
  <2>2. Mine(u).qm \in AnyHandle
    BY <1>0 DEF Mine
  <2>3. user' \in [Users -> UserState] /\ opLock' \in Users \cup {Nobody}
    <3>1. CASE Stale(u)
      BY <1>0, <1>8, <2>1, <2>2, <3>1 DEF Invalidate, Goes, Places, ConnectionsTypeOK
    <3>2. CASE ~Stale(u)
      BY <1>8, <2>1, <3>2 DEF Invalidate, Goes, Places, ConnectionsTypeOK
    <3> QED
      BY <3>1, <3>2
  <2>4. prov' \in [Providers -> [qm: AnyHandle, connected: BOOLEAN, shared: BOOLEAN]]
    <3>1. [qm |-> NoHandle, connected |-> FALSE, shared |-> FALSE]
            \in [qm: AnyHandle, connected: BOOLEAN, shared: BOOLEAN]
      BY <1>0
    <3>2. \/ UNCHANGED prov
          \/ prov' = [prov EXCEPT ![ProviderOf[u]] = [qm |-> NoHandle, connected |-> FALSE, shared |-> FALSE]]
      BY <1>8 DEF Invalidate
    <3> QED
      BY <1>0, <3>1, <3>2 DEF ConnectionsTypeOK
  <2> QED
    BY <1>8, <2>3, <2>4 DEF Invalidate, ConnectionsTypeOK, mqVars, envVars
<1>9. ASSUME NEW u \in Users, DropHandle(u) PROVE ConnectionsTypeOK'
  <2>1. [user[u] EXCEPT !.pc = "evict"] \in UserState
    BY <1>0, UserTyped DEF Places
  <2>2. links' \in Nat /\ tracked' \in 0..links' /\ live' \in {0, tracked'}
    BY <1>9, HangUpTyped DEF DropHandle, ConnectionsTypeOK
  <2> QED
    BY <1>9, <2>1, <2>2 DEF DropHandle, Moves, Goes, ConnectionsTypeOK, provVars, envVars
<1>10. ASSUME NEW u \in Users, Evict(u) PROVE ConnectionsTypeOK'
  <2>1. [user[u] EXCEPT !.old = NoHandle, !.pc = "reconnect"] \in UserState
    BY <1>0, UserTyped DEF Places
  <2> QED
    BY <1>0, <1>10, <2>1 DEF Evict, Kept, Goes, ConnectionsTypeOK, mqVars, envVars
<1>11. ASSUME NEW u \in Users, Connect(u) PROVE ConnectionsTypeOK'
  <2>1. Resumed(u) \in UserState
    BY <1>0, ResumedTyped
  <2>2. /\ cache \in AnyHandle /\ (cache # NoHandle) \in BOOLEAN
        /\ (IF cache # NoHandle THEN "publish" ELSE "dial") \in Places
    BY DEF Places, ConnectionsTypeOK
  <2>3. [user[u] EXCEPT !.old = cache, !.shared = cache # NoHandle, !.tries = 0,
                        !.pc = IF cache # NoHandle THEN "publish" ELSE "dial"] \in UserState
    BY <1>0, <2>2, UserTyped
  <2> QED
    BY <1>11, <2>1, <2>3 DEF Connect, Goes, ConnectionsTypeOK, provVars, mqVars, envVars
<1>12. ASSUME NEW u \in Users, Dial(u) PROVE ConnectionsTypeOK'
  <2>1. links' \in Nat /\ tracked' \in 0..links' /\ live' \in {0, tracked'}
    BY <1>12 DEF Dial, mqVars, ConnectionsTypeOK
  <2>2. [conn |-> tracked', by |-> u] \in AnyHandle
    BY <2>1 DEF AnyHandle, Handle
  <2>3. [user[u] EXCEPT !.pc = "publish", !.old = [conn |-> tracked', by |-> u]] \in UserState
    BY <1>0, <2>2, UserTyped DEF Places
  <2> QED
    BY <1>12, <2>1, <2>3 DEF Dial, Goes, ConnectionsTypeOK, provVars, envVars
<1>13. ASSUME NEW u \in Users, DialFails(u) PROVE ConnectionsTypeOK'
  <2>1. /\ [user[u] EXCEPT !.tries = @ + 1] \in UserState
        /\ Ending(user[u], "raised") \in UserState
    BY <1>0, EndingTyped, UserTyped DEF Places
  <2>2. user' \in [Users -> UserState]
    BY <1>13, <2>1 DEF DialFails, Goes, ConnectionsTypeOK
  <2> QED
    BY <1>0, <1>13, <2>2 DEF DialFails, ConnectionsTypeOK, provVars, mqVars, envVars
<1>14. ASSUME NEW u \in Users, Publish(u) PROVE ConnectionsTypeOK'
  <2>1. [user[u] EXCEPT !.pc = "settle"] \in UserState
    BY <1>0, UserTyped DEF Places
  <2>2. prov' \in [Providers -> [qm: AnyHandle, connected: BOOLEAN, shared: BOOLEAN]]
    BY <1>0, <1>14 DEF Publish, ConnectionsTypeOK
  <2> QED
    BY <1>14, <2>1, <2>2 DEF Publish, Moves, Goes, ConnectionsTypeOK, mqVars, envVars
<1>15. ASSUME NEW u \in Users, Settle(u) PROVE ConnectionsTypeOK'
  <2>1. Resumed(u) \in UserState
    BY <1>0, ResumedTyped
  <2>2. prov' \in [Providers -> [qm: AnyHandle, connected: BOOLEAN, shared: BOOLEAN]]
    BY <1>0, <1>15 DEF Settle, ConnectionsTypeOK
  <2>3. ProviderOf[u] \in Providers
    BY ConnectionsAssumption
  <2>4. cache' \in AnyHandle
    BY <1>0, <1>15, <2>3 DEF Settle, Mine, ConnectionsTypeOK
  <2> QED
    BY <1>15, <2>1, <2>2, <2>4 DEF Settle, Goes, ConnectionsTypeOK, mqVars, envVars
<1>16. CASE CloseAll
  <2>1. prov' \in [Providers -> [qm: AnyHandle, connected: BOOLEAN, shared: BOOLEAN]]
    BY <1>0, <1>16 DEF CloseAll, ConnectionsTypeOK
  <2>2. links' \in Nat /\ tracked' \in 0..links' /\ live' \in {0, tracked'}
    BY <1>16, HangUpTyped DEF CloseAll, ConnectionsTypeOK
  <2> QED
    BY <1>16, <2>1, <2>2 DEF CloseAll, ConnectionsTypeOK, envVars
<1>17. CASE Break \/ GoDown \/ ComeBack
  <2>1. CASE Break
    BY <2>1 DEF Break, ConnectionsTypeOK, provVars
  <2>2. CASE GoDown
    <3>1. up' \in BOOLEAN
      BY <2>2 DEF GoDown
    <3>2. /\ live' \in {0, tracked'} /\ outages' \in Nat
          /\ UNCHANGED <<prov, cache, user, opLock, dialLock, tracked, links, breaks, closed>>
      BY <2>2 DEF GoDown, ConnectionsTypeOK, provVars
    <3> QED
      BY <3>1, <3>2 DEF ConnectionsTypeOK
  <2>3. CASE ComeBack
    BY <2>3 DEF ComeBack, ConnectionsTypeOK, provVars, mqVars
  <2> QED
    BY <1>17, <2>1, <2>2, <2>3
<1>18. CASE UNCHANGED vars
  BY <1>18 DEF vars, provVars, mqVars, envVars, ConnectionsTypeOK
<1> QED
  BY <1>1, <1>2, <1>3, <1>4, <1>6, <1>7, <1>8, <1>9, <1>10, <1>11, <1>12, <1>13, <1>14, <1>15,
     <1>16, <1>17, <1>18 DEF Next, UserStep

\* The state of the providers, the client library and every thread is well formed.
THEOREM TypeCorrect == Spec => []ConnectionsTypeOK
BY TypeInit, TypeStep, PTL DEF Spec

-----------------------------------------------------------------------------
\* Connections: numbers are never used again.
LinksMove ==
    /\ links' \in Nat /\ links' >= links
    /\ live' \in {live, 0, links + 1}
    /\ live # 0 /\ live' # live => breaks' # breaks \/ outages' # outages \/ closed' # closed

LEMMA LinksStep ==
  ASSUME ConnectionsTypeOK, ThreadsSound, [Next]_vars
  PROVE  LinksMove
<1> USE DEF LinksMove
<1>0. links \in Nat /\ tracked \in 0..links /\ live \in {0, tracked} /\ breaks \in Nat /\ outages \in Nat
  BY DEF ConnectionsTypeOK
<1>1. CASE UNCHANGED mqVars
  BY <1>0, <1>1 DEF mqVars
<1>2. ASSUME NEW u \in Users, BreaksUnder(u) PROVE LinksMove
  BY <1>0, <1>2 DEF BreaksUnder
<1>3. ASSUME NEW u \in Users, DropHandle(u) PROVE LinksMove
  <2>1. Broken(user[u].old, live)
    BY <1>3 DEF DropHandle, ThreadsSound, Sound
  <2>2. live' = live /\ links' = links
    BY <1>3, <2>1 DEF DropHandle, HangUp, Broken
  <2> QED
    BY <1>0, <2>2
<1>4. ASSUME NEW u \in Users, Dial(u) PROVE LinksMove
  BY <1>0, <1>4 DEF Dial, mqVars
<1>5. CASE CloseAll
  <2>1. links' = links /\ live' \in {0, live} /\ closed' # closed
    BY <1>0, <1>5, HangUpTyped DEF CloseAll, HangUp
  <2> QED
    BY <1>0, <2>1
<1>6. CASE Break
  BY <1>0, <1>6 DEF Break
<1>7. CASE GoDown
  BY <1>0, <1>7 DEF GoDown
<1> QED
  BY <1>1, <1>2, <1>3, <1>4, <1>5, <1>6, <1>7
     DEF Next, UserStep, vars, Ask, Snap, Works, Errs, FindsBroken, Invalidate, Evict, Connect,
         DialFails, Publish, Settle, ComeBack

LEMMA HandleStays ==
  ASSUME NEW h, NEW n \in Nat, NEW l \in Nat, NEW m \in Nat, NEW k, m >= n, k \in {l, 0, n + 1},
         Known(h, n)
  PROVE  Known(h, m) /\ (Broken(h, l) => Broken(h, k))
<1> SUFFICES ASSUME h # NoHandle
             PROVE  Known(h, m) /\ (Broken(h, l) => Broken(h, k))
  BY DEF Known, Broken
<1>1. h.conn \in 1..n
  BY DEF Known
<1>2. h.conn \in 1..m /\ h.conn # 0 /\ h.conn # n + 1
  BY <1>1
<1> QED
  BY <1>2 DEF Known, Broken

\* What a thread knows stays sound while it does nothing.
LEMMA SoundStays ==
  ASSUME NEW s, NEW n \in Nat, NEW l \in Nat, NEW m \in Nat, NEW k, m >= n, k \in {l, 0, n + 1},
         Sound(s, n, l)
  PROVE  Sound(s, m, k)
<1>1. Known(s.snap, m) /\ (Broken(s.snap, l) => Broken(s.snap, k))
  BY HandleStays DEF Sound
<1>2. Known(s.old, m) /\ (Broken(s.old, l) => Broken(s.old, k))
  BY HandleStays DEF Sound
<1> QED
  BY <1>1, <1>2 DEF Sound

LEMMA OneThread ==
  ASSUME ConnectionsTypeOK, ThreadsSound, LinksMove,
         NEW u \in Users, NEW s, Goes(u, s), Sound(s, links', live')
  PROVE  ThreadsSound'
<1>1. links \in Nat /\ live \in Nat /\ links' \in Nat /\ links' >= links /\ live' \in {live, 0, links + 1}
  BY DEF ConnectionsTypeOK, LinksMove
<1>2. \A w \in Users : user'[w] = IF w = u THEN s ELSE user[w]
  BY DEF Goes, ConnectionsTypeOK
<1>3. \A w \in Users : Sound(user[w], links', live')
  BY <1>1, SoundStays DEF ThreadsSound
<1> QED
  BY <1>2, <1>3 DEF ThreadsSound

LEMMA NoThread ==
  ASSUME ConnectionsTypeOK, ThreadsSound, LinksMove, UNCHANGED user
  PROVE  ThreadsSound'
<1>1. links \in Nat /\ live \in Nat /\ links' \in Nat /\ links' >= links /\ live' \in {live, 0, links + 1}
  BY DEF ConnectionsTypeOK, LinksMove
<1>2. \A w \in Users : Sound(user[w], links', live')
  BY <1>1, SoundStays DEF ThreadsSound
<1> QED
  BY <1>2 DEF ThreadsSound

LEMMA EndingSound ==
  ASSUME NEW s \in UserState, NEW r \in {"ok", "raised"}, NEW n, NEW l,
         s.op = "put" /\ r = "ok" => s.accepted \in 1..(1 + s.attempt)
  PROVE  Sound(Ending(s, r), n, l)
<1>1. CASE s.op = "get"
  BY <1>1 DEF Ending, Resting, Sound, Known, Counted
<1>2. CASE s.op = "put" /\ r = "raised"
  BY <1>2 DEF Ending, Resting, Sound, Known, Counted
<1>3. CASE s.op = "put" /\ r = "ok"
  BY <1>3 DEF Ending, Resting, Sound, Known, Counted
<1> QED
  BY <1>1, <1>2, <1>3 DEF UserState

LEMMA ResumedSound ==
  ASSUME ConnectionsTypeOK, ThreadsSound, NEW u \in Users, NEW n, NEW l,
         user[u].pc \in {"reconnect", "settle"}
  PROVE  Sound(Resumed(u), n, l)
<1>1. user[u] \in UserState
  BY DEF ConnectionsTypeOK
<1>2. CASE user[u].op = "put"
  <2>1. user[u].accepted \in 0..1
    BY <1>2 DEF ThreadsSound, Sound, Counted
  <2> QED
    BY <1>2, <2>1 DEF Resumed, Resting, Sound, Known, Counted
<1>3. CASE user[u].op # "put"
  <2>1. Sound(Ending(user[u], "ok"), n, l)
    BY <1>1, <1>3, EndingSound
  <2> QED
    BY <1>3, <2>1 DEF Resumed
<1> QED
  BY <1>2, <1>3

\* After a loss a thread has a handle that does not work any more.
LEMMA LostSound ==
  ASSUME ConnectionsTypeOK, ThreadsSound, LinksMove, NEW u \in Users, NEW n \in {0, 1},
         user[u].pc = "queue", Lost(u, n), Broken(user[u].snap, live')
  PROVE  ThreadsSound'
<1> DEFINE s == [user[u] EXCEPT !.accepted = @ + n]
<1>1. user[u] \in UserState /\ Sound(user[u], links, live) /\ links \in Nat /\ live \in Nat
  BY DEF ConnectionsTypeOK, ThreadsSound
<1>2. /\ s \in UserState /\ s.op = user[u].op /\ s.attempt = user[u].attempt
      /\ s.snap = user[u].snap /\ s.old = user[u].old /\ s.accepted = user[u].accepted + n
  BY <1>1 DEF UserState
<1>3. Sound(user[u], links', live')
  BY <1>1, SoundStays DEF LinksMove
<1>4. CASE s.op = "put" /\ s.attempt = 1
  <2>1. Goes(u, Ending(s, "raised"))
    BY <1>4 DEF Lost
  <2>2. Sound(Ending(s, "raised"), links', live')
    BY <1>2, EndingSound
  <2> QED
    BY <2>1, <2>2, OneThread
<1>5. CASE ~(s.op = "put" /\ s.attempt = 1)
  <2> DEFINE d == [s EXCEPT !.pc = "drop"]
  <2>1. Goes(u, d)
    BY <1>5 DEF Lost
  <2>2. /\ d.pc = "drop" /\ d.op = user[u].op /\ d.snap = user[u].snap /\ d.old = user[u].old
        /\ d.accepted = user[u].accepted + n
    BY <1>2 DEF UserState
  <2>3. d.op = "put" => d.accepted \in 0..1
    BY <1>1, <1>2, <1>5, <2>2 DEF Sound, Counted, UserState
  <2> HIDE DEF d
  <2>4. Sound(d, links', live')
    BY <1>3, <2>2, <2>3 DEF Sound, Counted
  <2> QED
    BY <2>1, <2>4, OneThread
<1> QED
  BY <1>4, <1>5

-----------------------------------------------------------------------------
\* The invariant of all theorems below.
IInv == ConnectionsTypeOK /\ ThreadsSound /\ HandlesKnown

LEMMA SoundInit == Init => IInv
<1> SUFFICES ASSUME Init PROVE IInv
  OBVIOUS
<1>1. ConnectionsTypeOK
  BY TypeInit
<1>2. ThreadsSound
  BY DEF Init, ThreadsSound, Sound, Known, Counted, Resting
<1>3. HandlesKnown
  BY DEF Init, HandlesKnown, Known, Old
<1> QED
  BY <1>1, <1>2, <1>3 DEF IInv

\* A step leaves all threads sound: it moves one thread at most.
LEMMA ThreadsStep ==
  ASSUME IInv, [Next]_vars
  PROVE  ThreadsSound'
<1>0. /\ ConnectionsTypeOK /\ ThreadsSound /\ HandlesKnown /\ LinksMove
      /\ links \in Nat /\ live \in Nat /\ links' \in Nat /\ links' >= links
      /\ live' \in {live, 0, links + 1}
      /\ \A u \in Users : /\ user[u] \in UserState /\ Sound(user[u], links, live)
                          /\ ProviderOf[u] \in Providers
  BY LinksStep, ConnectionsAssumption DEF IInv, ConnectionsTypeOK, ThreadsSound, LinksMove
<1>a. \A u \in Users : Sound(user[u], links', live')
  BY <1>0, SoundStays
<1>b. /\ \A p \in Providers : Known(prov[p].qm, links')
      /\ Known(cache, links')
  BY <1>0, HandleStays DEF HandlesKnown
<1>1. ASSUME NEW u \in Users, Ask(u) PROVE ThreadsSound'
  <2>1. PICK op \in {"put", "get"} :
          \/ Goes(u, [Resting EXCEPT !.op = op, !.pc = "snap"])
          \/ Goes(u, Ending([Resting EXCEPT !.op = op], "raised"))
    BY <1>1, ConnectionsAssumption DEF Ask
  <2>2. Sound([Resting EXCEPT !.op = op, !.pc = "snap"], links', live')
    BY DEF Resting, Sound, Known, Counted
  <2>3. [Resting EXCEPT !.op = op] \in UserState
    BY DEF Resting, UserState, Places, AnyHandle
  <2>4. Sound(Ending([Resting EXCEPT !.op = op], "raised"), links', live')
    BY <2>3, EndingSound
  <2> QED
    BY <1>0, <2>1, <2>2, <2>4, OneThread
<1>2. ASSUME NEW u \in Users, Snap(u) PROVE ThreadsSound'
  <2> DEFINE s == [user[u] EXCEPT !.snap = Mine(u).qm, !.pc = "queue"]
  <2>1. Known(Mine(u).qm, links')
    BY <1>0, <1>b DEF Mine
  <2>2. /\ s.pc = "queue" /\ s.snap = Mine(u).qm /\ s.old = user[u].old /\ s.op = user[u].op
        /\ s.accepted = user[u].accepted /\ s.attempt = user[u].attempt
    BY <1>0 DEF UserState
  <2>3. Goes(u, s) /\ user[u].pc = "snap"
    BY <1>2 DEF Snap
  <2> HIDE DEF s
  <2>4. Sound(s, links', live')
    BY <1>a, <2>1, <2>2, <2>3 DEF Sound, Counted
  <2> QED
    BY <1>0, <2>3, <2>4, OneThread
<1>3. ASSUME NEW u \in Users, Works(u) PROVE ThreadsSound'
  <2> DEFINE s == [user[u] EXCEPT !.accepted = @ + 1]
  <2>1. /\ s \in UserState /\ s.op = user[u].op /\ s.attempt = user[u].attempt
        /\ s.accepted = user[u].accepted + 1
    BY <1>0 DEF UserState
  <2>2. Goes(u, Ending(s, "ok")) /\ user[u].pc = "queue"
    BY <1>3 DEF Works, MayOperate
  <2>3. s.op = "put" => user[u].accepted \in 0..user[u].attempt /\ user[u].attempt \in {0, 1}
    BY <1>0, <2>1, <2>2 DEF Sound, Counted, UserState
  <2>4. s.op = "put" => s.accepted \in 1..(1 + s.attempt)
    BY <2>1, <2>3
  <2> HIDE DEF s
  <2>5. Sound(Ending(s, "ok"), links', live')
    BY <2>1, <2>4, EndingSound
  <2> QED
    BY <1>0, <2>2, <2>5, OneThread
<1>4. ASSUME NEW u \in Users, Errs(u) PROVE ThreadsSound'
  <2>1. Sound(Ending(user[u], "raised"), links', live')
    BY <1>0, EndingSound
  <2> QED
    BY <1>0, <1>4, <2>1, OneThread DEF Errs
<1>5. ASSUME NEW u \in Users, FindsBroken(u) PROVE ThreadsSound'
  <2>1. /\ Lost(u, 0) /\ user[u].pc = "queue" /\ live' = live
        /\ Broken(user[u].snap, live)
    BY <1>5 DEF FindsBroken, MayOperate, Usable, Broken, mqVars
  <2> QED
    BY <1>0, <2>1, LostSound
<1>6. ASSUME NEW u \in Users, BreaksUnder(u) PROVE ThreadsSound'
  <2>1. PICK n \in {0, 1} : Lost(u, n)
    BY <1>6 DEF BreaksUnder
  <2>2. user[u].pc = "queue" /\ live' = 0
    BY <1>6 DEF BreaksUnder, MayOperate
  <2>3. Broken(user[u].snap, live')
    <3>1. ASSUME user[u].snap # NoHandle PROVE user[u].snap.conn \in 1..links
      BY <1>0, <3>1 DEF Sound, Known
    <3> QED
      BY <1>0, <2>2, <3>1 DEF Broken
  <2> QED
    BY <1>0, <2>1, <2>2, <2>3, LostSound
<1>7. ASSUME NEW u \in Users, Invalidate(u) PROVE ThreadsSound'
  <2>1. user[u].pc = "drop" /\ live' = live /\ Known(NoHandle, links')
    BY <1>7 DEF Invalidate, mqVars, Known
  <2>2. ASSUME NEW h, NEW pc \in {"hang up", "reconnect"},
               Goes(u, [user[u] EXCEPT !.snap = NoHandle, !.old = h, !.pc = pc]),
               Known(h, links'), pc = "hang up" => Broken(h, live')
        PROVE  ThreadsSound'
    <3> DEFINE s == [user[u] EXCEPT !.snap = NoHandle, !.old = h, !.pc = pc]
    <3>1. /\ s.pc = pc /\ s.snap = NoHandle /\ s.old = h /\ s.op = user[u].op
          /\ s.accepted = user[u].accepted /\ s.attempt = user[u].attempt
      BY <1>0 DEF UserState
    <3>2. Goes(u, s)
      BY <2>2
    <3> HIDE DEF s
    <3>3. Sound(s, links', live')
      BY <1>a, <2>1, <2>2, <3>1 DEF Sound, Counted
    <3> QED
      BY <1>0, <3>2, <3>3, OneThread
  <2>3. CASE Stale(u) /\ Mine(u).shared
    <3>1. Goes(u, [user[u] EXCEPT !.snap = NoHandle, !.old = NoHandle, !.pc = "reconnect"])
      BY <1>7, <2>3 DEF Invalidate
    <3> QED
      BY <2>1, <2>2, <3>1
  <2>4. CASE Stale(u) /\ ~Mine(u).shared
    <3>1. Goes(u, [user[u] EXCEPT !.snap = NoHandle, !.old = user[u].snap, !.pc = "hang up"])
      BY <1>7, <2>4 DEF Invalidate, Stale
    <3>2. Known(user[u].snap, links') /\ Broken(user[u].snap, live')
      BY <1>a, <2>1 DEF Sound
    <3> QED
      BY <2>2, <3>1, <3>2
  <2>5. CASE ~Stale(u)
    <3>1. Goes(u, [user[u] EXCEPT !.snap = NoHandle, !.pc = "reconnect"])
      BY <1>7, <2>5 DEF Invalidate
    <3>2. [user[u] EXCEPT !.snap = NoHandle, !.pc = "reconnect"]
            = [user[u] EXCEPT !.snap = NoHandle, !.old = user[u].old, !.pc = "reconnect"]
      BY <1>0 DEF UserState
    <3>3. Known(user[u].old, links')
      BY <1>a DEF Sound
    <3> QED
      BY <2>2, <3>1, <3>2, <3>3
  <2> QED
    BY <2>3, <2>4, <2>5
<1>8. ASSUME NEW u \in Users, DropHandle(u) \/ Publish(u) PROVE ThreadsSound'
  <2>1. PICK pc \in {"evict", "settle"} :
          Moves(u, pc) /\ user[u].pc \in {"hang up", "publish"}
    BY <1>8 DEF DropHandle, Publish
  <2> DEFINE s == [user[u] EXCEPT !.pc = pc]
  <2>2. /\ s.pc = pc /\ s.snap = user[u].snap /\ s.old = user[u].old /\ s.op = user[u].op
        /\ s.accepted = user[u].accepted /\ s.attempt = user[u].attempt
    BY <1>0 DEF UserState
  <2>3. Goes(u, s)
    BY <2>1 DEF Moves
  <2> HIDE DEF s
  <2>4. Sound(s, links', live')
    BY <1>a, <2>1, <2>2 DEF Sound, Counted
  <2> QED
    BY <1>0, <2>3, <2>4, OneThread
<1>9. ASSUME NEW u \in Users, Evict(u) PROVE ThreadsSound'
  <2> DEFINE s == [user[u] EXCEPT !.old = NoHandle, !.pc = "reconnect"]
  <2>1. Goes(u, s) /\ user[u].pc = "evict" /\ Known(NoHandle, links')
    BY <1>9 DEF Evict, Known
  <2>2. /\ s.pc = "reconnect" /\ s.snap = user[u].snap /\ s.old = NoHandle /\ s.op = user[u].op
        /\ s.accepted = user[u].accepted /\ s.attempt = user[u].attempt
    BY <1>0 DEF UserState
  <2> HIDE DEF s
  <2>3. Sound(s, links', live')
    BY <1>a, <2>1, <2>2 DEF Sound, Counted
  <2> QED
    BY <1>0, <2>1, <2>3, OneThread
<1>10. ASSUME NEW u \in Users, Connect(u) PROVE ThreadsSound'
  <2>0. user[u].pc = "reconnect"
    BY <1>10 DEF Connect
  <2> DEFINE s == [user[u] EXCEPT !.old = cache, !.shared = cache # NoHandle, !.tries = 0,
                                  !.pc = IF cache # NoHandle THEN "publish" ELSE "dial"]
  <2>1. Goes(u, Resumed(u)) \/ Goes(u, s)
    BY <1>10 DEF Connect
  <2>2. /\ s.pc \in {"publish", "dial"} /\ s.snap = user[u].snap /\ s.old = cache /\ s.op = user[u].op
        /\ s.accepted = user[u].accepted /\ s.attempt = user[u].attempt
    BY <1>0 DEF UserState
  <2> HIDE DEF s
  <2>3. Sound(s, links', live')
    BY <1>a, <1>b, <2>0, <2>2 DEF Sound, Counted
  <2>4. Sound(Resumed(u), links', live')
    BY <1>0, <2>0, ResumedSound
  <2> QED
    BY <1>0, <2>1, <2>3, <2>4, OneThread
<1>11. ASSUME NEW u \in Users, Dial(u) PROVE ThreadsSound'
  <2> DEFINE h == [conn |-> tracked', by |-> u]
             s == [user[u] EXCEPT !.pc = "publish", !.old = h]
  <2>1. Goes(u, s) /\ user[u].pc = "dial"
    BY <1>11 DEF Dial
  <2>2. tracked' \in 1..links'
    BY <1>0, <1>11 DEF Dial, mqVars, ConnectionsTypeOK
  <2>3. Known(h, links')
    BY <2>2 DEF Known
  <2>4. /\ s.pc = "publish" /\ s.snap = user[u].snap /\ s.old = h /\ s.op = user[u].op
        /\ s.accepted = user[u].accepted /\ s.attempt = user[u].attempt
    BY <1>0 DEF UserState
  <2> HIDE DEF s, h
  <2>5. Sound(s, links', live')
    BY <1>a, <2>1, <2>3, <2>4 DEF Sound, Counted
  <2> QED
    BY <1>0, <2>1, <2>5, OneThread
<1>12. ASSUME NEW u \in Users, DialFails(u) PROVE ThreadsSound'
  <2> DEFINE s == [user[u] EXCEPT !.tries = @ + 1]
  <2>1. Goes(u, Ending(user[u], "raised")) \/ Goes(u, s)
    BY <1>12 DEF DialFails
  <2>2. /\ s.pc = user[u].pc /\ s.snap = user[u].snap /\ s.old = user[u].old /\ s.op = user[u].op
        /\ s.accepted = user[u].accepted /\ s.attempt = user[u].attempt /\ s.result = user[u].result
    BY <1>0 DEF UserState
  <2> HIDE DEF s
  <2>3. Sound(s, links', live')
    BY <1>a, <2>2 DEF Sound, Counted
  <2>4. Sound(Ending(user[u], "raised"), links', live')
    BY <1>0, EndingSound
  <2> QED
    BY <1>0, <2>1, <2>3, <2>4, OneThread
<1>13. ASSUME NEW u \in Users, Settle(u) PROVE ThreadsSound'
  <2>1. Goes(u, Resumed(u)) /\ user[u].pc = "settle"
    BY <1>13 DEF Settle
  <2>2. Sound(Resumed(u), links', live')
    BY <1>0, <2>1, ResumedSound
  <2> QED
    BY <1>0, <2>1, <2>2, OneThread
<1>14. CASE CloseAll \/ Break \/ GoDown \/ ComeBack \/ UNCHANGED vars
  BY <1>0, <1>14, NoThread DEF CloseAll, Break, GoDown, ComeBack, vars
<1> QED
  BY <1>1, <1>2, <1>3, <1>4, <1>5, <1>6, <1>7, <1>8, <1>9, <1>10, <1>11, <1>12, <1>13, <1>14
     DEF Next, UserStep

\* No step lets a provider or the cache hold a handle of no connection.
LEMMA HandlesStep ==
  ASSUME IInv, [Next]_vars
  PROVE  HandlesKnown'
<1>0. /\ ConnectionsTypeOK /\ ThreadsSound /\ HandlesKnown
      /\ links \in Nat /\ live \in Nat /\ links' \in Nat /\ links' >= links
      /\ live' \in {live, 0, links + 1}
  BY LinksStep DEF IInv, ConnectionsTypeOK, LinksMove
<1>1. /\ \A p \in Providers : Known(prov[p].qm, links')
      /\ Known(cache, links')
      /\ \A u \in Users : Known(user[u].old, links')
      /\ Known(NoHandle, links')
  BY <1>0, HandleStays DEF HandlesKnown, ThreadsSound, Sound, Known
<1>2. SUFFICES (\A p \in Providers : Known(prov'[p].qm, links')) /\ Known(cache', links')
  BY DEF HandlesKnown
<1>3. CASE UNCHANGED provVars
  BY <1>1, <1>3 DEF provVars
<1>4. ASSUME NEW u \in Users, Invalidate(u)
      PROVE  (\A p \in Providers : Known(prov'[p].qm, links')) /\ Known(cache', links')
  <2>1. cache' = cache
    BY <1>4 DEF Invalidate
  <2>2. \A p \in Providers : prov'[p].qm \in {prov[p].qm, NoHandle}
    BY <1>0, <1>4 DEF Invalidate, ConnectionsTypeOK
  <2> QED
    BY <1>1, <2>1, <2>2
<1>5. ASSUME NEW u \in Users, Evict(u)
      PROVE  (\A p \in Providers : Known(prov'[p].qm, links')) /\ Known(cache', links')
  BY <1>1, <1>5 DEF Evict, Kept
<1>6. ASSUME NEW u \in Users, Publish(u)
      PROVE  (\A p \in Providers : Known(prov'[p].qm, links')) /\ Known(cache', links')
  <2>1. cache' = cache
    BY <1>6 DEF Publish
  <2>2. \A p \in Providers : prov'[p].qm \in {prov[p].qm, user[u].old}
    BY <1>0, <1>6 DEF Publish, ConnectionsTypeOK
  <2> QED
    BY <1>1, <2>1, <2>2
<1>7. ASSUME NEW u \in Users, Settle(u)
      PROVE  (\A p \in Providers : Known(prov'[p].qm, links')) /\ Known(cache', links')
  <2>1. /\ cache' \in {cache, prov[ProviderOf[u]].qm}
        /\ ProviderOf[u] \in Providers
    BY <1>7, ConnectionsAssumption DEF Settle, Mine
  <2>2. \A p \in Providers : prov'[p].qm = prov[p].qm
    BY <1>0, <1>7 DEF Settle, ConnectionsTypeOK
  <2> QED
    BY <1>1, <2>1, <2>2
<1>8. CASE CloseAll
  <2>1. cache' = cache
    BY <1>8 DEF CloseAll
  <2>2. \A p \in Providers : prov'[p].qm \in {prov[p].qm, NoHandle}
    BY <1>0, <1>8 DEF CloseAll, ConnectionsTypeOK
  <2> QED
    BY <1>1, <2>1, <2>2
<1> QED
  BY <1>3, <1>4, <1>5, <1>6, <1>7, <1>8
     DEF Next, UserStep, vars, Ask, Snap, Works, Errs, FindsBroken, BreaksUnder, DropHandle,
         Connect, Dial, DialFails, Break, GoDown, ComeBack

LEMMA Inductive == Spec => []IInv
<1>1. ASSUME IInv, [Next]_vars PROVE IInv'
  BY <1>1, TypeStep, ThreadsStep, HandlesStep DEF IInv
<1> QED
  BY <1>1, SoundInit, PTL DEF Spec

\* A put that returns has put its message once, or twice if its first attempt
\* lost the connection: nobody is told of a put that did not happen.
THEOREM PutsAreTrueAlways == Spec => []PutsAreTrue
<1>1. IInv => PutsAreTrue
  BY DEF IInv, ThreadsSound, Sound, Counted, PutsAreTrue
<1> QED
  BY <1>1, Inductive, PTL

\* No thread tears down a connection that works, whatever error it still sees
\* and however late it acts on it.
THEOREM LiveLinksAreKept == Spec => LiveLinksStay
<1>1. ASSUME IInv, [Next]_vars
      PROVE  [live # 0 /\ live' # live => breaks' # breaks \/ outages' # outages \/ closed' # closed]_vars
  BY <1>1, LinksStep DEF IInv, LinksMove
<1> QED
  BY <1>1, Inductive, PTL DEF Spec, LiveLinksStay
=============================================================================
