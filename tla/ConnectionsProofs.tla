-------------------------- MODULE ConnectionsProofs --------------------------
(***************************************************************************)
(* Theorems about DBConnectionPool, for any finite set of threads, any     *)
(* connections, sizes and factory; about JMSPool, for any borrowers, sizes *)
(* and factory; and about HttpExecutor, for any threads, profiles,         *)
(* requests and configuration files.                                       *)
(***************************************************************************)
EXTENDS DBConnectionPool, JMSPool, HttpExecutor, FiniteSetTheorems, SequenceTheorems, TLAPS
-----------------------------------------------------------------------------
\* DBConnectionPool.

\* The connection a thread has and the lock follow from where the thread is.
Linked == \A t \in Threads :
    /\ held[t] = None <=> pc[t] \notin {"reconnect", "using"}
    /\ lock = t <=> pc[t] \in {"borrow", "reconnect"}
WellFormed == PoolTypeOK /\ Linked

(***************************************************************************)
(* Types.                                                                  *)
(***************************************************************************)

\* Taking the last connection off a list, and what is left.
LEMMA LastOfList ==
  ASSUME NEW S, NEW s \in Seq(S), s # <<>>
  PROVE  /\ Len(s) \in Nat \ {0}
         /\ s[Len(s)] \in S
         /\ SubSeq(s, 1, Len(s) - 1) \in Seq(S)
         /\ Len(SubSeq(s, 1, Len(s) - 1)) = Len(s) - 1
         /\ \A i \in 1..(Len(s) - 1) : SubSeq(s, 1, Len(s) - 1)[i] = s[i]
<1>1. Len(s) \in Nat \ {0}
  BY EmptySeq
<1>2. \A i \in 1..Len(s) : s[i] \in S
  BY ElementOfSeq
<1>3. /\ SubSeq(s, 1, Len(s) - 1) \in Seq(S)
      /\ Len(SubSeq(s, 1, Len(s) - 1)) = IF 1 <= Len(s) - 1 THEN Len(s) - 1 - 1 + 1 ELSE 0
      /\ \A i \in 1..(Len(s) - 1 - 1 + 1) : SubSeq(s, 1, Len(s) - 1)[i] = s[1 + i - 1]
  <2>1. 1 \in Int /\ Len(s) - 1 \in Int /\ \A i \in 1..(Len(s) - 1) : s[i] \in S
    BY <1>1, <1>2
  <2> QED
    BY <2>1, SubSeqProperties
<1>4. Len(SubSeq(s, 1, Len(s) - 1)) = Len(s) - 1
  <2> DEFINE n == Len(s)
             r == Len(SubSeq(s, 1, n - 1))
  <2>1. n \in Nat \ {0} /\ r = IF 1 <= n - 1 THEN n - 1 - 1 + 1 ELSE 0
    BY <1>1, <1>3
  <2> HIDE DEF n, r
  <2>2. r = n - 1
    BY <2>1
  <2> QED
    BY <2>2 DEF n, r
<1>5. \A i \in 1..(Len(s) - 1) : SubSeq(s, 1, Len(s) - 1)[i] = s[i]
  BY <1>1, <1>3
<1>6. s[Len(s)] \in S
  BY <1>1, <1>2
<1> QED
  BY <1>1, <1>3, <1>4, <1>5, <1>6

\* What Borrow does with the last connection of the list.
LEMMA BorrowsLast ==
  ASSUME PoolTypeOK, NEW t \in Threads, Borrow(t)
  PROVE  \E c \in Connections :
            /\ c \in Idle /\ c = idle[Len(idle)]
            /\ \/ c \in up /\ Lend(t, c)
               \/ /\ held' = [held EXCEPT ![t] = c] /\ pc' = [pc EXCEPT ![t] = "reconnect"]
                  /\ UNCHANGED <<lock, lent>>
            /\ idle' \in Seq(Connections) /\ Len(idle') = Len(idle) - 1 /\ Len(idle) \in Nat
            /\ \A i \in DOMAIN idle' : i \in DOMAIN idle \ {Len(idle)} /\ idle'[i] = idle[i]
<1> DEFINE c == idle[Len(idle)]
<1>1. /\ Len(idle) \in Nat \ {0} /\ c \in Connections
      /\ idle' \in Seq(Connections) /\ Len(idle') = Len(idle) - 1
      /\ \A i \in 1..(Len(idle) - 1) : idle'[i] = idle[i]
  BY LastOfList DEF Borrow, PoolTypeOK
<1>2. DOMAIN idle = 1..Len(idle) /\ DOMAIN idle' = 1..(Len(idle) - 1)
  BY <1>1, LenProperties DEF PoolTypeOK
<1>3. c \in Idle
  BY <1>1, <1>2 DEF Idle
<1>4. \/ c \in up /\ Lend(t, c)
      \/ /\ held' = [held EXCEPT ![t] = c] /\ pc' = [pc EXCEPT ![t] = "reconnect"]
         /\ UNCHANGED <<lock, lent>>
  BY DEF Borrow, Goto
<1>5. \A i \in DOMAIN idle' : i \in DOMAIN idle \ {Len(idle)} /\ idle'[i] = idle[i]
  BY <1>1, <1>2
<1> HIDE DEF c
<1>6. c = idle[Len(idle)]
  BY DEF c
<1> QED
  BY <1>1, <1>3, <1>4, <1>5, <1>6

LEMMA WellFormedInit == Init => WellFormed
<1> SUFFICES ASSUME Init PROVE WellFormed
  OBVIOUS
<1>1. PICK n \in 0..MinSize : idle \in [1..n -> Connections]
  BY DEF Init
<1>2. idle \in Seq(Connections)
  <2>1. n \in Nat
    BY PoolAssumption
  <2> QED
    BY <1>1, <2>1, SeqDef
<1> QED
  BY <1>2, PoolAssumption DEF Init, WellFormed, PoolTypeOK, Linked, Idle

LEMMA WellFormedStep == WellFormed /\ [Next]_vars => WellFormed'
<1> SUFFICES ASSUME WellFormed, [Next]_vars PROVE WellFormed'
  OBVIOUS
<1> USE PoolAssumption DEF WellFormed, PoolTypeOK, Linked, Goto
<1>1. ASSUME NEW t \in Threads, Ask(t) PROVE WellFormed'
  BY <1>1 DEF Ask
<1>2. ASSUME NEW t \in Threads, TakePermit(t) PROVE WellFormed'
  BY <1>2 DEF TakePermit
<1>3. ASSUME NEW t \in Threads, TimeOut(t) PROVE WellFormed'
  BY <1>3 DEF TimeOut
<1>4. ASSUME NEW t \in Threads, Enter(t) PROVE WellFormed'
  BY <1>4 DEF Enter
<1>5. ASSUME NEW t \in Threads, Borrow(t) PROVE WellFormed'
  <2>1. PICK c \in Connections :
          /\ \/ c \in up /\ Lend(t, c)
             \/ /\ held' = [held EXCEPT ![t] = c] /\ pc' = [pc EXCEPT ![t] = "reconnect"]
                /\ UNCHANGED <<lock, lent>>
          /\ idle' \in Seq(Connections)
    BY <1>5, BorrowsLast
  <2>2. CASE c \in up /\ Lend(t, c)
    BY <1>5, <2>1, <2>2 DEF Borrow, Lend
  <2>3. CASE /\ held' = [held EXCEPT ![t] = c] /\ pc' = [pc EXCEPT ![t] = "reconnect"]
             /\ UNCHANGED <<lock, lent>>
    BY <1>5, <2>1, <2>3 DEF Borrow
  <2> QED
    BY <2>1, <2>2, <2>3
<1>6. ASSUME NEW t \in Threads, Reconnect(t) PROVE WellFormed'
  BY <1>6 DEF Reconnect, Lend
<1>7. ASSUME NEW t \in Threads, Discard(t) PROVE WellFormed'
  BY <1>7 DEF Discard
<1>8. ASSUME NEW t \in Threads, Create(t) PROVE WellFormed'
  BY <1>8 DEF Create, Lend
<1>9. ASSUME NEW t \in Threads, CreateFails(t) PROVE WellFormed'
  BY <1>9 DEF CreateFails
<1>10. ASSUME NEW t \in Threads, Use(t) PROVE WellFormed'
  BY <1>10 DEF Use
<1>11. ASSUME NEW t \in Threads, Return(t) PROVE WellFormed'
  <2>1. held[t] \in Connections
    BY <1>11 DEF Return
  <2>2. idle' \in Seq(Connections)
    BY <1>11, <2>1, AppendProperties DEF Return
  <2> QED
    BY <1>11, <2>1, <2>2 DEF Return
<1>12. ASSUME NEW t \in Threads, ReturnPermit(t) PROVE WellFormed'
  BY <1>12 DEF ReturnPermit
<1>13. ASSUME NEW t \in Threads, Abandon(t) PROVE WellFormed'
  BY <1>13 DEF Abandon
<1>14. ASSUME NEW c \in Connections, Break(c) PROVE WellFormed'
  BY <1>14 DEF Break
<1>15. ASSUME Close PROVE WellFormed'
  <2>1. Idle \subseteq Connections
    BY LenProperties, ElementOfSeq DEF Idle
  <2> QED
    BY <1>15, <2>1, EmptySeq DEF Close
<1>16. ASSUME Forget PROVE WellFormed'
  BY <1>16 DEF Forget
<1>17. ASSUME NEW c \in Connections, Disconnect(c) PROVE WellFormed'
  BY <1>17 DEF Disconnect
<1>18. ASSUME UNCHANGED vars PROVE WellFormed'
  BY <1>18 DEF vars
<1> QED
  BY <1>1, <1>2, <1>3, <1>4, <1>5, <1>6, <1>7, <1>8, <1>9, <1>10, <1>11, <1>12,
     <1>13, <1>14, <1>15, <1>16, <1>17, <1>18
     DEF Next, Acquire, Release, Shutdown

LEMMA AlwaysWellFormed == Spec => []WellFormed
  BY WellFormedInit, WellFormedStep, PTL DEF Spec

\* The types of the pool's state: in particular no count of a borrowed
\* connection ever goes below zero, whenever the pool is closed.
THEOREM TypeCorrect == Spec => []PoolTypeOK
  BY AlwaysWellFormed, PTL DEF WellFormed
(***************************************************************************)
(* Permits.  PermitsConserved says nothing once the pool is forgotten, and *)
(* threads may then still be on their way through acquire; the bound holds *)
(* for ever.                                                               *)
(***************************************************************************)

Inside == {"enter", "borrow", "reconnect", "using", "permit"}
PermitBound == permits + Cardinality(Borrowing) <= MaxSize

\* One element of a finite set may come or go.
LEMMA OneMoves ==
  ASSUME NEW S, IsFiniteSet(S), NEW T, NEW x, S \ {x} = T \ {x}
  PROVE  /\ Cardinality(S) \in Nat /\ Cardinality(T) \in Nat
         /\ (x \in S <=> x \in T) => Cardinality(T) = Cardinality(S)
         /\ x \notin S /\ x \in T => Cardinality(T) = Cardinality(S) + 1
         /\ x \in S /\ x \notin T => Cardinality(T) = Cardinality(S) - 1
<1>1. Cardinality(S) \in Nat
  BY FS_CardinalityType
<1>2. CASE x \in S /\ x \notin T
  <2>1. T = S \ {x}
    BY <1>2
  <2> QED
    BY <1>1, <1>2, <2>1, FS_RemoveElement, FS_CardinalityType
<1>3. CASE x \notin S /\ x \in T
  <2>1. T = S \cup {x}
    BY <1>3
  <2> QED
    BY <1>1, <1>3, <2>1, FS_AddElement, FS_CardinalityType
<1>4. CASE x \in S <=> x \in T
  <2>1. T = S
    BY <1>4
  <2> QED
    BY <1>1, <1>4, <2>1
<1> QED
  BY <1>2, <1>3, <1>4

LEMMA ThreadsFinite ==
  ASSUME NEW S \in SUBSET Threads
  PROVE  IsFiniteSet(S) /\ Cardinality(S) \in Nat
  BY PoolAssumption, FS_Subset, FS_CardinalityType

\* A thread that goes on counts as borrowing before, after, both or neither.
LEMMA BorrowingMoves ==
  ASSUME WellFormed, NEW t \in Threads, NEW there, pc' = [pc EXCEPT ![t] = there]
  PROVE  /\ Cardinality(Borrowing) \in Nat /\ Cardinality(Borrowing') \in Nat
         /\ (pc[t] \in Inside <=> there \in Inside)
               => Cardinality(Borrowing') = Cardinality(Borrowing)
         /\ pc[t] \notin Inside /\ there \in Inside
               => Cardinality(Borrowing') = Cardinality(Borrowing) + 1
         /\ pc[t] \in Inside /\ there \notin Inside
               => Cardinality(Borrowing') = Cardinality(Borrowing) - 1
<1>1. Borrowing \ {t} = Borrowing' \ {t}
  BY DEF Borrowing, WellFormed, PoolTypeOK
<1>2. t \in Borrowing <=> pc[t] \in Inside
  BY DEF Borrowing, Inside
<1>3. t \in Borrowing' <=> there \in Inside
  BY DEF Borrowing, Inside, WellFormed, PoolTypeOK
<1>4. IsFiniteSet(Borrowing)
  BY ThreadsFinite DEF Borrowing
<1> QED
  BY <1>1, <1>2, <1>3, <1>4, OneMoves

LEMMA PermitsInit == Init => PermitBound /\ PermitsConserved
<1> SUFFICES ASSUME Init PROVE PermitBound /\ PermitsConserved
  OBVIOUS
<1>1. Borrowing = {}
  BY DEF Init, Borrowing
<1> QED
  BY <1>1, FS_EmptySet, PoolAssumption DEF Init, PermitBound, PermitsConserved

LEMMA PermitsStep ==
  WellFormed /\ PermitBound /\ PermitsConserved /\ [Next]_vars
    => PermitBound' /\ PermitsConserved'
<1> SUFFICES ASSUME WellFormed, PermitBound, PermitsConserved, [Next]_vars
             PROVE  PermitBound' /\ PermitsConserved'
  OBVIOUS
<1>0. PICK n \in Nat : n = Cardinality(Borrowing)
  BY ThreadsFinite DEF Borrowing
<1>a. ASSUME UNCHANGED <<permits, pc>>, closer' # "done" => closer # "done"
      PROVE  PermitBound' /\ PermitsConserved'
  BY <1>a DEF PermitBound, PermitsConserved, Borrowing
<1>b. ASSUME NEW t \in Threads, NEW there, pc' = [pc EXCEPT ![t] = there],
             closer' = closer, permits' \in Nat,
             \/ permits' = permits /\ (pc[t] \in Inside <=> there \in Inside)
             \/ permits' = permits - 1 /\ pc[t] \notin Inside /\ there \in Inside
             \/ permits' = permits + 1 /\ pc[t] \in Inside /\ there \notin Inside
             \/ permits' = permits /\ closer = "done" /\ pc[t] \in Inside /\ there \notin Inside
      PROVE  PermitBound' /\ PermitsConserved'
  <2>1. PICK m \in Nat : m = Cardinality(Borrowing')
    BY <1>b, BorrowingMoves
  <2>2. \/ permits' = permits /\ m = n
        \/ permits' = permits - 1 /\ m = n + 1
        \/ permits' = permits + 1 /\ m = n - 1
        \/ permits' = permits /\ closer = "done" /\ m = n - 1
    BY <1>0, <1>b, <2>1, BorrowingMoves
  <2>3. permits + n <= MaxSize /\ (closer # "done" => permits + n = MaxSize)
    BY <1>0 DEF PermitBound, PermitsConserved
  <2>4. PICK p \in Nat, q \in Nat : p = permits /\ q = permits'
    BY <1>b DEF WellFormed, PoolTypeOK
  <2>5. \/ q = p /\ m = n
        \/ q = p - 1 /\ m = n + 1
        \/ q = p + 1 /\ m = n - 1
        \/ q = p /\ closer = "done" /\ m = n - 1
    BY <2>2, <2>4
  <2>6. p + n <= MaxSize /\ (closer # "done" => p + n = MaxSize)
    BY <2>3, <2>4
  <2>7. q + m <= MaxSize /\ (closer # "done" => q + m = MaxSize)
    BY <2>5, <2>6, PoolAssumption
  <2> QED
    BY <1>b, <2>1, <2>4, <2>7 DEF PermitBound, PermitsConserved
<1> USE DEF WellFormed, PoolTypeOK, Linked, Goto, Inside
<1>1. ASSUME NEW t \in Threads, Ask(t) PROVE PermitBound' /\ PermitsConserved'
  BY <1>1, <1>b DEF Ask
<1>2. ASSUME NEW t \in Threads, TakePermit(t) PROVE PermitBound' /\ PermitsConserved'
  <2>1. /\ permits' = permits - 1 /\ permits' \in Nat /\ closer' = closer
        /\ pc' = [pc EXCEPT ![t] = "enter"]
        /\ pc[t] \notin Inside /\ "enter" \in Inside
    BY <1>2 DEF TakePermit
  <2> QED
    BY <2>1, <1>b
<1>3. ASSUME NEW t \in Threads, TimeOut(t) PROVE PermitBound' /\ PermitsConserved'
  BY <1>3, <1>b DEF TimeOut
<1>4. ASSUME NEW t \in Threads, Enter(t) PROVE PermitBound' /\ PermitsConserved'
  BY <1>4, <1>b DEF Enter
<1>5. ASSUME NEW t \in Threads, Borrow(t) PROVE PermitBound' /\ PermitsConserved'
  <2>1. \E there \in {"using", "reconnect"} : pc' = [pc EXCEPT ![t] = there]
    BY <1>5 DEF Borrow, Lend
  <2> QED
    BY <1>5, <2>1, <1>b DEF Borrow
<1>6. ASSUME NEW t \in Threads, Reconnect(t) PROVE PermitBound' /\ PermitsConserved'
  BY <1>6, <1>b DEF Reconnect, Lend
<1>7. ASSUME NEW t \in Threads, Discard(t) PROVE PermitBound' /\ PermitsConserved'
  BY <1>7, <1>b DEF Discard
<1>8. ASSUME NEW t \in Threads, Create(t) PROVE PermitBound' /\ PermitsConserved'
  BY <1>8, <1>b DEF Create, Lend
<1>9. ASSUME NEW t \in Threads, CreateFails(t) PROVE PermitBound' /\ PermitsConserved'
  <2>1. /\ permits' = permits + 1 /\ permits' \in Nat /\ closer' = closer
        /\ pc' = [pc EXCEPT ![t] = "out"]
        /\ pc[t] \in Inside /\ "out" \notin Inside
    BY <1>9 DEF CreateFails
  <2> QED
    BY <2>1, <1>b
<1>10. ASSUME NEW t \in Threads, Use(t) PROVE PermitBound' /\ PermitsConserved'
  BY <1>10, <1>a DEF Use
<1>11. ASSUME NEW t \in Threads, Return(t) PROVE PermitBound' /\ PermitsConserved'
  BY <1>11, <1>b DEF Return
<1>12. ASSUME NEW t \in Threads, ReturnPermit(t) PROVE PermitBound' /\ PermitsConserved'
  <2>1. /\ permits' = permits + 1 /\ permits' \in Nat /\ closer' = closer
        /\ pc' = [pc EXCEPT ![t] = "out"]
        /\ pc[t] \in Inside /\ "out" \notin Inside
    BY <1>12 DEF ReturnPermit
  <2> QED
    BY <2>1, <1>b
<1>13. ASSUME NEW t \in Threads, Abandon(t) PROVE PermitBound' /\ PermitsConserved'
  BY <1>13, <1>b DEF Abandon
<1>14. ASSUME NEW c \in Connections, Break(c) PROVE PermitBound' /\ PermitsConserved'
  BY <1>14, <1>a DEF Break
<1>15. ASSUME Close PROVE PermitBound' /\ PermitsConserved'
  BY <1>15, <1>a DEF Close
<1>16. ASSUME Forget PROVE PermitBound' /\ PermitsConserved'
  BY <1>16, <1>a DEF Forget
<1>17. ASSUME NEW c \in Connections, Disconnect(c) PROVE PermitBound' /\ PermitsConserved'
  BY <1>17, <1>a DEF Disconnect
<1>18. ASSUME UNCHANGED vars PROVE PermitBound' /\ PermitsConserved'
  BY <1>18, <1>a DEF vars
<1> QED
  BY <1>1, <1>2, <1>3, <1>4, <1>5, <1>6, <1>7, <1>8, <1>9, <1>10, <1>11, <1>12,
     <1>13, <1>14, <1>15, <1>16, <1>17, <1>18
     DEF Next, Acquire, Release, Shutdown

LEMMA AlwaysBounded == Spec => [](WellFormed /\ PermitBound /\ PermitsConserved)
  BY WellFormedInit, WellFormedStep, PermitsInit, PermitsStep, PTL DEF Spec

\* Every path through acquire and release takes and gives back one permit:
\* whatever fails, the pool is neither drained nor oversold.
THEOREM PermitsAreConserved == Spec => []PermitsConserved
  BY AlwaysBounded, PTL
(***************************************************************************)
(* Size.  A connection is created only when none is idle, by a thread that *)
(* has a permit: then every connection there is belongs to such a thread.  *)
(***************************************************************************)

Holders == {t \in Threads : held[t] # None}
Bound == IF MinSize > MaxSize THEN MinSize ELSE MaxSize

LEMMA SizeInit == Init => SizeBounded
<1> SUFFICES ASSUME Init PROVE SizeBounded
  OBVIOUS
<1>1. PICK n \in 0..MinSize : idle \in [1..n -> Connections]
  BY DEF Init
<1>2. n \in Nat /\ n <= MinSize
  BY PoolAssumption
<1>3. idle \in Seq(Connections) /\ DOMAIN idle = 1..n
  BY <1>1, <1>2, SeqDef
<1>4. Len(idle) = n
  BY <1>2, <1>3, LenProperties
<1>5. Holders = {}
  BY DEF Init, Holders
<1>6. Cardinality(Holders) = 0
  BY <1>5, FS_EmptySet
<1>7. n <= Bound
  BY <1>2, PoolAssumption DEF Bound
<1> QED
  BY <1>2, <1>4, <1>6, <1>7 DEF SizeBounded, Holders, Bound

LEMMA HoldersMove ==
  ASSUME WellFormed, NEW t \in Threads, NEW c \in Connections \cup {None},
         held' = [held EXCEPT ![t] = c]
  PROVE  /\ Cardinality(Holders) \in Nat /\ Cardinality(Holders') \in Nat
         /\ (held[t] = None <=> c = None) => Cardinality(Holders') = Cardinality(Holders)
         /\ held[t] = None /\ c # None => Cardinality(Holders') = Cardinality(Holders) + 1
         /\ held[t] # None /\ c = None => Cardinality(Holders') = Cardinality(Holders) - 1
<1>1. Holders \ {t} = Holders' \ {t}
  BY DEF Holders, WellFormed, PoolTypeOK
<1>2. t \in Holders <=> held[t] # None
  BY DEF Holders
<1>3. t \in Holders' <=> c # None
  BY DEF Holders, WellFormed, PoolTypeOK
<1>4. IsFiniteSet(Holders)
  BY ThreadsFinite DEF Holders
<1> QED
  BY <1>1, <1>2, <1>3, <1>4, OneMoves

\* The threads that hold connections, and one more that has a permit but no
\* connection yet, are not more than MaxSize.
LEMMA RoomForOneMore ==
  ASSUME WellFormed, PermitBound, NEW t \in Threads, pc[t] \in Inside, held[t] = None
  PROVE  Cardinality(Holders) + 1 <= MaxSize
<1>1. Holders \cup {t} \subseteq Borrowing /\ t \notin Holders
  BY DEF Holders, Borrowing, Inside, WellFormed, Linked, PoolTypeOK
<1>2. IsFiniteSet(Holders) /\ IsFiniteSet(Borrowing)
  BY ThreadsFinite DEF Holders, Borrowing
<1>3. Cardinality(Holders \cup {t}) = Cardinality(Holders) + 1
  BY <1>1, <1>2, FS_AddElement
<1>4. Cardinality(Holders \cup {t}) <= Cardinality(Borrowing)
  BY <1>1, <1>2, FS_Subset
<1>5. PICK h \in Nat, b \in Nat, p \in Nat :
         h = Cardinality(Holders) /\ b = Cardinality(Borrowing) /\ p = permits
  BY <1>2, FS_CardinalityType DEF WellFormed, PoolTypeOK
<1>6. h + 1 <= b /\ p + b <= MaxSize
  BY <1>3, <1>4, <1>5 DEF PermitBound
<1>7. h + 1 <= MaxSize
  BY <1>6, PoolAssumption
<1> QED
  BY <1>5, <1>7

LEMMA SizeStep ==
  WellFormed /\ PermitBound /\ SizeBounded /\ [Next]_vars => SizeBounded'
<1> SUFFICES ASSUME WellFormed, PermitBound, SizeBounded, [Next]_vars PROVE SizeBounded'
  OBVIOUS
<1>0. PICK l \in Nat, h \in Nat : l = Len(idle) /\ h = Cardinality(Holders)
  BY ThreadsFinite, LenProperties DEF Holders, WellFormed, PoolTypeOK
<1>1. l + h <= Bound /\ MaxSize <= Bound /\ Bound \in Nat
  BY <1>0, PoolAssumption DEF SizeBounded, Holders, Bound
<1>a. ASSUME UNCHANGED <<idle, held>> PROVE SizeBounded'
  BY <1>a DEF SizeBounded
<1>b. ASSUME NEW m \in Nat, NEW g \in Nat, Len(idle') = m, Cardinality(Holders') = g,
             m + g <= Bound
      PROVE  SizeBounded'
  BY <1>b DEF SizeBounded, Holders, Bound
<1>c. ASSUME NEW t \in Threads, NEW c \in Connections, pc[t] = "borrow", idle = <<>>,
             UNCHANGED idle, held' = [held EXCEPT ![t] = c]
      PROVE  SizeBounded'
  <2>1. held[t] = None /\ c # None
    BY <1>c, PoolAssumption DEF WellFormed, PoolTypeOK, Linked
  <2>2. Cardinality(Holders') = h + 1
    BY <1>0, <1>c, <2>1, HoldersMove
  <2>3. h + 1 <= MaxSize
    BY <1>0, <1>c, <2>1, RoomForOneMore DEF Inside
  <2>4. Len(idle') = 0
    BY <1>c
  <2>5. 0 + (h + 1) <= Bound
    BY <1>1, <2>3, PoolAssumption
  <2> QED
    BY <2>2, <2>4, <2>5, <1>b
<1>d. ASSUME NEW t \in Threads, UNCHANGED idle, held' = [held EXCEPT ![t] = None]
      PROVE  SizeBounded'
  <2>1. PICK g \in Nat : g = Cardinality(Holders') /\ (g = h \/ g = h - 1)
    BY <1>0, <1>d, HoldersMove
  <2>2. l + g <= Bound
    BY <1>1, <2>1
  <2> QED
    BY <1>0, <1>b, <1>d, <2>1, <2>2
<1> USE DEF Goto
<1>2. ASSUME NEW t \in Threads, Ask(t) PROVE SizeBounded'
  BY <1>2, <1>a DEF Ask
<1>3. ASSUME NEW t \in Threads, TakePermit(t) PROVE SizeBounded'
  BY <1>3, <1>a DEF TakePermit
<1>4. ASSUME NEW t \in Threads, TimeOut(t) PROVE SizeBounded'
  BY <1>4, <1>a DEF TimeOut
<1>5. ASSUME NEW t \in Threads, Enter(t) PROVE SizeBounded'
  BY <1>5, <1>a DEF Enter
<1>6. ASSUME NEW t \in Threads, Borrow(t) PROVE SizeBounded'
  <2>1. PICK c \in Connections : /\ held' = [held EXCEPT ![t] = c]
                                 /\ Len(idle') = Len(idle) - 1
                                 /\ idle' \in Seq(Connections)
    BY <1>6, BorrowsLast DEF WellFormed, Lend
  <2>2. PICK g \in Nat : g = Cardinality(Holders') /\ (g = h \/ g = h + 1)
    BY <1>0, <2>1, HoldersMove, PoolAssumption
  <2>3. PICK m \in Nat : m = Len(idle') /\ m = l - 1
    BY <1>0, <2>1, LenProperties
  <2>4. m + g <= Bound
    BY <1>1, <2>2, <2>3
  <2> QED
    BY <1>b, <2>2, <2>3, <2>4
<1>7. ASSUME NEW t \in Threads, Reconnect(t) PROVE SizeBounded'
  <2>1. held' = held
    BY <1>7 DEF Reconnect, Lend, WellFormed, PoolTypeOK
  <2> QED
    BY <1>7, <2>1, <1>a DEF Reconnect
<1>8. ASSUME NEW t \in Threads, Discard(t) PROVE SizeBounded'
  BY <1>8, <1>d DEF Discard
<1>9. ASSUME NEW t \in Threads, Create(t) PROVE SizeBounded'
  BY <1>9, <1>c DEF Create, Lend
<1>10. ASSUME NEW t \in Threads, CreateFails(t) PROVE SizeBounded'
  BY <1>10, <1>a DEF CreateFails
<1>11. ASSUME NEW t \in Threads, Use(t) PROVE SizeBounded'
  BY <1>11, <1>a DEF Use
<1>12. ASSUME NEW t \in Threads, Return(t) PROVE SizeBounded'
  <2>1. held[t] \in Connections /\ held[t] # None
    BY <1>12, PoolAssumption DEF Return, WellFormed, PoolTypeOK, Linked
  <2>2. PICK g \in Nat : g = Cardinality(Holders') /\ g = h - 1
    BY <1>0, <1>12, <2>1, HoldersMove DEF Return
  <2>3. PICK m \in Nat : m = Len(idle') /\ m = l + 1
    BY <1>0, <1>12, <2>1, AppendProperties DEF Return, WellFormed, PoolTypeOK
  <2>4. m + g <= Bound
    BY <1>1, <2>2, <2>3
  <2> QED
    BY <1>b, <2>2, <2>3, <2>4
<1>13. ASSUME NEW t \in Threads, ReturnPermit(t) PROVE SizeBounded'
  BY <1>13, <1>a DEF ReturnPermit
<1>14. ASSUME NEW t \in Threads, Abandon(t) PROVE SizeBounded'
  BY <1>14, <1>d DEF Abandon
<1>15. ASSUME NEW c \in Connections, Break(c) PROVE SizeBounded'
  BY <1>15, <1>a DEF Break
<1>16. ASSUME Close PROVE SizeBounded'
  <2>1. Len(idle') = 0 /\ Cardinality(Holders') = h
    BY <1>0, <1>16 DEF Close, Holders
  <2>2. 0 + h <= Bound
    BY <1>1
  <2> QED
    BY <1>b, <2>1, <2>2
<1>17. ASSUME Forget PROVE SizeBounded'
  BY <1>17, <1>a DEF Forget
<1>18. ASSUME NEW c \in Connections, Disconnect(c) PROVE SizeBounded'
  BY <1>18, <1>a DEF Disconnect
<1>19. ASSUME UNCHANGED vars PROVE SizeBounded'
  BY <1>19, <1>a DEF vars
<1> QED
  BY <1>2, <1>3, <1>4, <1>5, <1>6, <1>7, <1>8, <1>9, <1>10, <1>11, <1>12, <1>13,
     <1>14, <1>15, <1>16, <1>17, <1>18, <1>19
     DEF Next, Acquire, Release, Shutdown

\* There are never more connections, idle and borrowed, than the larger of
\* the two sizes: not when the pool is closed under its borrowers either.
THEOREM SizeIsBounded == Spec => []SizeBounded
  BY AlwaysBounded, SizeInit, SizeStep, PTL DEF Spec

(***************************************************************************)
(* Statistics.                                                             *)
(***************************************************************************)

LEMMA StatsInit == Init => StatsExact
<1> SUFFICES ASSUME Init, NEW c \in Connections PROVE lent[c] = Cardinality(Holding(c))
  BY DEF StatsExact
<1>1. Holding(c) = {}
  BY DEF Init, Holding
<1> QED
  BY <1>1, FS_EmptySet DEF Init

LEMMA HoldingMoves ==
  ASSUME WellFormed, NEW t \in Threads, NEW c \in Connections,
         NEW there, NEW d \in Connections \cup {None},
         pc' = [pc EXCEPT ![t] = there], held' = [held EXCEPT ![t] = d]
  PROVE  LET before == pc[t] = "using" /\ held[t] = c
             after  == there = "using" /\ d = c
         IN  /\ Cardinality(Holding(c)) \in Nat /\ Cardinality(Holding(c)') \in Nat
             /\ (before <=> after) => Cardinality(Holding(c)') = Cardinality(Holding(c))
             /\ ~before /\ after => Cardinality(Holding(c)') = Cardinality(Holding(c)) + 1
             /\ before /\ ~after => Cardinality(Holding(c)') = Cardinality(Holding(c)) - 1
<1>1. Holding(c) \ {t} = Holding(c)' \ {t}
  BY DEF Holding, WellFormed, PoolTypeOK
<1>2. t \in Holding(c) <=> pc[t] = "using" /\ held[t] = c
  BY DEF Holding
<1>3. t \in Holding(c)' <=> there = "using" /\ d = c
  BY DEF Holding, WellFormed, PoolTypeOK
<1>4. IsFiniteSet(Holding(c))
  BY ThreadsFinite DEF Holding
<1> QED
  BY <1>1, <1>2, <1>3, <1>4, OneMoves
LEMMA StatsStep == WellFormed /\ StatsExact /\ [Next]_vars => StatsExact'
<1> SUFFICES ASSUME WellFormed, StatsExact, [Next]_vars PROVE StatsExact'
  OBVIOUS
<1>e. closer' = "no" => closer = "no"
  <2>1. ASSUME NEW t \in Threads, Acquire(t) PROVE closer' = closer
    BY <2>1 DEF Acquire, TakePermit, TimeOut, Enter, Borrow, Reconnect, Discard,
                Create, CreateFails
  <2>2. ASSUME NEW t \in Threads, Ask(t) \/ Use(t) \/ Release(t) PROVE closer' = closer
    BY <2>2 DEF Ask, Use, Release, Return, ReturnPermit, Abandon
  <2>3. ASSUME NEW c \in Connections, Break(c) \/ Disconnect(c) PROVE closer' = closer
    BY <2>3 DEF Break, Disconnect
  <2>4. ASSUME Close \/ Forget PROVE closer' # "no"
    BY <2>4 DEF Close, Forget
  <2> QED
    BY <2>1, <2>2, <2>3, <2>4 DEF Next, Shutdown, vars
<1> SUFFICES ASSUME closer' = "no", closer = "no"
             PROVE  \A c \in Connections : lent'[c] = Cardinality(Holding(c)')
  BY <1>e DEF StatsExact
<1> DEFINE Exact == \A c \in Connections : lent'[c] = Cardinality(Holding(c)')
<1>0. /\ \A c \in Connections : lent[c] = Cardinality(Holding(c)) /\ lent[c] \in Nat
  BY DEF StatsExact, WellFormed, PoolTypeOK
<1>a. ASSUME UNCHANGED <<pc, held, lent>> PROVE Exact
  BY <1>a, <1>0 DEF Holding
<1>b. ASSUME NEW t \in Threads, NEW there, NEW d \in Connections \cup {None},
             pc[t] # "using", there # "using", UNCHANGED lent,
             pc' = [pc EXCEPT ![t] = there], held' = [held EXCEPT ![t] = d]
      PROVE  Exact
  BY <1>0, <1>b, HoldingMoves
<1>c. ASSUME NEW t \in Threads, NEW d \in Connections, pc[t] # "using", Lend(t, d)
      PROVE  Exact
  <2> SUFFICES ASSUME NEW c \in Connections PROVE lent'[c] = Cardinality(Holding(c)')
    OBVIOUS
  <2>1. lent'[c] = IF c = d THEN lent[c] + 1 ELSE lent[c]
    BY <1>c, <1>0 DEF Lend, WellFormed, PoolTypeOK
  <2>2. CASE c = d
    <3>1. Cardinality(Holding(c)') = Cardinality(Holding(c)) + 1
      BY <1>c, <2>2, HoldingMoves DEF Lend, Goto
    <3> QED
      BY <1>0, <2>1, <2>2, <3>1
  <2>3. CASE c # d
    <3>1. Cardinality(Holding(c)') = Cardinality(Holding(c))
      BY <1>c, <2>3, HoldingMoves DEF Lend, Goto
    <3> QED
      BY <1>0, <2>1, <2>3, <3>1
  <2> QED
    BY <2>2, <2>3
<1>d. \A t \in Threads : held = [held EXCEPT ![t] = held[t]] /\ held[t] \in Connections \cup {None}
  BY DEF WellFormed, PoolTypeOK
<1> HIDE DEF Exact
<1> USE DEF Goto
<1>1. ASSUME NEW t \in Threads, Ask(t) PROVE Exact
  BY <1>1, <1>b, <1>d DEF Ask
<1>2. ASSUME NEW t \in Threads, TakePermit(t) PROVE Exact
  BY <1>2, <1>b, <1>d DEF TakePermit
<1>3. ASSUME NEW t \in Threads, TimeOut(t) PROVE Exact
  BY <1>3, <1>b, <1>d DEF TimeOut
<1>4. ASSUME NEW t \in Threads, Enter(t) PROVE Exact
  BY <1>4, <1>b, <1>d DEF Enter
<1>5. ASSUME NEW t \in Threads, Borrow(t) PROVE Exact
  <2>1. PICK c \in Connections :
          \/ Lend(t, c)
          \/ /\ held' = [held EXCEPT ![t] = c] /\ pc' = [pc EXCEPT ![t] = "reconnect"]
             /\ UNCHANGED lent
    BY <1>5, BorrowsLast DEF WellFormed
  <2>2. pc[t] = "borrow"
    BY <1>5 DEF Borrow
  <2> QED
    BY <2>1, <2>2, <1>b, <1>c
<1>6. ASSUME NEW t \in Threads, Reconnect(t) PROVE Exact
  <2>1. held[t] \in Connections
    BY <1>6 DEF Reconnect, WellFormed, Linked, PoolTypeOK
  <2> QED
    BY <1>6, <2>1, <1>c DEF Reconnect
<1>7. ASSUME NEW t \in Threads, Discard(t) PROVE Exact
  BY <1>7, <1>b DEF Discard
<1>8. ASSUME NEW t \in Threads, Create(t) PROVE Exact
  BY <1>8, <1>c DEF Create
<1>9. ASSUME NEW t \in Threads, CreateFails(t) PROVE Exact
  BY <1>9, <1>b, <1>d DEF CreateFails
<1>10. ASSUME NEW t \in Threads, Use(t) PROVE Exact
  BY <1>10, <1>a DEF Use
<1>11. ASSUME NEW t \in Threads, Return(t) PROVE Exact
  <2> SUFFICES ASSUME NEW c \in Connections PROVE lent'[c] = Cardinality(Holding(c)')
    BY DEF Exact
  <2>1. pc[t] = "using" /\ held[t] \in Connections
    BY <1>11 DEF Return, WellFormed, Linked, PoolTypeOK
  <2>2. CASE c = held[t]
    <3>1. Cardinality(Holding(c)) \in Nat /\ Cardinality(Holding(c)') \in Nat
          /\ Cardinality(Holding(c)') = Cardinality(Holding(c)) - 1
      BY <1>11, <2>1, <2>2, HoldingMoves, PoolAssumption DEF Return
    <3>2. PICK n \in Nat, m \in Nat : /\ n = Cardinality(Holding(c))
                                      /\ m = Cardinality(Holding(c)') /\ m = n - 1
      BY <3>1
    <3>3. lent[c] = n /\ n > 0
      BY <1>0, <3>2
    <3>4. lent'[c] = n - 1
      BY <1>11, <2>1, <2>2, <3>3 DEF Return, WellFormed, PoolTypeOK
    <3> QED
      BY <3>2, <3>4
  <2>3. CASE c # held[t]
    <3>1. Cardinality(Holding(c)') = Cardinality(Holding(c))
      BY <1>11, <2>3, HoldingMoves DEF Return
    <3>2. lent'[c] = lent[c]
      BY <1>11, <2>1, <2>3 DEF Return, WellFormed, PoolTypeOK
    <3> QED
      BY <1>0, <3>1, <3>2
  <2> QED
    BY <2>2, <2>3
<1>12. ASSUME NEW t \in Threads, ReturnPermit(t) PROVE Exact
  BY <1>12, <1>b, <1>d DEF ReturnPermit
<1>13. ASSUME NEW t \in Threads, Abandon(t) PROVE Exact
  BY <1>13 DEF Abandon
<1>14. ASSUME NEW c \in Connections, Break(c) PROVE Exact
  BY <1>14, <1>a DEF Break
<1>15. ASSUME Close PROVE Exact
  BY <1>15 DEF Close
<1>16. ASSUME Forget PROVE Exact
  BY <1>16 DEF Forget
<1>17. ASSUME NEW c \in Connections, Disconnect(c) PROVE Exact
  BY <1>17, <1>a DEF Disconnect
<1>18. ASSUME UNCHANGED vars PROVE Exact
  BY <1>18, <1>a DEF vars
<1>19. Exact
  BY <1>1, <1>2, <1>3, <1>4, <1>5, <1>6, <1>7, <1>8, <1>9, <1>10, <1>11, <1>12,
     <1>13, <1>14, <1>15, <1>16, <1>17, <1>18
     DEF Next, Acquire, Release, Shutdown
<1> QED
  BY <1>19 DEF Exact

\* Until the pool is closed its statistics count the borrowers of every
\* connection exactly, also when several threads share one.
THEOREM StatisticsAreExact == Spec => []StatsExact
  BY AlwaysWellFormed, StatsInit, StatsStep, PTL DEF Spec

-----------------------------------------------------------------------------
\* HttpExecutor and JMSPool.

(***************************************************************************)
(* Tokens.  What is stored in a profile was issued at most FetchTime       *)
(* before the time it is stored with, whoever wrote the one and the other: *)
(* a caller between its two assignments asked at most FetchTime after the  *)
(* stored token was issued, and so did one that found the token fresh.     *)
(***************************************************************************)

\* Where a caller is on its way to a token.
OnTheWay(c) == stage[c] \in {"lookup", "fetching", "storing"}

TokenTyped ==
    /\ clock \in Nat
    /\ token \in [Profiles -> Nat \cup {NoToken}] /\ stamp \in [Profiles -> Nat]
    /\ stage \in [Callers -> {"idle", "lookup", "hit", "fetching", "storing",
                              "stamping", "ready"}]
    /\ DOMAIN job = Callers
    /\ \A c \in Callers : job[c].auth \in Profiles \cup {NoProfile}
    /\ asked \in [Callers -> Nat] /\ got \in [Callers -> Nat \cup {NoToken}]
    /\ header \in [Callers -> {"none", "basic", "bearer", "fetched"}]

\* The callers that have a token to get have a profile to get it for, and no
\* header before they are ready.
HasProfile ==
    \A c \in Callers :
        /\ stage[c] \in {"lookup", "hit", "fetching", "storing", "stamping"}
              => job[c].auth \in Profiles
        /\ stage[c] # "ready" => header[c] = "none"

TokenTimes ==
    /\ \A c \in Callers : asked[c] <= clock /\ (OnTheWay(c) => clock <= asked[c] + FetchTime)
    /\ \A c \in Callers : stage[c] \in {"storing", "stamping"} =>
          got[c] # NoToken /\ asked[c] <= got[c] /\ got[c] <= clock
    /\ \A p \in Profiles : stamp[p] <= clock
    /\ \A p \in Profiles : token[p] # NoToken => stamp[p] <= token[p] + FetchTime

Stamping ==
    \A c \in Callers : stage[c] = "stamping" =>
        /\ token[job[c].auth] # NoToken
        /\ asked[c] <= token[job[c].auth] + FetchTime

Hitting ==
    \A c \in Callers : stage[c] = "hit" =>
        /\ token[job[c].auth] # NoToken /\ Ttl[job[c].auth] > 0
        /\ asked[c] < token[job[c].auth] + Ttl[job[c].auth] + FetchTime

TokenInv == TokenTyped /\ HasProfile /\ TokenTimes /\ Stamping /\ Hitting /\ TokensInTime

\* Every non-empty set of numbers has a least element.
LEMMA Smallest ==
  ASSUME NEW S, S \subseteq Nat, S # {} PROVE \E x \in S : \A y \in S : x <= y
<1>1. \E x \in S : \A y \in S : ~ (<<y, x>> \in OpToRel(<, Nat))
  BY NatLessThanWellFounded, WFMin
<1>2. ASSUME NEW x \in S, NEW y \in S, ~ (<<y, x>> \in OpToRel(<, Nat)) PROVE x <= y
  BY <1>2 DEF OpToRel
<1> QED
  BY <1>1, <1>2

\* First match wins: the profile for a host is that of an override which is
\* loaded and matches, and which no such override precedes in the file.
LEMMA FirstMatchWins ==
  ASSUME NEW file, NEW host, NEW port, NEW otherwise,
         DOMAIN file.overrides \subseteq Nat
  PROVE  LET hits == {i \in Loaded(file) : Matches(file.overrides[i], host, port)}
         IN  \/ hits = {} /\ ProfileFor(file, host, port, otherwise) = otherwise
             \/ \E i \in hits : /\ \A j \in hits : i <= j
                               /\ ProfileFor(file, host, port, otherwise) = file.overrides[i].profile
<1> DEFINE hits == {i \in Loaded(file) : Matches(file.overrides[i], host, port)}
<1>1. CASE hits = {}
  BY <1>1 DEF ProfileFor
<1>2. CASE hits # {}
  <2>1. hits \subseteq Nat
    BY DEF Loaded
  <2>2. \E i \in hits : \A j \in hits : i <= j
    BY <1>2, <2>1, Smallest
  <2> DEFINE first == CHOOSE i \in hits : \A j \in hits : i <= j
  <2>3. first \in hits /\ \A j \in hits : first <= j
    BY <2>2
  <2>4. ProfileFor(file, host, port, otherwise) = file.overrides[first].profile
    BY <1>2 DEF ProfileFor
  <2> QED
    BY <2>3, <2>4
<1> QED
  BY <1>1, <1>2

\* What a request's Authorization comes from is a profile or nothing.
LEMMA ResolvedTypes ==
  ASSUME NEW r PROVE Resolved(r).auth \in Profiles \cup {NoProfile}
<1>1. Resolved(r).auth = Resolve(AuthFile, r.authRef, r.host, r.port, NoProfile)
  BY DEF Resolved
<1>2. DOMAIN AuthFile.overrides \subseteq Nat
  <2>1. DOMAIN AuthFile.overrides = 1..Len(AuthFile.overrides)
    BY HttpAssumption
  <2> QED
    BY <2>1
<1>3. ProfileFor(AuthFile, r.host, r.port, NoProfile) \in Profiles \cup {NoProfile}
  BY <1>2, FirstMatchWins, HttpAssumption DEF Loaded
<1> QED
  BY <1>1, <1>3, HttpAssumption DEF Resolve

LEMMA NoTokenIsNone == NoToken \in Int /\ NoToken \notin Nat
  BY DEF NoToken

LEMMA TokenInit == HttpInit => TokenInv
<1> USE HttpAssumption DEF HttpInit, NoToken, NoJob
<1>1. HttpInit => TokenTyped
  BY DEF TokenTyped
<1>2. HttpInit => HasProfile /\ TokenTimes /\ Stamping /\ Hitting /\ TokensInTime
  BY DEF HasProfile, TokenTimes, Stamping, Hitting, TokensInTime, OnTheWay
<1> QED
  BY <1>1, <1>2 DEF TokenInv

LEMMA TokenTypedStep == TokenTyped /\ HasProfile /\ [HttpNext]_httpVars => TokenTyped' /\ HasProfile'
<1> SUFFICES ASSUME TokenTyped, HasProfile, [HttpNext]_httpVars PROVE TokenTyped' /\ HasProfile'
  OBVIOUS
<1> USE DEF TokenTyped, HasProfile, Advance
<1>1. ASSUME NEW c \in Callers, NEW r \in HttpRequests, Execute(c, r) PROVE TokenTyped' /\ HasProfile'
  <2>1. StaticHeader(Resolved(r).auth) \in {"none", "basic", "bearer"}
    BY DEF StaticHeader
  <2> QED
    BY <1>1, <2>1, ResolvedTypes DEF Execute
<1>2. ASSUME NEW c \in Callers, NEW r \in HttpRequests, ExecuteWithToken(c, r)
      PROVE  TokenTyped' /\ HasProfile'
  BY <1>2, ResolvedTypes DEF ExecuteWithToken, Fetches
<1>3. ASSUME NEW c \in Callers, Lookup(c) PROVE TokenTyped' /\ HasProfile'
  BY <1>3 DEF Lookup
<1>4. ASSUME NEW c \in Callers, TakeCached(c) PROVE TokenTyped' /\ HasProfile'
  BY <1>4 DEF TakeCached
<1>5. ASSUME NEW c \in Callers, Issue(c) PROVE TokenTyped' /\ HasProfile'
  BY <1>5 DEF Issue
<1>6. ASSUME NEW c \in Callers, FetchFails(c) PROVE TokenTyped' /\ HasProfile'
  BY <1>6 DEF FetchFails
<1>7. ASSUME NEW c \in Callers, Store(c) PROVE TokenTyped' /\ HasProfile'
  BY <1>7 DEF Store
<1>8. ASSUME NEW c \in Callers, Stamp(c) PROVE TokenTyped' /\ HasProfile'
  BY <1>8 DEF Stamp
<1>9. ASSUME NEW c \in Callers, SendRequest(c) PROVE TokenTyped' /\ HasProfile'
  BY <1>9 DEF SendRequest, NoJob
<1>10. ASSUME Tick PROVE TokenTyped' /\ HasProfile'
  BY <1>10 DEF Tick
<1>11. ASSUME UNCHANGED httpVars PROVE TokenTyped' /\ HasProfile'
  BY <1>11 DEF httpVars
<1> QED
  BY <1>1, <1>2, <1>3, <1>4, <1>5, <1>6, <1>7, <1>8, <1>9, <1>10, <1>11 DEF HttpNext, HttpStep

LEMMA TokenStep ==
  TokenInv /\ [HttpNext]_httpVars => TokenTimes' /\ Stamping' /\ Hitting' /\ TokensInTime'
<1> SUFFICES ASSUME TokenInv, [HttpNext]_httpVars
             PROVE  TokenTimes' /\ Stamping' /\ Hitting' /\ TokensInTime'
  OBVIOUS
<1> DEFINE Goal == TokenTimes' /\ Stamping' /\ Hitting' /\ TokensInTime'
<1> USE NoTokenIsNone, HttpAssumption
<1> USE DEF TokenInv, TokenTyped, HasProfile, Advance, OnTheWay
<1>1. ASSUME NEW c \in Callers, NEW r \in HttpRequests, Execute(c, r) PROVE Goal
  <2>1. TokenTimes'
    BY <1>1 DEF Execute, TokenTimes
  <2>2. Stamping'
    BY <1>1 DEF Execute, TokenTimes, Stamping
  <2>3. Hitting'
    BY <1>1 DEF Execute, TokenTimes, Hitting
  <2>4. TokensInTime'
    <3>1. StaticHeader(Resolved(r).auth) # "fetched"
      BY DEF StaticHeader
    <3>2. header'[c] # "fetched"
      BY <1>1, <3>1 DEF Execute
    <3> QED
      BY <1>1, <3>2 DEF Execute, TokensInTime
  <2> QED
    BY <2>1, <2>2, <2>3, <2>4
<1>2. ASSUME NEW c \in Callers, NEW r \in HttpRequests, ExecuteWithToken(c, r) PROVE Goal
  <2>1. TokenTimes'
    BY <1>2 DEF ExecuteWithToken, TokenTimes
  <2>2. Stamping'
    BY <1>2 DEF ExecuteWithToken, TokenTimes, Stamping
  <2>3. Hitting'
    BY <1>2 DEF ExecuteWithToken, TokenTimes, Hitting
  <2>4. TokensInTime'
    BY <1>2 DEF ExecuteWithToken, TokenTimes, Hitting, TokensInTime
  <2> QED
    BY <2>1, <2>2, <2>3, <2>4
<1>3. ASSUME NEW c \in Callers, Lookup(c) PROVE Goal
  <2>1. TokenTimes'
    BY <1>3 DEF Lookup, IsFresh, TokenTimes
  <2>2. Stamping'
    BY <1>3 DEF Lookup, IsFresh, TokenTimes, Stamping
  <2>3. Hitting'
    BY <1>3 DEF Lookup, IsFresh, TokenTimes, Hitting
  <2>4. TokensInTime'
    BY <1>3 DEF Lookup, IsFresh, TokenTimes, Hitting, TokensInTime
  <2> QED
    BY <2>1, <2>2, <2>3, <2>4
<1>4. ASSUME NEW c \in Callers, TakeCached(c) PROVE Goal
  <2>1. TokenTimes'
    BY <1>4 DEF TakeCached, TokenTimes
  <2>2. Stamping'
    BY <1>4 DEF TakeCached, TokenTimes, Stamping
  <2>3. Hitting'
    BY <1>4 DEF TakeCached, TokenTimes, Hitting
  <2>4. TokensInTime'
    BY <1>4 DEF TakeCached, TokenTimes, Hitting, TokensInTime
  <2> QED
    BY <2>1, <2>2, <2>3, <2>4
<1>5. ASSUME NEW c \in Callers, Issue(c) PROVE Goal
  <2>1. TokenTimes'
    BY <1>5 DEF Issue, TokenTimes
  <2>2. Stamping'
    BY <1>5 DEF Issue, TokenTimes, Stamping
  <2>3. Hitting'
    BY <1>5 DEF Issue, TokenTimes, Hitting
  <2>4. TokensInTime'
    BY <1>5 DEF Issue, TokenTimes, Hitting, TokensInTime
  <2> QED
    BY <2>1, <2>2, <2>3, <2>4
<1>6. ASSUME NEW c \in Callers, FetchFails(c) PROVE Goal
  <2>1. TokenTimes'
    BY <1>6 DEF FetchFails, TokenTimes
  <2>2. Stamping'
    BY <1>6 DEF FetchFails, TokenTimes, Stamping
  <2>3. Hitting'
    BY <1>6 DEF FetchFails, TokenTimes, Hitting
  <2>4. TokensInTime'
    BY <1>6 DEF FetchFails, TokenTimes, Hitting, TokensInTime
  <2> QED
    BY <2>1, <2>2, <2>3, <2>4
<1>7. ASSUME NEW c \in Callers, Store(c) PROVE Goal
  <2>1. TokenTimes'
    BY <1>7 DEF Store, TokenTimes
  <2>2. Stamping'
    BY <1>7 DEF Store, TokenTimes, Stamping
  <2>3. Hitting'
    BY <1>7 DEF Store, TokenTimes, Hitting
  <2>4. TokensInTime'
    BY <1>7 DEF Store, TokenTimes, Hitting, TokensInTime
  <2> QED
    BY <2>1, <2>2, <2>3, <2>4
<1>8. ASSUME NEW c \in Callers, Stamp(c) PROVE Goal
  <2>1. TokenTimes'
    BY <1>8 DEF Stamp, TokenTimes, Stamping
  <2>2. Stamping'
    BY <1>8 DEF Stamp, TokenTimes, Stamping
  <2>3. Hitting'
    BY <1>8 DEF Stamp, TokenTimes, Hitting
  <2>4. TokensInTime'
    <3>1. /\ job[c].auth \in Profiles /\ got[c] \in Nat /\ got[c] # NoToken
          /\ asked[c] \in Nat /\ asked[c] <= got[c]
      BY <1>8 DEF Stamp, TokenTimes
    <3>2. Ttl[job[c].auth] \in Nat
      BY <3>1
    <3>3. asked[c] - got[c] < Ttl[job[c].auth] + FetchTime
      BY <3>1, <3>2
    <3> QED
      BY <1>8, <3>1, <3>3 DEF Stamp, TokensInTime
  <2> QED
    BY <2>1, <2>2, <2>3, <2>4
<1>9. ASSUME NEW c \in Callers, SendRequest(c) PROVE Goal
  <2>1. TokenTimes'
    BY <1>9 DEF SendRequest, TokenTimes
  <2>2. Stamping'
    BY <1>9 DEF SendRequest, TokenTimes, Stamping
  <2>3. Hitting'
    BY <1>9 DEF SendRequest, TokenTimes, Hitting
  <2>4. TokensInTime'
    BY <1>9 DEF SendRequest, TokenTimes, Hitting, TokensInTime
  <2> QED
    BY <2>1, <2>2, <2>3, <2>4
<1>10. ASSUME Tick PROVE Goal
  <2>1. TokenTimes'
    <3>1. clock' = clock + 1 /\ UNCHANGED <<token, stamp, stage, asked, got>>
      BY <1>10 DEF Tick
    <3>2. ASSUME NEW c \in Callers, OnTheWay(c) PROVE clock + 1 <= asked[c] + FetchTime
      BY <1>10, <3>2 DEF Tick
    <3> QED
      BY <3>1, <3>2 DEF TokenTimes
  <2>2. Stamping'
    BY <1>10 DEF Tick, TokenTimes, Stamping
  <2>3. Hitting'
    BY <1>10 DEF Tick, TokenTimes, Hitting
  <2>4. TokensInTime'
    BY <1>10 DEF Tick, TokenTimes, Hitting, TokensInTime
  <2> QED
    BY <2>1, <2>2, <2>3, <2>4
<1>11. ASSUME UNCHANGED httpVars PROVE Goal
  <2>1. TokenTimes'
    BY <1>11 DEF httpVars, TokenTimes
  <2>2. Stamping'
    BY <1>11 DEF httpVars, TokenTimes, Stamping
  <2>3. Hitting'
    BY <1>11 DEF httpVars, TokenTimes, Hitting
  <2>4. TokensInTime'
    BY <1>11 DEF httpVars, TokenTimes, Hitting, TokensInTime
  <2> QED
    BY <2>1, <2>2, <2>3, <2>4
<1> QED
  BY <1>1, <1>2, <1>3, <1>4, <1>5, <1>6, <1>7, <1>8, <1>9, <1>10, <1>11 DEF HttpNext, HttpStep

\* A request carries no token older than its time to live, by more than the
\* time it takes to get one: also when threads get tokens for one profile at
\* the same time and their assignments to the profile are interleaved.
THEOREM TokensAreInTime == HttpSpec => []TokensInTime
<1>1. TokenInv /\ [HttpNext]_httpVars => TokenInv'
  BY TokenTypedStep, TokenStep DEF TokenInv
<1>2. TokenInv => TokensInTime
  BY DEF TokenInv
<1> QED
  BY <1>1, <1>2, TokenInit, PTL DEF HttpSpec

(***************************************************************************)
(* The JMS pool: types, and what follows from where a borrower is.         *)
(***************************************************************************)

Using == {t \in Borrowers : place[t] = "using"}

JMSLinked ==
    /\ \A t \in Borrowers : borrowed[t] = NoHandle <=> place[t] \notin {"reconnecting", "using"}
    /\ inUse = {borrowed[t] : t \in Using}
    /\ \A t, u \in Entered : t = u
JMSFormed == JMSPoolTypeOK /\ JMSLinked

\* A list without its i-th element.
LEMMA Removed ==
  ASSUME NEW S, NEW s \in Seq(S), NEW i \in DOMAIN s
  PROVE  /\ RemoveAt(s, i) \in Seq(S)
         /\ Len(RemoveAt(s, i)) = Len(s) - 1
         /\ \A j \in DOMAIN RemoveAt(s, i) :
               RemoveAt(s, i)[j] = IF j < i THEN s[j] ELSE s[j + 1]
<1> DEFINE n == Len(s)
           a == SubSeq(s, 1, i - 1)
           b == SubSeq(s, i + 1, n)
<1>1. n \in Nat /\ i \in 1..n /\ DOMAIN s = 1..n /\ \A j \in 1..n : s[j] \in S
  BY LenProperties, ElementOfSeq
<1>2. a \in Seq(S) /\ Len(a) = i - 1 /\ \A j \in 1..(i - 1) : a[j] = s[j]
  <2>1. 1 \in Int /\ i - 1 \in Int /\ \A j \in 1..(i - 1) : s[j] \in S
    BY <1>1
  <2>2. /\ a \in Seq(S) /\ Len(a) = IF 1 <= i - 1 THEN i - 1 - 1 + 1 ELSE 0
        /\ \A j \in 1..(i - 1 - 1 + 1) : a[j] = s[1 + j - 1]
    BY <2>1, SubSeqProperties
  <2> HIDE DEF a
  <2>3. Len(a) = i - 1
    BY <1>1, <2>2
  <2>4. \A j \in 1..(i - 1) : a[j] = s[j]
    BY <1>1, <2>2
  <2> QED
    BY <2>2, <2>3, <2>4
<1>3. b \in Seq(S) /\ Len(b) = n - i /\ \A j \in 1..(n - i) : b[j] = s[i + j]
  <2>1. i + 1 \in Int /\ n \in Int /\ \A j \in (i + 1)..n : s[j] \in S
    BY <1>1
  <2>2. /\ b \in Seq(S) /\ Len(b) = IF i + 1 <= n THEN n - (i + 1) + 1 ELSE 0
        /\ \A j \in 1..(n - (i + 1) + 1) : b[j] = s[i + 1 + j - 1]
    BY <2>1, SubSeqProperties
  <2> HIDE DEF b, n
  <2>3. Len(b) = n - i
    BY <1>1, <2>2
  <2>4. ASSUME NEW j \in 1..(n - i) PROVE b[j] = s[i + j]
    <3>1. j \in 1..(n - (i + 1) + 1) /\ i + 1 + j - 1 = i + j
      BY <1>1
    <3> QED
      BY <2>2, <3>1
  <2> QED
    BY <2>2, <2>3, <2>4
<1> HIDE DEF a, b
<1>4. RemoveAt(s, i) = a \o b
  BY DEF RemoveAt, a, b, n
<1>5. /\ a \o b \in Seq(S) /\ Len(a \o b) = Len(a) + Len(b)
      /\ \A j \in 1..(Len(a) + Len(b)) : (a \o b)[j] = IF j <= Len(a) THEN a[j] ELSE b[j - Len(a)]
  BY <1>2, <1>3, ConcatProperties
<1>6. Len(RemoveAt(s, i)) = n - 1
  BY <1>1, <1>2, <1>3, <1>4, <1>5
<1>7. DOMAIN RemoveAt(s, i) = 1..(n - 1)
  BY <1>4, <1>5, <1>6, LenProperties
<1>8. ASSUME NEW j \in 1..(n - 1)
      PROVE  RemoveAt(s, i)[j] = IF j < i THEN s[j] ELSE s[j + 1]
  <2>1. CASE j < i
    BY <1>1, <1>2, <1>3, <1>4, <1>5, <2>1
  <2>2. CASE j >= i
    <3>1. j - (i - 1) \in 1..(n - i) /\ i + (j - (i - 1)) = j + 1
      BY <1>1, <2>2
    <3>2. (a \o b)[j] = b[j - (i - 1)]
      BY SMTT(60), <1>1, <1>2, <1>3, <1>5, <2>2
    <3> QED
      BY SMTT(60), <1>1, <1>3, <1>4, <2>2, <3>1, <3>2
  <2> QED
    BY <1>1, <2>1, <2>2
<1> QED
  BY <1>4, <1>5, <1>6, <1>7, <1>8 DEF n

LEMMA JMSFormedInit == JMSInit => JMSFormed
<1> SUFFICES ASSUME JMSInit PROVE JMSFormed
  OBVIOUS
<1>1. PICK n \in 0..MinIdle : available \in [1..n -> Handles]
  BY DEF JMSInit
<1>2. available \in Seq(Handles)
  <2>1. n \in Nat
    BY JMSPoolAssumption
  <2> QED
    BY <1>1, <2>1, SeqDef
<1>3. IdleHandles \subseteq Handles
  BY <1>1 DEF IdleHandles
<1>4. usable \subseteq Clients
  BY <1>3 DEF JMSInit
<1>5. Using = {} /\ Entered = {}
  BY DEF JMSInit, Using, Entered
<1>6. JMSPoolTypeOK
  BY <1>2, <1>4 DEF JMSInit, JMSPoolTypeOK
<1>7. JMSLinked
  BY <1>5 DEF JMSInit, JMSLinked
<1> QED
  BY <1>6, <1>7 DEF JMSFormed

\* A borrower that goes on, without lending or returning a handle.
LEMMA JMSMoves ==
  ASSUME JMSFormed, NEW t \in Borrowers, NEW there, place' = [place EXCEPT ![t] = there],
         there \in {"out", "asking", "inside", "waiting", "late"}, place[t] # "using",
         borrowed' = [borrowed EXCEPT ![t] = NoHandle], inUse' = inUse,
         there = "inside" => MonitorFree \/ t \in Entered
  PROVE  JMSLinked' /\ borrowed' \in [Borrowers -> Handles \cup {NoHandle}]
<1> USE DEF JMSFormed, JMSLinked, JMSPoolTypeOK
<1>1. Using' = Using /\ \A u \in Using : borrowed'[u] = borrowed[u]
  BY DEF Using
<1>2. Entered' \subseteq Entered \cup {t} /\ (there # "inside" => t \notin Entered')
  BY DEF Entered
<1>3. \A u, v \in Entered' : u = v
  BY <1>2 DEF MonitorFree
<1>4. inUse' = {borrowed'[u] : u \in Using'}
  BY <1>1
<1>5. \A u \in Borrowers : borrowed'[u] = NoHandle <=> place'[u] \notin {"reconnecting", "using"}
  OBVIOUS
<1> QED
  BY <1>3, <1>4, <1>5

\* A borrower that goes from the section under the lock with a handle.
LEMMA JMSHands ==
  ASSUME JMSFormed, NEW t \in Borrowers, NEW h \in Handles,
         place[t] \in {"inside", "reconnecting"}, Hand(t, h)
  PROVE  /\ JMSLinked' /\ borrowed' \in [Borrowers -> Handles \cup {NoHandle}]
         /\ Using' = Using \cup {t} /\ inUse' \subseteq Handles
         /\ place' \in [Borrowers -> {"out", "asking", "inside", "reconnecting",
                                      "waiting", "late", "using"}]
<1> USE JMSPoolAssumption DEF JMSFormed, JMSLinked, JMSPoolTypeOK, Hand, MoveTo
<1>1. Using' = Using \cup {t} /\ \A u \in Using : u # t /\ borrowed'[u] = borrowed[u]
  BY DEF Using
<1>2. Entered' \subseteq Entered
  BY DEF Entered
<1>3. inUse' = {borrowed'[u] : u \in Using'}
  BY <1>1
<1>4. \A u \in Borrowers : borrowed'[u] = NoHandle <=> place'[u] \notin {"reconnecting", "using"}
  OBVIOUS
<1> QED
  BY <1>1, <1>2, <1>3, <1>4

(***************************************************************************)
(* A handle is in one place, and it has a client exactly as long as it is  *)
(* in the list or with a borrower.                                         *)
(***************************************************************************)

Elements(s) == {s[i] : i \in DOMAIN s}
Distinct(s) == \A i, j \in DOMAIN s : s[i] = s[j] => i = j

JMSOwned ==
    /\ \A t, u \in Borrowers : borrowed[t] # NoHandle /\ borrowed[t] = borrowed[u] => t = u
    /\ Distinct(available)
    /\ \A t \in Borrowers : borrowed[t] \notin IdleHandles
    /\ \A h \in Handles : client[h] # NoClient <=>
          h \in IdleHandles \/ \E t \in Borrowers : borrowed[t] = h

LEMMA IdleElements == IdleHandles = Elements(available) /\ IdleHandles' = Elements(available')
  BY DEF IdleHandles, Elements

LEMMA DistinctRemoved ==
  ASSUME NEW S, NEW s \in Seq(S), Distinct(s), NEW i \in DOMAIN s
  PROVE  Distinct(RemoveAt(s, i)) /\ Elements(RemoveAt(s, i)) = Elements(s) \ {s[i]}
<1> DEFINE r == RemoveAt(s, i)
<1>1. /\ Len(s) \in Nat /\ DOMAIN s = 1..Len(s)
      /\ r \in Seq(S) /\ Len(r) = Len(s) - 1 /\ DOMAIN r = 1..(Len(s) - 1)
  BY Removed, LenProperties
<1>2. \A j \in DOMAIN r : r[j] = IF j < i THEN s[j] ELSE s[j + 1]
  BY Removed
<1> HIDE DEF r
<1>3. Distinct(r)
  BY <1>1, <1>2 DEF Distinct
<1>4. ASSUME NEW j \in DOMAIN s, s[j] # s[i] PROVE s[j] \in Elements(r)
  <2>1. CASE j < i
    <3>1. j \in DOMAIN r /\ r[j] = s[j]
      BY <1>1, <1>2, <2>1
    <3> QED
      BY <3>1 DEF Elements
  <2>2. CASE j > i
    <3>1. j - 1 \in DOMAIN r /\ ~(j - 1 < i) /\ j - 1 + 1 = j
      BY <1>1, <2>2
    <3>2. r[j - 1] = s[j]
      BY <1>2, <3>1
    <3> QED
      BY <3>1, <3>2 DEF Elements
  <2> QED
    BY <1>1, <1>4, <2>1, <2>2
<1>5. ASSUME NEW j \in DOMAIN r PROVE r[j] \in Elements(s) /\ r[j] # s[i]
  <2>1. CASE j < i
    BY <1>1, <1>2, <2>1 DEF Distinct, Elements
  <2>2. CASE j >= i
    <3>1. j + 1 \in DOMAIN s /\ j + 1 # i /\ r[j] = s[j + 1]
      BY <1>1, <1>2, <2>2
    <3> QED
      BY <3>1 DEF Distinct, Elements
  <2> QED
    BY <1>1, <2>1, <2>2
<1>6. Elements(r) = Elements(s) \ {s[i]}
  BY <1>4, <1>5 DEF Elements
<1> QED
  BY <1>3, <1>6 DEF r

LEMMA DistinctTail ==
  ASSUME NEW S, NEW s \in Seq(S), Distinct(s), s # <<>>
  PROVE  /\ Tail(s) \in Seq(S) /\ Len(s) \in Nat \ {0} /\ Len(Tail(s)) = Len(s) - 1
         /\ Head(s) \in Elements(s) /\ Head(s) \in S
         /\ Distinct(Tail(s)) /\ Elements(Tail(s)) = Elements(s) \ {Head(s)}
<1>1. /\ Len(s) \in Nat \ {0} /\ DOMAIN s = 1..Len(s) /\ 1 \in DOMAIN s /\ Head(s) = s[1]
      /\ Tail(s) \in Seq(S) /\ Len(Tail(s)) = Len(s) - 1
      /\ DOMAIN Tail(s) = 1..(Len(s) - 1)
      /\ \A j \in 1..(Len(s) - 1) : Tail(s)[j] = s[j + 1]
  BY EmptySeq, LenProperties, HeadTailProperties
<1>2. s[1] \in S
  BY <1>1, ElementOfSeq
<1>3. Distinct(Tail(s))
  BY <1>1 DEF Distinct
<1>4. ASSUME NEW j \in DOMAIN s, s[j] # s[1] PROVE s[j] \in Elements(Tail(s))
  <2>1. j - 1 \in DOMAIN Tail(s) /\ Tail(s)[j - 1] = s[j]
    BY <1>1, <1>4
  <2> QED
    BY <2>1 DEF Elements
<1>5. ASSUME NEW j \in DOMAIN Tail(s) PROVE Tail(s)[j] \in Elements(s) /\ Tail(s)[j] # s[1]
  BY <1>1 DEF Distinct, Elements
<1> QED
  BY SMTT(60), <1>1, <1>2, <1>3, <1>4, <1>5 DEF Elements

LEMMA DistinctAppended ==
  ASSUME NEW S, NEW s \in Seq(S), Distinct(s), NEW x \in S, x \notin Elements(s)
  PROVE  /\ Append(s, x) \in Seq(S) /\ Len(Append(s, x)) = Len(s) + 1 /\ Len(s) \in Nat
         /\ Distinct(Append(s, x)) /\ Elements(Append(s, x)) = Elements(s) \cup {x}
<1>1. /\ Len(s) \in Nat /\ DOMAIN s = 1..Len(s)
      /\ Append(s, x) \in Seq(S) /\ Len(Append(s, x)) = Len(s) + 1
      /\ DOMAIN Append(s, x) = 1..(Len(s) + 1)
      /\ \A j \in 1..Len(s) : Append(s, x)[j] = s[j]
      /\ Append(s, x)[Len(s) + 1] = x
  BY LenProperties, AppendProperties
<1>2. \A j \in DOMAIN s : s[j] # x
  BY DEF Elements
<1>3. Distinct(Append(s, x))
  BY <1>1, <1>2 DEF Distinct
<1>4. Elements(Append(s, x)) = Elements(s) \cup {x}
  <2>1. ASSUME NEW j \in DOMAIN Append(s, x) PROVE Append(s, x)[j] \in Elements(s) \cup {x}
    BY <1>1 DEF Elements
  <2>2. ASSUME NEW j \in DOMAIN s PROVE s[j] \in Elements(Append(s, x))
    BY <1>1 DEF Elements
  <2>3. x \in Elements(Append(s, x))
    BY <1>1 DEF Elements
  <2> QED
    BY <2>1, <2>2, <2>3 DEF Elements
<1> QED
  BY <1>1, <1>3, <1>4

LEMMA IdleAreHandles == JMSFormed => IdleHandles \subseteq Handles
  BY ElementOfSeq, LenProperties DEF JMSFormed, JMSPoolTypeOK, IdleHandles

LEMMA JMSFormedStep == JMSFormed /\ JMSOwned /\ [JMSNext]_jmsVars => JMSFormed'
<1> SUFFICES ASSUME JMSFormed, JMSOwned, [JMSNext]_jmsVars PROVE JMSFormed'
  OBVIOUS
<1> USE JMSPoolAssumption DEF JMSFormed, JMSPoolTypeOK, MoveTo
<1>0. \A t \in Borrowers : place[t] \notin {"reconnecting", "using"} =>
         borrowed[t] = NoHandle /\ borrowed = [borrowed EXCEPT ![t] = NoHandle]
  BY DEF JMSLinked
<1>a. ASSUME UNCHANGED <<place, borrowed, inUse>> PROVE JMSLinked'
  BY <1>a DEF JMSLinked, Using, Entered
<1>b. JMSFormed
  OBVIOUS
<1>1. ASSUME NEW t \in Borrowers, Call(t) PROVE JMSFormed'
  <2>1. JMSLinked'
    BY <1>0, <1>b, <1>1, JMSMoves DEF Call
  <2> QED
    BY <1>1, <2>1 DEF Call
<1>2. ASSUME NEW t \in Borrowers, TakeMonitor(t) PROVE JMSFormed'
  <2>1. JMSLinked'
    BY <1>0, <1>b, <1>2, JMSMoves DEF TakeMonitor
  <2> QED
    BY <1>2, <2>1 DEF TakeMonitor
<1>3. ASSUME NEW t \in Borrowers, Expire(t) PROVE JMSFormed'
  <2>1. JMSLinked'
    BY <1>a, <1>3 DEF Expire
  <2>2. available' \in Seq(Handles)
    BY <1>3, Removed DEF Expire
  <2> QED
    BY <1>3, <2>1, <2>2 DEF Expire
<1>4. ASSUME NEW t \in Borrowers, Pop(t) PROVE JMSFormed'
  <2>1. available' \in Seq(Handles) /\ Head(available) \in Handles
    BY <1>4, DistinctTail DEF Pop, JMSOwned
  <2>2. CASE Hand(t, Head(available)) /\ UNCHANGED usable
    BY <1>b, <1>4, <2>1, <2>2, JMSHands DEF Pop
  <2>3. CASE /\ borrowed' = [borrowed EXCEPT ![t] = Head(available)]
             /\ MoveTo(t, "reconnecting") /\ UNCHANGED <<inUse, usable>>
    <3>1. Using' = Using /\ (\A u \in Using : borrowed'[u] = borrowed[u]) /\ Entered' = Entered
      BY <1>4, <2>3 DEF Pop, Using, Entered
    <3>2. JMSLinked'
      BY <1>4, <2>1, <2>3, <3>1 DEF Pop, JMSLinked
    <3> QED
      BY <1>4, <2>1, <2>3, <3>2 DEF Pop
  <2> QED
    BY <1>4, <2>2, <2>3 DEF Pop
<1>5. ASSUME NEW t \in Borrowers, Renew(t) PROVE JMSFormed'
  <2>1. borrowed[t] \in Handles
    BY <1>5 DEF Renew, JMSLinked
  <2>2. usable' \subseteq Clients /\ client' \in [Handles -> Clients \cup {NoClient}]
    BY <1>5, <2>1 DEF Renew, Supply
  <2> QED
    BY <1>b, <1>5, <2>1, <2>2, JMSHands DEF Renew
<1>6. ASSUME NEW t \in Borrowers, RenewFails(t) PROVE JMSFormed'
  <2>1. JMSLinked' /\ borrowed' \in [Borrowers -> Handles \cup {NoHandle}]
    <3>1. t \in Entered /\ place[t] # "using"
      BY <1>6 DEF RenewFails, Entered
    <3> QED
      BY <1>b, <1>6, <3>1, JMSMoves DEF RenewFails
  <2> QED
    BY <1>6, <2>1 DEF RenewFails
<1>7. ASSUME NEW t \in Borrowers, Grow(t) PROVE JMSFormed'
  <2>1. NewHandle \in Handles
    BY <1>7 DEF Grow, NewHandle
  <2>2. usable' \subseteq Clients /\ client' \in [Handles -> Clients \cup {NoClient}]
    BY <1>7, <2>1 DEF Grow, Supply
  <2>3. place[t] \in {"inside", "reconnecting"} /\ Hand(t, NewHandle)
    BY <1>7 DEF Grow
  <2>4. UNCHANGED <<available, invalid, waiters, closing>>
    BY <1>7 DEF Grow
  <2> QED
    BY <1>b, <2>1, <2>2, <2>3, <2>4, JMSHands
<1>8. ASSUME NEW t \in Borrowers, Wait(t) PROVE JMSFormed'
  <2>1. JMSLinked'
    BY <1>0, <1>b, <1>8, JMSMoves DEF Wait
  <2>2. waiters' \in Seq(Borrowers)
    BY <1>8, AppendProperties DEF Wait
  <2> QED
    BY <1>8, <2>1, <2>2 DEF Wait
<1>9. ASSUME NEW t \in Borrowers, TimesOut(t) PROVE JMSFormed'
  <2>1. JMSLinked'
    BY <1>0, <1>b, <1>9, JMSMoves DEF TimesOut
  <2> QED
    BY <1>9, <2>1 DEF TimesOut
<1>10. ASSUME NEW t \in Borrowers, GiveUp(t) PROVE JMSFormed'
  <2>1. JMSLinked'
    BY <1>0, <1>b, <1>10, JMSMoves DEF GiveUp
  <2>2. waiters' \in Seq(Borrowers)
    BY <1>10, Removed DEF GiveUp
  <2> QED
    BY <1>10, <2>1, <2>2 DEF GiveUp
<1>11. ASSUME NEW t \in Borrowers, Invalidate(t) PROVE JMSFormed'
  <2>1. borrowed[t] \in Handles
    BY <1>11 DEF Invalidate, JMSLinked
  <2> QED
    BY <1>a, <1>11, <2>1 DEF Invalidate
<1>12. ASSUME NEW t \in Borrowers, GiveBack(t) PROVE JMSFormed'
  <2>1. borrowed[t] \in Handles /\ t \in Using /\ MonitorFree
    BY <1>12 DEF GiveBack, JMSLinked, Using
  <2>2. available' \in Seq(Handles)
    <3>1. available' = Append(available, borrowed[t]) \/ available' = available
      BY <1>12 DEF GiveBack
    <3>2. Append(available, borrowed[t]) \in Seq(Handles)
      BY <2>1, AppendProperties
    <3> QED
      BY <3>1, <3>2
  <2>3. place' = Notified(t)
    BY <1>12 DEF GiveBack
  <2>4. /\ place' \in [Borrowers -> {"out", "asking", "inside", "reconnecting",
                                     "waiting", "late", "using"}]
        /\ \A u \in Borrowers : (place'[u] = "using" <=> place[u] = "using" /\ u # t)
        /\ \A u \in Borrowers : place'[u] \notin {"inside", "reconnecting"}
        /\ place'[t] = "out"
    BY <2>1, <2>3 DEF Notified, MonitorFree, Entered, Using
  <2>5. Entered' = {} /\ Using' = Using \ {t}
    BY <2>4 DEF Entered, Using
  <2>6. \A u \in Borrowers : place[u] # "reconnecting"
    BY <2>1 DEF MonitorFree, Entered
  <2>7. borrowed' = [borrowed EXCEPT ![t] = NoHandle] /\ inUse' = inUse \ {borrowed[t]}
    BY <1>12 DEF GiveBack
  <2>8. inUse' = {borrowed'[u] : u \in Using'}
    <3>1. \A u \in Using : borrowed[u] = borrowed[t] => u = t
      BY <2>1 DEF JMSOwned, Using, JMSLinked
    <3>2. \A u \in Using' : borrowed'[u] = borrowed[u] /\ u \in Using /\ u # t
      BY <2>5, <2>7 DEF Using
    <3>3. inUse = {borrowed[u] : u \in Using}
      BY DEF JMSLinked
    <3> QED
      BY <2>5, <2>7, <3>1, <3>2, <3>3
  <2>9. \A u \in Borrowers : borrowed'[u] = NoHandle <=> place'[u] \notin {"reconnecting", "using"}
    BY <2>4, <2>6, <2>7 DEF JMSLinked
  <2>10. waiters' \in Seq(Borrowers)
    BY <1>12, HeadTailProperties DEF GiveBack
  <2>11. client' \in [Handles -> Clients \cup {NoClient}]
    BY <1>12 DEF GiveBack
  <2> QED
    BY <1>12, <2>2, <2>4, <2>5, <2>7, <2>8, <2>9, <2>10, <2>11 DEF GiveBack, JMSLinked
<1>13. ASSUME NEW c \in Clients, LinkBreaks(c) PROVE JMSFormed'
  BY <1>a, <1>13 DEF LinkBreaks
<1>14. ASSUME ClosePool PROVE JMSFormed'
  BY <1>a, <1>14, EmptySeq DEF ClosePool
<1>15. ASSUME CloseRegistered PROVE JMSFormed'
  BY <1>a, <1>15 DEF CloseRegistered
<1>16. ASSUME UNCHANGED jmsVars PROVE JMSFormed'
  BY <1>a, <1>16 DEF jmsVars
<1> QED
  BY <1>1, <1>2, <1>3, <1>4, <1>5, <1>6, <1>7, <1>8, <1>9, <1>10, <1>11, <1>12,
     <1>13, <1>14, <1>15, <1>16 DEF JMSNext, GetConnection

LEMMA JMSOwnedInit == JMSInit => JMSOwned
<1> SUFFICES ASSUME JMSInit PROVE JMSOwned
  OBVIOUS
<1>1. PICK n \in 0..MinIdle : available \in {s \in [1..n -> Handles] : IsInjective(s)}
  BY DEF JMSInit
<1>2. Distinct(available)
  BY <1>1 DEF Distinct, IsInjective
<1>3. IdleHandles \subseteq Handles /\ \A t \in Borrowers : borrowed[t] = NoHandle
  BY <1>1 DEF IdleHandles, JMSInit
<1> QED
  BY <1>2, <1>3, JMSPoolAssumption DEF JMSInit, JMSOwned

\* A handle leaves the list: it is forgotten, or a borrower has it.
LEMMA JMSOwnedStep == JMSFormed /\ JMSOwned /\ [JMSNext]_jmsVars => JMSOwned'
<1> SUFFICES ASSUME JMSFormed, JMSOwned, [JMSNext]_jmsVars PROVE JMSOwned'
  OBVIOUS
<1> USE JMSPoolAssumption DEF JMSFormed, JMSPoolTypeOK, MoveTo
<1>0. /\ IdleHandles \subseteq Handles
      /\ IdleHandles = Elements(available) /\ IdleHandles' = Elements(available')
  BY IdleAreHandles, IdleElements
<1>a. ASSUME UNCHANGED <<available, borrowed, client>> PROVE JMSOwned'
  BY <1>a, <1>0 DEF JMSOwned
<1>1. ASSUME NEW t \in Borrowers, Call(t) \/ TakeMonitor(t) \/ Wait(t) PROVE JMSOwned'
  BY <1>1, <1>a DEF Call, TakeMonitor, Wait
<1>2. ASSUME NEW t \in Borrowers, TimesOut(t) \/ GiveUp(t) \/ Invalidate(t) PROVE JMSOwned'
  BY <1>2, <1>a DEF TimesOut, GiveUp, Invalidate
<1>3. ASSUME NEW t \in Borrowers, Expire(t) PROVE JMSOwned'
  <2>1. PICK i \in DOMAIN available :
          /\ available' = RemoveAt(available, i)
          /\ client' = [client EXCEPT ![available[i]] = NoClient]
    BY <1>3 DEF Expire
  <2>2. Distinct(available') /\ IdleHandles' = IdleHandles \ {available[i]}
    BY <1>0, <2>1, DistinctRemoved DEF JMSOwned
  <2>3. available[i] \in IdleHandles /\ borrowed' = borrowed
    BY <1>3 DEF Expire, IdleHandles
  <2> QED
    BY <1>0, <2>1, <2>2, <2>3 DEF JMSOwned
<1>4. ASSUME NEW t \in Borrowers, Pop(t) PROVE JMSOwned'
  <2> DEFINE h == Head(available)
  <2>1. /\ Distinct(available') /\ IdleHandles' = IdleHandles \ {h}
        /\ h \in IdleHandles /\ h \in Handles
    BY <1>0, <1>4, DistinctTail DEF Pop, JMSOwned
  <2>2. borrowed' = [borrowed EXCEPT ![t] = h] /\ client' = client /\ borrowed[t] = NoHandle
    BY <1>4 DEF Pop, Hand, JMSLinked
  <2> HIDE DEF h
  <2> QED
    BY <2>1, <2>2 DEF JMSOwned
<1>5. ASSUME NEW t \in Borrowers, Renew(t) PROVE JMSOwned'
  <2>1. PICK c \in Clients : client' = [client EXCEPT ![borrowed[t]] = c]
    BY <1>5 DEF Renew
  <2>2. c # NoClient
    BY <2>1
  <2>3. /\ borrowed[t] \in Handles /\ UNCHANGED available
        /\ borrowed' = [borrowed EXCEPT ![t] = borrowed[t]]
    BY <1>5 DEF Renew, Hand, JMSLinked
  <2>4. borrowed' = borrowed /\ IdleHandles' = IdleHandles
    BY <1>0, <2>3
  <2> QED
    BY <2>1, <2>2, <2>3, <2>4 DEF JMSOwned
<1>6. ASSUME NEW t \in Borrowers, RenewFails(t) PROVE JMSOwned'
  <2>1. /\ borrowed[t] \in Handles /\ UNCHANGED available
        /\ client' = [client EXCEPT ![borrowed[t]] = NoClient]
        /\ borrowed' = [borrowed EXCEPT ![t] = NoHandle]
    BY <1>6 DEF RenewFails, JMSLinked
  <2>2. IdleHandles' = IdleHandles
    BY <1>0, <2>1
  <2> QED
    BY <1>0, <2>1, <2>2 DEF JMSOwned
<1>7. ASSUME NEW t \in Borrowers, Grow(t) PROVE JMSOwned'
  <2> DEFINE h == NewHandle
  <2>1. h \in Handles /\ client[h] = NoClient
    BY <1>7 DEF Grow, NewHandle
  <2>2. PICK c \in Clients : client' = [client EXCEPT ![h] = c]
    BY <1>7 DEF Grow
  <2>3. c # NoClient
    BY <2>2
  <2>4. /\ UNCHANGED available /\ borrowed[t] = NoHandle
        /\ borrowed' = [borrowed EXCEPT ![t] = h]
    BY <1>7 DEF Grow, Hand, JMSLinked
  <2>5. h \notin IdleHandles /\ \A u \in Borrowers : borrowed[u] # h
    BY <2>1 DEF JMSOwned
  <2>6. IdleHandles' = IdleHandles
    BY <1>0, <2>4
  <2> HIDE DEF h
  <2> QED
    BY <2>1, <2>2, <2>3, <2>4, <2>5, <2>6 DEF JMSOwned
<1>8. ASSUME NEW t \in Borrowers, GiveBack(t) PROVE JMSOwned'
  <2>1. borrowed[t] \in Handles /\ borrowed' = [borrowed EXCEPT ![t] = NoHandle]
    BY <1>8 DEF GiveBack, JMSLinked
  <2>2. CASE available' = Append(available, borrowed[t]) /\ UNCHANGED client
    <3>1. borrowed[t] \notin Elements(available)
      BY <1>0 DEF JMSOwned
    <3>2. Distinct(available') /\ IdleHandles' = IdleHandles \cup {borrowed[t]}
      BY <1>0, <2>1, <2>2, <3>1, DistinctAppended DEF JMSOwned
    <3> QED
      BY <1>0, <2>1, <2>2, <3>2 DEF JMSOwned
  <2>3. CASE client' = [client EXCEPT ![borrowed[t]] = NoClient] /\ UNCHANGED available
    <3>1. IdleHandles' = IdleHandles
      BY <1>0, <2>3
    <3> QED
      BY <1>0, <2>1, <2>3, <3>1 DEF JMSOwned
  <2> QED
    BY <1>8, <2>2, <2>3 DEF GiveBack
<1>9. ASSUME NEW c \in Clients, LinkBreaks(c) PROVE JMSOwned'
  BY <1>9, <1>a DEF LinkBreaks
<1>10. ASSUME ClosePool PROVE JMSOwned'
  <2>1. Distinct(available') /\ IdleHandles' = {}
    BY <1>10 DEF ClosePool, Distinct, IdleHandles
  <2>2. borrowed' = borrowed /\ client' = [h \in Handles |-> IF h \in IdleHandles THEN NoClient ELSE client[h]]
    BY <1>10 DEF ClosePool
  <2> QED
    BY <2>1, <2>2 DEF JMSOwned
<1>11. ASSUME CloseRegistered \/ UNCHANGED jmsVars PROVE JMSOwned'
  BY <1>11, <1>a DEF CloseRegistered, jmsVars
<1> QED
  BY <1>1, <1>2, <1>3, <1>4, <1>5, <1>6, <1>7, <1>8, <1>9, <1>10, <1>11
     DEF JMSNext, GetConnection

LEMMA JMSAlways == JMSSpec => [](JMSFormed /\ JMSOwned)
  BY JMSFormedInit, JMSFormedStep, JMSOwnedInit, JMSOwnedStep, PTL DEF JMSSpec

(***************************************************************************)
(* The size of the pool: the list, and the borrowers that have a handle.   *)
(***************************************************************************)

JMSHolders == {t \in Borrowers : borrowed[t] # NoHandle}
JMSBounded == Len(available) + Cardinality(JMSHolders) <= JMSPoolLimit

LEMMA BorrowersFinite ==
  ASSUME NEW S \in SUBSET Borrowers
  PROVE  IsFiniteSet(S) /\ Cardinality(S) \in Nat
  BY JMSPoolAssumption, FS_Subset, FS_CardinalityType

LEMMA LimitType == JMSPoolLimit \in Nat /\ MaxTotal <= JMSPoolLimit /\ MinIdle <= JMSPoolLimit
  BY JMSPoolAssumption DEF JMSPoolLimit

\* _in_use has one handle for each borrower that uses one.
LEMMA InUseCounts ==
  ASSUME JMSFormed, JMSOwned PROVE Cardinality(inUse) = Cardinality(Using)
<1> DEFINE f == [t \in Using |-> borrowed[t]]
<1>1. inUse = {borrowed[t] : t \in Using} /\ Using \subseteq Borrowers
  BY DEF JMSFormed, JMSLinked, Using
<1>2. \A t, u \in Using : f[t] = f[u] => t = u
  BY DEF JMSOwned, Using, JMSFormed, JMSLinked
<1>3. f \in [Using -> inUse] /\ \A h \in inUse : \E t \in Using : f[t] = h
  BY <1>1
<1>4. f \in Bijection(Using, inUse)
  BY <1>2, <1>3 DEF Bijection, Injection, Surjection, IsInjective
<1>5. ExistsBijection(Using, inUse)
  BY <1>4 DEF ExistsBijection
<1> QED
  BY <1>1, <1>5, BorrowersFinite, FS_Bijection

\* One borrower gets a handle, loses it, or neither.
LEMMA BorrowersMove ==
  ASSUME JMSFormed, NEW t \in Borrowers, NEW h, borrowed' = [borrowed EXCEPT ![t] = h]
  PROVE  /\ Cardinality(JMSHolders) \in Nat
         /\ (borrowed[t] # NoHandle <=> h # NoHandle) => Cardinality(JMSHolders') = Cardinality(JMSHolders)
         /\ borrowed[t] = NoHandle /\ h # NoHandle => Cardinality(JMSHolders') = Cardinality(JMSHolders) + 1
         /\ borrowed[t] # NoHandle /\ h = NoHandle => Cardinality(JMSHolders') = Cardinality(JMSHolders) - 1
<1>1. IsFiniteSet(JMSHolders) /\ Cardinality(JMSHolders) \in Nat
  BY BorrowersFinite DEF JMSHolders
<1>2. \A u \in Borrowers : borrowed'[u] = IF u = t THEN h ELSE borrowed[u]
  BY DEF JMSFormed, JMSPoolTypeOK
<1>3. JMSHolders' = IF h # NoHandle THEN JMSHolders \cup {t} ELSE JMSHolders \ {t}
  BY <1>2 DEF JMSHolders
<1>4. t \in JMSHolders <=> borrowed[t] # NoHandle
  BY DEF JMSHolders
<1> QED
  BY <1>1, <1>3, <1>4, FS_AddElement, FS_RemoveElement

LEMMA JMSBoundedInit == JMSInit => JMSBounded
<1> SUFFICES ASSUME JMSInit PROVE JMSBounded
  OBVIOUS
<1>1. PICK n \in 0..MinIdle : available \in [1..n -> Handles]
  BY DEF JMSInit
<1>2. n \in Nat /\ n <= MinIdle
  BY <1>1, JMSPoolAssumption
<1>3. Len(available) = n
  BY <1>1, <1>2, LenProperties, IsASeq
<1>4. JMSHolders = {}
  BY DEF JMSInit, JMSHolders
<1> QED
  BY <1>2, <1>3, <1>4, FS_EmptySet, LimitType, JMSPoolAssumption DEF JMSBounded

LEMMA JMSBoundedStep ==
  JMSFormed /\ JMSOwned /\ JMSBounded /\ [JMSNext]_jmsVars => JMSBounded'
<1> SUFFICES ASSUME JMSFormed, JMSOwned, JMSBounded, [JMSNext]_jmsVars PROVE JMSBounded'
  OBVIOUS
<1> DEFINE n == Cardinality(JMSHolders)
<1>0. /\ n \in Nat /\ Len(available) \in Nat /\ available \in Seq(Handles)
      /\ Len(available) + n <= JMSPoolLimit /\ JMSPoolLimit \in Nat
  BY BorrowersFinite, LenProperties, LimitType DEF JMSHolders, JMSFormed, JMSPoolTypeOK, JMSBounded
<1>a. ASSUME UNCHANGED <<available, borrowed>> PROVE JMSBounded'
  BY <1>a DEF JMSBounded, JMSHolders
<1>b. \A t \in Borrowers : borrowed[t] = NoHandle <=> place[t] \notin {"reconnecting", "using"}
  BY DEF JMSFormed, JMSLinked
<1> USE DEF MoveTo
<1>1. ASSUME NEW t \in Borrowers, Call(t) \/ TakeMonitor(t) \/ Wait(t) PROVE JMSBounded'
  BY <1>1, <1>a DEF Call, TakeMonitor, Wait
<1>2. ASSUME NEW t \in Borrowers, TimesOut(t) \/ GiveUp(t) \/ Invalidate(t) PROVE JMSBounded'
  BY <1>2, <1>a DEF TimesOut, GiveUp, Invalidate
<1>3. ASSUME NEW t \in Borrowers, Expire(t) PROVE JMSBounded'
  <2>1. Len(available') = Len(available) - 1
    BY <1>0, <1>3, Removed DEF Expire
  <2>2. Cardinality(JMSHolders') = n
    BY <1>3 DEF Expire, JMSHolders
  <2> QED
    BY <1>0, <2>1, <2>2 DEF JMSBounded
<1>4. ASSUME NEW t \in Borrowers, Pop(t) PROVE JMSBounded'
  <2>1. Len(available') = Len(available) - 1 /\ Head(available) \in Handles
    BY <1>0, <1>4, DistinctTail DEF Pop, JMSOwned
  <2>2. PICK h \in Handles : h = Head(available)
    BY <2>1
  <2>3. borrowed' = [borrowed EXCEPT ![t] = h] /\ borrowed[t] = NoHandle /\ h # NoHandle
    BY <1>b, <1>4, <2>2, JMSPoolAssumption DEF Pop, Hand
  <2>4. Cardinality(JMSHolders') = n + 1
    BY <2>3, BorrowersMove
  <2> QED
    BY <1>0, <2>1, <2>4 DEF JMSBounded
<1>5. ASSUME NEW t \in Borrowers, Renew(t) PROVE JMSBounded'
  <2>1. borrowed' = [borrowed EXCEPT ![t] = borrowed[t]] /\ UNCHANGED available
    BY <1>5 DEF Renew, Hand
  <2>2. Cardinality(JMSHolders') = n
    BY <2>1, BorrowersMove
  <2> QED
    BY <1>0, <2>1, <2>2 DEF JMSBounded
<1>6. ASSUME NEW t \in Borrowers, RenewFails(t) PROVE JMSBounded'
  <2>1. borrowed' = [borrowed EXCEPT ![t] = NoHandle] /\ UNCHANGED available /\ borrowed[t] # NoHandle
    BY <1>b, <1>6 DEF RenewFails
  <2>2. Cardinality(JMSHolders') = n - 1
    BY <2>1, BorrowersMove
  <2> QED
    BY <1>0, <2>1, <2>2 DEF JMSBounded
<1>7. ASSUME NEW t \in Borrowers, Grow(t) PROVE JMSBounded'
  <2>1. /\ NewHandle \in Handles /\ available = <<>> /\ UNCHANGED available
        /\ borrowed' = [borrowed EXCEPT ![t] = NewHandle] /\ borrowed[t] = NoHandle
    BY <1>b, <1>7 DEF Grow, Hand, NewHandle
  <2>2. Cardinality(JMSHolders') = n + 1
    BY <2>1, BorrowersMove, JMSPoolAssumption
  <2>3. JMSHolders = Using
    <3>1. \A u \in Borrowers : place[u] # "reconnecting"
      BY <1>7 DEF Grow, JMSFormed, JMSLinked, Entered
    <3> QED
      BY <1>b, <3>1 DEF JMSHolders, Using
  <2>4. n < MaxTotal
    BY <1>7, <2>3, InUseCounts DEF Grow
  <2>5. Len(available') = 0
    BY <2>1, EmptySeq
  <2>6. n + 1 <= JMSPoolLimit
    BY <1>0, <2>4, LimitType, JMSPoolAssumption
  <2> QED
    BY <1>0, <2>2, <2>5, <2>6 DEF JMSBounded
<1>8. ASSUME NEW t \in Borrowers, GiveBack(t) PROVE JMSBounded'
  <2>1. borrowed' = [borrowed EXCEPT ![t] = NoHandle] /\ borrowed[t] # NoHandle
    BY <1>b, <1>8 DEF GiveBack
  <2>2. Cardinality(JMSHolders') = n - 1
    BY <2>1, BorrowersMove
  <2>3. available' = Append(available, borrowed[t]) \/ available' = available
    BY <1>8 DEF GiveBack
  <2>4. borrowed[t] \in Handles
    BY <2>1 DEF JMSFormed, JMSPoolTypeOK
  <2>5. Len(Append(available, borrowed[t])) = Len(available) + 1
    BY <1>0, <2>4, AppendProperties
  <2> QED
    BY <1>0, <2>2, <2>3, <2>5 DEF JMSBounded
<1>9. ASSUME NEW c \in Clients, LinkBreaks(c) PROVE JMSBounded'
  BY <1>9, <1>a DEF LinkBreaks
<1>10. ASSUME ClosePool PROVE JMSBounded'
  <2>1. Len(available') = 0
    BY <1>10, EmptySeq DEF ClosePool
  <2>2. Cardinality(JMSHolders') = n
    BY <1>10 DEF ClosePool, JMSHolders
  <2> QED
    BY <1>0, <2>1, <2>2 DEF JMSBounded
<1>11. ASSUME CloseRegistered \/ UNCHANGED jmsVars PROVE JMSBounded'
  BY <1>11, <1>a DEF CloseRegistered, jmsVars
<1> QED
  BY <1>1, <1>2, <1>3, <1>4, <1>5, <1>6, <1>7, <1>8, <1>9, <1>10, <1>11
     DEF JMSNext, GetConnection

LEMMA JMSAlwaysBounded == JMSSpec => [](JMSFormed /\ JMSOwned /\ JMSBounded)
  BY JMSAlways, JMSBoundedInit, JMSBoundedStep, PTL DEF JMSSpec

(***************************************************************************)
(* Refinement: the pool implements the lease for its handles, with any     *)
(* factory.                                                                *)
(***************************************************************************)

HandleLoan == [t \in Borrowers |-> IF place[t] = "using" THEN borrowed[t] ELSE NoHandle]

LEMMA HandleCardinality == \A S : HandleLease!Cardinality(S) = Cardinality(S)
  BY DEF Cardinality, HandleLease!Cardinality

\* What a step does to the loans: a borrower that had none gets a handle that
\* nobody has, one gives its handle back, or the loans stay as they are.
LEMMA LoanSteps ==
  ASSUME JMSFormed, JMSOwned, JMSBounded', [JMSNext]_jmsVars
  PROVE  \/ \E t \in Borrowers, h \in Handles :
               /\ place[t] # "using" /\ \A u \in Using : borrowed[u] # h
               /\ HandleLoan' = [HandleLoan EXCEPT ![t] = h]
               /\ Cardinality(Using) < JMSPoolLimit
         \/ \E t \in Using : HandleLoan' = [HandleLoan EXCEPT ![t] = NoHandle]
         \/ HandleLoan' = HandleLoan
<1> DEFINE Lends(t, h) ==
               /\ place[t] # "using" /\ \A u \in Using : borrowed[u] # h
               /\ HandleLoan' = [HandleLoan EXCEPT ![t] = h]
               /\ Cardinality(Using) < JMSPoolLimit
<1>0. /\ \A t \in Borrowers : borrowed[t] = NoHandle <=> place[t] \notin {"reconnecting", "using"}
      /\ place \in [Borrowers -> {"out", "asking", "inside", "reconnecting", "waiting", "late", "using"}]
      /\ borrowed \in [Borrowers -> Handles \cup {NoHandle}]
      /\ \A t \in Using : t \in Borrowers /\ borrowed[t] \in Handles
  BY DEF JMSFormed, JMSLinked, JMSPoolTypeOK, Using
\* Whoever uses a handle goes on doing so.
<1>a. ASSUME Using' = Using, \A u \in Using : borrowed'[u] = borrowed[u]
      PROVE  HandleLoan' = HandleLoan
  BY <1>a DEF HandleLoan, Using
\* A borrower in the section under the lock gets a handle.
<1>b. ASSUME NEW t \in Borrowers, NEW h \in Handles, Hand(t, h),
             place[t] \in {"inside", "reconnecting"}, \A u \in Using : borrowed[u] # h
      PROVE  Lends(t, h)
  <2>1. Using' = Using \cup {t} /\ t \notin Using
    BY <1>b, JMSHands DEF Using
  <2>2. HandleLoan' = [HandleLoan EXCEPT ![t] = h]
    BY <1>0, <1>b DEF Hand, MoveTo, HandleLoan, Using
  <2>3. Using' \subseteq JMSHolders'
    BY <1>0, <1>b, JMSPoolAssumption DEF Hand, MoveTo, Using, JMSHolders
  <2>4. /\ IsFiniteSet(Using) /\ IsFiniteSet(JMSHolders')
        /\ Cardinality(Using) \in Nat /\ Cardinality(JMSHolders') \in Nat
    BY BorrowersFinite DEF Using, JMSHolders
  <2>5. Cardinality(Using') = Cardinality(Using) + 1
    BY <2>1, <2>4, FS_AddElement
  <2>6. Cardinality(Using') <= Cardinality(JMSHolders')
    BY <2>3, <2>4, FS_Subset
  <2>7. Len(available') \in Nat /\ Len(available') + Cardinality(JMSHolders') <= JMSPoolLimit
    <3>1. JMSFormed'
      BY JMSFormedStep
    <3> QED
      BY <3>1, LenProperties DEF JMSFormed, JMSPoolTypeOK, JMSBounded
  <2>8. Cardinality(Using) < JMSPoolLimit
    BY <2>4, <2>5, <2>6, <2>7, LimitType
  <2> QED
    BY <1>b, <2>2, <2>8
<1> HIDE DEF Lends
<1> USE DEF MoveTo
<1>c. ASSUME NEW t \in Borrowers, NEW there, place' = [place EXCEPT ![t] = there],
             place[t] # "using", there # "using", \A u \in Using : borrowed'[u] = borrowed[u]
      PROVE  HandleLoan' = HandleLoan
  <2>1. Using' = Using
    BY <1>0, <1>c DEF Using
  <2> QED
    BY <1>a, <1>c, <2>1
<1>1. ASSUME NEW t \in Borrowers, Call(t) \/ TakeMonitor(t) \/ Wait(t) \/ TimesOut(t) \/ GiveUp(t)
      PROVE  HandleLoan' = HandleLoan
  BY <1>1, <1>c DEF Call, TakeMonitor, Wait, TimesOut, GiveUp
<1>2. ASSUME NEW t \in Borrowers, Expire(t) \/ Invalidate(t) PROVE HandleLoan' = HandleLoan
  BY <1>2, <1>a DEF Expire, Invalidate, Using
<1>3. ASSUME NEW t \in Borrowers, Pop(t)
      PROVE  HandleLoan' = HandleLoan \/ \E h \in Handles : Lends(t, h)
  <2>1. Head(available) \in Handles /\ Head(available) \in IdleHandles
    BY <1>3, DistinctTail, IdleElements DEF Pop, JMSOwned, JMSFormed, JMSPoolTypeOK
  <2>2. PICK h \in Handles : h = Head(available) /\ h \in IdleHandles
    BY <2>1
  <2>3. place[t] = "inside" /\ \A u \in Using : borrowed[u] # h
    BY <1>0, <1>3, <2>2 DEF Pop, JMSOwned
  <2>4. CASE Hand(t, h)
    BY <1>b, <2>3, <2>4
  <2>5. CASE borrowed' = [borrowed EXCEPT ![t] = h] /\ MoveTo(t, "reconnecting")
    <3>1. \A u \in Using : borrowed'[u] = borrowed[u]
      BY <1>0, <2>3, <2>5 DEF Using
    <3> QED
      BY <1>c, <2>3, <2>5, <3>1
  <2> QED
    BY <1>3, <2>2, <2>4, <2>5 DEF Pop
<1>4. ASSUME NEW t \in Borrowers, Renew(t) PROVE \E h \in Handles : Lends(t, h)
  <2>1. borrowed[t] \in Handles /\ \A u \in Using : borrowed[u] # borrowed[t]
    BY <1>0, <1>4 DEF Renew, JMSOwned, Using
  <2>2. Hand(t, borrowed[t]) /\ place[t] = "reconnecting"
    BY <1>4 DEF Renew
  <2> QED
    BY <1>b, <2>1, <2>2
<1>5. ASSUME NEW t \in Borrowers, RenewFails(t) PROVE HandleLoan' = HandleLoan
  <2>1. \A u \in Using : borrowed'[u] = borrowed[u]
    BY <1>0, <1>5 DEF RenewFails, Using
  <2> QED
    BY <1>5, <1>c, <2>1 DEF RenewFails
<1>6. ASSUME NEW t \in Borrowers, Grow(t) PROVE \E h \in Handles : Lends(t, h)
  <2>1. PICK h \in Handles : h = NewHandle /\ client[h] = NoClient
    BY <1>6 DEF Grow, NewHandle
  <2>2. \A u \in Using : borrowed[u] # h
    BY <1>0, <2>1 DEF JMSOwned
  <2>3. Hand(t, h) /\ place[t] = "inside"
    BY <1>6, <2>1 DEF Grow
  <2> QED
    BY <1>b, <2>2, <2>3
<1>7. ASSUME NEW t \in Borrowers, GiveBack(t)
      PROVE  t \in Using /\ HandleLoan' = [HandleLoan EXCEPT ![t] = NoHandle]
  <2>1. t \in Using
    BY <1>7 DEF GiveBack, Using
  <2>2. place' = Notified(t) /\ borrowed' = [borrowed EXCEPT ![t] = NoHandle]
    BY <1>7 DEF GiveBack
  <2>3. \A u \in Borrowers : place'[u] = "using" <=> place[u] = "using" /\ u # t
    BY <1>0, <2>2 DEF Notified
  <2>4. \A u \in Borrowers \ {t} : borrowed'[u] = borrowed[u]
    BY <1>0, <2>2
  <2>5. ASSUME NEW u \in Borrowers
        PROVE  HandleLoan'[u] = IF u = t THEN NoHandle ELSE HandleLoan[u]
    BY <2>3, <2>4 DEF HandleLoan
  <2> QED
    BY <2>1, <2>5 DEF HandleLoan
<1>8. ASSUME NEW c \in Clients, LinkBreaks(c) PROVE HandleLoan' = HandleLoan
  BY <1>8, <1>a DEF LinkBreaks, Using
<1>9. ASSUME ClosePool \/ CloseRegistered \/ UNCHANGED jmsVars PROVE HandleLoan' = HandleLoan
  BY <1>9, <1>a DEF ClosePool, CloseRegistered, jmsVars, Using
<1>10. \/ \E t \in Borrowers, h \in Handles : Lends(t, h)
       \/ \E t \in Using : HandleLoan' = [HandleLoan EXCEPT ![t] = NoHandle]
       \/ HandleLoan' = HandleLoan
  BY <1>1, <1>2, <1>3, <1>4, <1>5, <1>6, <1>7, <1>8, <1>9 DEF JMSNext, GetConnection
<1> QED
  BY <1>10 DEF Lends

\* What the borrowers that use a handle have on loan.
LEMMA LoansOfUsers ==
  ASSUME JMSFormed, JMSOwned
  PROVE  /\ \A t \in Using : t \in Borrowers /\ HandleLoan[t] \in Handles
         /\ \A t \in Borrowers \ Using : HandleLoan[t] = NoHandle
         /\ HandleLease!Loaned = Using
<1>1. ASSUME NEW t \in Using PROVE t \in Borrowers /\ HandleLoan[t] \in Handles
  BY DEF Using, JMSFormed, JMSLinked, JMSPoolTypeOK, HandleLoan
<1>2. \A t \in Borrowers \ Using : HandleLoan[t] = NoHandle
  BY DEF Using, HandleLoan
<1>3. HandleLease!Loaned = Using
  BY <1>1, <1>2, JMSPoolAssumption DEF HandleLease!Loaned, HandleLoan, Using
<1> QED
  BY <1>1, <1>2, <1>3

LEMMA HandleLeaseInit == JMSInit => HandleLease!Init
  BY DEF JMSInit, HandleLease!Init

LEMMA HandleLeaseStep ==
  JMSFormed /\ JMSOwned /\ JMSBounded' /\ [JMSNext]_jmsVars
    => [HandleLease!Next]_([t \in Borrowers |-> IF place[t] = "using" THEN borrowed[t] ELSE NoHandle])
<1> SUFFICES ASSUME JMSFormed, JMSOwned, JMSBounded', [JMSNext]_jmsVars
             PROVE  HandleLease!Next \/ HandleLoan' = HandleLoan
  BY DEF HandleLoan
<1>1. ASSUME NEW t \in Borrowers, NEW h \in Handles,
             place[t] # "using", \A u \in Using : borrowed[u] # h,
             HandleLoan' = [HandleLoan EXCEPT ![t] = h], Cardinality(Using) < JMSPoolLimit
      PROVE  HandleLease!Lend(t, h)
  <2>1. HandleLoan[t] = NoHandle /\ \A u \in Borrowers : HandleLoan[u] # h
    BY <1>1, JMSPoolAssumption DEF HandleLoan, Using
  <2>2. HandleLease!Cardinality(HandleLease!Loaned) < JMSPoolLimit
    BY <1>1, LoansOfUsers, HandleCardinality
  <2> QED
    BY <1>1, <2>1, <2>2 DEF HandleLease!Lend, HandleLoan
<1>2. ASSUME NEW t \in Using, HandleLoan' = [HandleLoan EXCEPT ![t] = NoHandle]
      PROVE  t \in Borrowers /\ HandleLease!Return(t)
  BY <1>2, LoansOfUsers, JMSPoolAssumption DEF HandleLease!Return, HandleLoan
<1> QED
  BY <1>1, <1>2, LoanSteps DEF HandleLease!Next

\* Whatever the factory does, a handle is lent to one borrower at a time and
\* no more than the pool's limit are lent at once.
THEOREM PoolLendsHandlesOnce == JMSSpec => ImplementsHandleLease
<1>1. JMSInit => HandleLease!Init
  BY HandleLeaseInit
<1>2. JMSFormed /\ JMSOwned /\ JMSBounded' /\ [JMSNext]_jmsVars
        => [HandleLease!Next]_([t \in Borrowers |-> IF place[t] = "using" THEN borrowed[t] ELSE NoHandle])
  BY HandleLeaseStep
<1> QED
  BY <1>1, <1>2, JMSAlwaysBounded, PTL DEF JMSSpec, ImplementsHandleLease, HandleLease!Spec

\* Type correctness.
THEOREM JMSPoolTypes == JMSSpec => []JMSPoolTypeOK
<1>1. JMSFormed => JMSPoolTypeOK
  BY DEF JMSFormed
<1> QED
  BY <1>1, JMSAlways, PTL
=============================================================================
