----------------------------- MODULE BulkProofs -----------------------------
(***************************************************************************)
(* Theorems about the requests for sends and tests, for any definitions,   *)
(* requests, repetitions and workers: a completed send reports what it     *)
(* sent, concurrent sends keep to their limits, saved rows and statistics  *)
(* add up, and pages show each row once.                                   *)
(***************************************************************************)
EXTENDS BulkRequests, SumTheorems, SequenceTheorems

(***************************************************************************)
(* One send.  The inductive invariant says how far its report and what it  *)
(* handed over have come, by where the coroutine is: equal below the       *)
(* current item, through it while it is delayed, and one message apart     *)
(* while an HTTP answer is awaited.                                        *)
(***************************************************************************)

Statuses == {"PENDING", "COMPLETED", "FAILED", "SKIPPED"}
SendType == [def: DOMAIN Definitions \cup {NotBegun.def}, at: Nat,
             pc: {"idle", "item", "done"} \cup Awaiting, told: Seq(Nat), status: Statuses]

Times(given, n) == {i \in DOMAIN given : given[i] = n}
Silent(d, n)    == Definitions[d].items[n].type = "kafka"
Limit(d, n)     == IF Definitions[d].items[n].duplicate THEN 2 ELSE 1
Faithful(d, told, given) ==
    /\ \A i, j \in DOMAIN given : i < j => given[i] <= given[j]
    /\ \A i \in DOMAIN given : \E j \in DOMAIN told : told[j] = given[i]
    /\ \A j \in DOMAIN told : Silent(d, told[j]) \/ \E i \in DOMAIN given : given[i] = told[j]
    /\ \A i, j \in DOMAIN told : i < j => told[i] < told[j]
    /\ \A i \in DOMAIN given : Cardinality(Times(given, given[i])) <= Limit(d, given[i])
Below(told, given, b) == /\ \A i \in DOMAIN given : given[i] < b
                         /\ \A i \in DOMAIN told : told[i] < b
Fits(s, given, b)     == Faithful(s.def, s.told, given) /\ Below(s.told, given, b)
Given(before, n, k)   == before \o [i \in 1..k |-> n]

RunTruth(s, given) ==
    /\ s \in SendType /\ given \in Seq(Nat)
    /\ s.pc = "idle" => s = NotBegun /\ given = <<>>
    /\ s.pc # "idle" => s.def \in DOMAIN Definitions
    /\ s.pc \notin {"idle", "done"} => s.at \in 1..Len(Items(s)) /\ s.status = "PENDING"
    /\ s.pc \in {"item", "latency"} => Fits(s, given, s.at)
    /\ s.pc = "delay" => Fits(s, given, s.at + 1)
    /\ s.pc = "answer" => \E before \in Seq(Nat) :
           given = Given(before, s.at, 1) /\ Fits(s, before, s.at)
    /\ s.status = "COMPLETED" => Faithful(s.def, s.told, given)

Truth == /\ send = [x \in Runs |-> send[x]] /\ sent = [x \in Runs |-> sent[x]]
         /\ \A x \in Runs : RunTruth(send[x], sent[x])

LEMMA TruthIsReport == Truth => ReportIsTrue
  BY DEF Truth, RunTruth, Faithful, Silent, Times, Limit, ReportIsTrue, Items

LEMMA NotBegunTyped == NotBegun \in SendType /\ NotBegun.pc = "idle" /\ NotBegun.status = "PENDING"
                       /\ NotBegun.told = <<>> /\ NotBegun.at = 0
<1>1. <<>> \in Seq(Nat)
  BY EmptySeq
<1> QED
  BY <1>1 DEF NotBegun, SendType, Statuses

LEMMA NothingFits == ASSUME NEW d, NEW b \in Nat PROVE Faithful(d, <<>>, <<>>) /\ Below(<<>>, <<>>, b)
<1>1. DOMAIN <<>> = {}
  OBVIOUS
<1> QED
  BY <1>1 DEF Faithful, Below

LEMMA ItemsTyped ==
  ASSUME NEW s, s.def \in DOMAIN Definitions
  PROVE  Items(s) \in Seq(Item) /\ Len(Items(s)) \in Nat
<1>1. Items(s) \in Seq(Item)
  BY SendAssumption DEF Items
<1> QED
  BY <1>1, LenProperties

\* No message, one or two of the same item are handed over.
IsGiven(g, before, n, k) ==
    /\ g \in Seq(Nat) /\ DOMAIN g = 1..(Len(before) + k)
    /\ \A i \in 1..Len(before) : g[i] = before[i]
    /\ \A i \in (Len(before) + 1)..(Len(before) + k) : g[i] = n

LEMMA GivenIs ==
  ASSUME NEW before \in Seq(Nat), NEW n \in Nat, NEW k \in 0..2
  PROVE  IsGiven(Given(before, n, k), before, n, k)
<1> DEFINE more == [i \in 1..k |-> n]
<1>1. k \in Nat
  OBVIOUS
<1>2. more \in Seq(Nat)
  BY <1>1, IsASeq
<1>3. Len(more) = k
  <2>1. DOMAIN more = 1..k
    OBVIOUS
  <2> QED
    BY <1>1, <1>2, <2>1, LenProperties
<1>4. PICK l \in Nat : l = Len(before)
  BY LenProperties
<1>5. Given(before, n, k) \in Seq(Nat) /\ Len(Given(before, n, k)) = l + k
  BY <1>2, <1>3, <1>4, ConcatProperties DEF Given
<1>6. \A i \in 1..(l + k) : Given(before, n, k)[i] = IF i <= l THEN before[i] ELSE more[i - l]
  BY <1>2, <1>3, <1>4, ConcatProperties DEF Given
<1>7. ASSUME NEW i \in (l + 1)..(l + k) PROVE Given(before, n, k)[i] = n
  <2>1. i \in 1..(l + k) /\ ~ (i <= l) /\ i - l \in 1..k
    BY <1>1, <1>4, <1>7
  <2>2. more[i - l] = n
    BY <2>1
  <2> QED
    BY <1>6, <2>1, <2>2
<1>8. ASSUME NEW i \in 1..l PROVE Given(before, n, k)[i] = before[i]
  <2>1. i \in 1..(l + k) /\ i <= l
    BY <1>1, <1>4, <1>8
  <2> QED
    BY <1>6, <2>1
<1>9. DOMAIN Given(before, n, k) = 1..(l + k)
  BY <1>5, LenProperties
<1>10. IsGiven(Given(before, n, k), before, n, k)
  BY <1>4, <1>5, <1>7, <1>8, <1>9 DEF IsGiven
<1> QED
  BY <1>10

\* The report catches up with what was handed over.
LEMMA ReportCatchesUp ==
  ASSUME NEW d, NEW told \in Seq(Nat), NEW before \in Seq(Nat), NEW n \in Nat, NEW k \in 0..2,
         Faithful(d, told, before), Below(told, before, n), k <= Limit(d, n), k = 0 => Silent(d, n)
  PROVE  /\ Faithful(d, Append(told, n), Given(before, n, k))
         /\ Below(Append(told, n), Given(before, n, k), n + 1)
<1> DEFINE g == Given(before, n, k)
           t == Append(told, n)
<1>1. PICK l \in Nat : l = Len(before) /\ DOMAIN before = 1..l
  BY LenProperties
<1>2. PICK m \in Nat : m = Len(told) /\ DOMAIN told = 1..m
  BY LenProperties
<1>3. /\ DOMAIN g = 1..(l + k)
      /\ \A i \in 1..l : g[i] = before[i]
      /\ \A i \in (l + 1)..(l + k) : g[i] = n
  <2>1. IsGiven(g, before, n, k)
    BY GivenIs
  <2> HIDE DEF g
  <2> QED
    BY <1>1, <2>1 DEF IsGiven
<1>4. /\ t \in Seq(Nat) /\ Len(t) = m + 1
      /\ \A i \in 1..m : t[i] = told[i]
      /\ t[m + 1] = n
  BY <1>2, AppendProperties
<1>5. DOMAIN t = 1..(m + 1)
  BY <1>4, LenProperties
<1>6. \A i \in 1..l : before[i] \in Nat /\ before[i] < n
  BY <1>1, ElementOfSeq DEF Below
<1>7. \A i \in 1..m : told[i] \in Nat /\ told[i] < n
  BY <1>2, ElementOfSeq DEF Below
<1>8. \A i \in 1..(l + k) : i \in 1..l \/ (i \in (l + 1)..(l + k) /\ ~ (i <= l))
  BY <1>1
<1>9. \A i \in 1..(m + 1) : i \in 1..m \/ i = m + 1
  BY <1>2
<1>10. (k # 0 => l + 1 \in (l + 1)..(l + k) /\ l + 1 \in 1..(l + k)) /\ m + 1 \in 1..(m + 1)
       /\ 1..l \subseteq 1..(l + k) /\ (l + 1)..(l + k) \subseteq 1..(l + k) /\ 1..m \subseteq 1..(m + 1)
  BY <1>1, <1>2
<1> HIDE DEF g, t
<1>11. Below(t, g, n + 1)
  <2>1. \A v \in Nat : v < n \/ v = n => v < n + 1
    OBVIOUS
  <2>2. \A i \in 1..(l + k) : g[i] \in Nat /\ (g[i] < n \/ g[i] = n)
    BY <1>3, <1>6, <1>8
  <2>3. \A i \in 1..(m + 1) : t[i] \in Nat /\ (t[i] < n \/ t[i] = n)
    BY <1>4, <1>7, <1>9
  <2> QED
    BY <1>3, <1>5, <2>1, <2>2, <2>3 DEF Below
<1>12. \A i, j \in DOMAIN g : i < j => g[i] <= g[j]
  <2> SUFFICES ASSUME NEW i \in 1..(l + k), NEW j \in 1..(l + k), i < j
               PROVE  g[i] <= g[j]
    BY <1>3
  <2>1. CASE j \in 1..l
    <3>1. i \in 1..l
      BY <1>1, <2>1
    <3> QED
      BY <1>1, <1>3, <2>1, <3>1 DEF Faithful
  <2>2. CASE j \in (l + 1)..(l + k)
    BY <1>3, <1>6, <1>8, <2>2
  <2> QED
    BY <1>8, <2>1, <2>2
<1>13. /\ \A i \in DOMAIN g : \E j \in DOMAIN t : t[j] = g[i]
       /\ \A j \in DOMAIN t : Silent(d, t[j]) \/ \E i \in DOMAIN g : g[i] = t[j]
  <2>1. ASSUME NEW i \in 1..(l + k) PROVE \E j \in 1..(m + 1) : t[j] = g[i]
    <3>1. CASE i \in 1..l
      <4>1. PICK j \in 1..m : told[j] = before[i]
        BY <1>1, <1>2, <3>1 DEF Faithful
      <4> QED
        BY <1>3, <1>4, <1>10, <3>1, <4>1
    <3>2. CASE i \in (l + 1)..(l + k)
      BY <1>3, <1>4, <1>10, <3>2
    <3> QED
      BY <1>8, <3>1, <3>2
  <2>2. ASSUME NEW j \in 1..(m + 1), ~Silent(d, t[j]) PROVE \E i \in 1..(l + k) : g[i] = t[j]
    <3>1. CASE j \in 1..m
      <4>1. t[j] = told[j]
        BY <1>4, <3>1
      <4>2. PICK i \in 1..l : before[i] = told[j]
        BY <1>1, <1>2, <2>2, <3>1, <4>1 DEF Faithful
      <4> QED
        BY <1>3, <1>10, <4>1, <4>2
    <3>2. CASE j = m + 1
      <4>1. k # 0
        BY <1>4, <2>2, <3>2
      <4> QED
        BY <1>3, <1>4, <1>10, <3>2, <4>1
    <3> QED
      BY <1>9, <3>1, <3>2
  <2> QED
    BY <1>3, <1>5, <2>1, <2>2
<1>14. \A i, j \in DOMAIN t : i < j => t[i] < t[j]
  <2> SUFFICES ASSUME NEW i \in 1..(m + 1), NEW j \in 1..(m + 1), i < j
               PROVE  t[i] < t[j]
    BY <1>5
  <2>1. i \in 1..m
    BY <1>2
  <2>2. CASE j \in 1..m
    BY <1>2, <1>4, <2>1, <2>2 DEF Faithful
  <2>3. CASE j = m + 1
    BY <1>4, <1>7, <2>1, <2>3
  <2> QED
    BY <1>9, <2>2, <2>3
<1>15. \A i \in DOMAIN g : Cardinality(Times(g, g[i])) <= Limit(d, g[i])
  <2> SUFFICES ASSUME NEW i \in 1..(l + k)
               PROVE  Cardinality(Times(g, g[i])) <= Limit(d, g[i])
    BY <1>3
  <2>1. CASE i \in 1..l
    <3>1. g[i] = before[i] /\ g[i] # n
      BY <1>3, <1>6, <2>1
    <3>2. \A j : j \in Times(g, g[i]) <=> j \in Times(before, before[i])
      BY <1>1, <1>3, <1>8, <1>10, <3>1 DEF Times
    <3>3. Times(g, g[i]) = Times(before, before[i])
      BY <3>2 DEF Times
    <3> QED
      BY <1>1, <2>1, <3>1, <3>3 DEF Faithful
  <2>2. CASE i \in (l + 1)..(l + k)
    <3>1. g[i] = n
      BY <1>3, <2>2
    <3>2. \A j \in 1..l : g[j] # n
      BY <1>3, <1>6
    <3>3. Times(g, n) = (l + 1)..(l + k)
      BY <1>3, <1>8, <1>10, <3>2 DEF Times
    <3>4. Cardinality((l + 1)..(l + k)) = k
      <4>1. l + 1 \in Int /\ l + k \in Int /\ ~ (l + 1 > l + k) /\ (l + k) - (l + 1) + 1 = k
        BY <1>1, <2>2
      <4> QED
        BY <4>1, FS_Interval
    <3> QED
      BY <3>1, <3>3, <3>4
  <2> QED
    BY <1>8, <2>1, <2>2
<1>16. Faithful(d, t, g)
  BY <1>12, <1>13, <1>14, <1>15 DEF Faithful
<1> QED
  BY <1>11, <1>16 DEF g, t

-----------------------------------------------------------------------------
(* What the coroutine may become.                                          *)

LEMMA BeyondIsTrue ==
  ASSUME NEW s \in SendType, s.def \in DOMAIN Definitions, s.at \in 0..Len(Items(s)),
         s.status = "PENDING", NEW given \in Seq(Nat), Fits(s, given, s.at + 1)
  PROVE  RunTruth(Beyond(s), given)
<1>1. Len(Items(s)) \in Nat
  BY ItemsTyped
<1>2. CASE s.at = Len(Items(s))
  <2>1. Beyond(s) = [s EXCEPT !.pc = "done", !.status = "COMPLETED"]
    BY <1>2 DEF Beyond
  <2>2. /\ Beyond(s) \in SendType /\ Beyond(s).pc = "done" /\ Beyond(s).def = s.def
        /\ Beyond(s).told = s.told
    BY <2>1 DEF SendType, Statuses
  <2> QED
    BY <2>2 DEF RunTruth, Fits
<1>3. CASE s.at # Len(Items(s))
  <2>1. Beyond(s) = [s EXCEPT !.pc = "item", !.at = @ + 1] /\ s.at + 1 \in Nat
    BY <1>1, <1>3 DEF Beyond
  <2>2. /\ Beyond(s) \in SendType /\ Beyond(s).pc = "item" /\ Beyond(s).def = s.def
        /\ Beyond(s).told = s.told /\ Beyond(s).at = s.at + 1 /\ Beyond(s).status = "PENDING"
    BY <2>1 DEF SendType, Statuses
  <2>3. Items(Beyond(s)) = Items(s)
    BY <2>2 DEF Items
  <2>4. s.at + 1 \in 1..Len(Items(s))
    BY <1>1, <1>3
  <2> QED
    BY <2>2, <2>3, <2>4 DEF RunTruth, Fits
<1> QED
  BY <1>2, <1>3

LEMMA ToldIsTrue ==
  ASSUME NEW s \in SendType, s.def \in DOMAIN Definitions, s.at \in 1..Len(Items(s)),
         s.status = "PENDING", NEW before \in Seq(Nat), Fits(s, before, s.at),
         NEW k \in 0..2, k = 2 => Items(s)[s.at].duplicate,
         k = 0 => Items(s)[s.at].type = "kafka"
  PROVE  RunTruth(Told(s), Given(before, s.at, k))
<1> DEFINE t == [s EXCEPT !.told = Append(@, s.at)]
           g == Given(before, s.at, k)
<1>1. s.told \in Seq(Nat) /\ s.at \in Nat
  BY DEF SendType
<1>2. Append(s.told, s.at) \in Seq(Nat)
  BY <1>1, AppendProperties
<1>3. /\ t \in SendType /\ t.def = s.def /\ t.at = s.at /\ t.status = "PENDING"
      /\ t.told = Append(s.told, s.at)
  BY <1>2 DEF SendType
<1>4. k <= Limit(s.def, s.at) /\ (k = 0 => Silent(s.def, s.at))
  BY DEF Limit, Silent, Items
<1>5. Fits(t, g, t.at + 1)
  BY <1>1, <1>3, <1>4, ReportCatchesUp DEF Fits
<1>6. g \in Seq(Nat)
  BY <1>1, GivenIs DEF IsGiven
<1>7. Items(t) = Items(s) /\ Len(Items(s)) \in Nat
  BY <1>3, ItemsTyped DEF Items
<1>8. t.at \in 0..Len(Items(t))
  BY <1>3, <1>7
<1>9. RunTruth(Beyond(t), g)
  <2> HIDE DEF t, g
  <2> QED
    BY <1>3, <1>5, <1>6, <1>8, BeyondIsTrue
<1>10. RunTruth([t EXCEPT !.pc = "delay"], g)
  <2> DEFINE w == [t EXCEPT !.pc = "delay"]
  <2> HIDE DEF t, g
  <2>1. /\ w \in SendType /\ w.def = t.def /\ w.at = t.at /\ w.status = "PENDING"
        /\ w.told = t.told /\ w.pc = "delay"
    BY <1>3 DEF SendType, Awaiting
  <2>2. Items(w) = Items(t)
    BY <2>1 DEF Items
  <2> HIDE DEF w
  <2>3. t.at \in 1..Len(Items(t)) /\ t.def \in DOMAIN Definitions
    BY <1>3, <1>7
  <2>4. RunTruth(w, g)
    BY <1>5, <1>6, <2>1, <2>2, <2>3 DEF RunTruth, Fits
  <2> QED
    BY <2>4 DEF w
<1>11. Told(s) = IF Items(s)[s.at].delay THEN [t EXCEPT !.pc = "delay"] ELSE Beyond(t)
  BY DEF Told
<1> QED
  BY <1>9, <1>10, <1>11

LEMMA FailureIsTrue ==
  ASSUME NEW s \in SendType, s.def \in DOMAIN Definitions, NEW given \in Seq(Nat)
  PROVE  RunTruth([s EXCEPT !.pc = "done", !.status = "FAILED", !.told = <<>>], given)
<1> DEFINE f == [s EXCEPT !.pc = "done", !.status = "FAILED", !.told = <<>>]
<1>1. <<>> \in Seq(Nat)
  BY EmptySeq
<1>2. f \in SendType /\ f.pc = "done" /\ f.status = "FAILED" /\ f.def = s.def
  BY <1>1 DEF SendType, Statuses
<1> HIDE DEF f
<1>3. RunTruth(f, given)
  BY <1>2 DEF RunTruth
<1> QED
  BY <1>3 DEF f

-----------------------------------------------------------------------------
(* The steps of a send.                                                    *)

LEMMA TurnKeepsTruth ==
  ASSUME Truth, NEW x, NEW s, NEW given, Becomes(x, s), sent' = [sent EXCEPT ![x] = given],
         x \in Runs => RunTruth(s, given)
  PROVE  Truth'
<1>1. send' = [send EXCEPT ![x] = s]
  BY DEF Becomes
<1>2. /\ send' = [y \in Runs |-> IF y = x THEN s ELSE send[y]]
      /\ sent' = [y \in Runs |-> IF y = x THEN given ELSE sent[y]]
  BY <1>1 DEF Truth
<1>3. ASSUME NEW y \in Runs PROVE RunTruth(send'[y], sent'[y])
  BY <1>2 DEF Truth
<1>4. send' = [y \in Runs |-> send'[y]] /\ sent' = [y \in Runs |-> sent'[y]]
  BY <1>2
<1> QED
  BY <1>3, <1>4 DEF Truth

LEMMA QuietTurn ==
  ASSUME Truth, NEW x \in Runs, NEW s, Becomes(x, s), UNCHANGED sent, RunTruth(s, sent[x])
  PROVE  Truth'
<1>1. sent' = [sent EXCEPT ![x] = sent[x]]
  BY DEF Truth
<1> QED
  BY <1>1, TurnKeepsTruth

LEMMA LaterFits ==
  ASSUME NEW s \in SendType, NEW given \in Seq(Nat), NEW b \in Nat, Fits(s, given, b)
  PROVE  Fits(s, given, b + 1)
<1>1. \A v \in Nat : v < b => v < b + 1
  OBVIOUS
<1>2. \A i \in DOMAIN given : given[i] \in Nat
  BY LenProperties, ElementOfSeq
<1>3. \A i \in DOMAIN s.told : s.told[i] \in Nat
  BY LenProperties, ElementOfSeq DEF SendType
<1> QED
  BY <1>1, <1>2, <1>3 DEF Fits, Below

LEMMA SendStepIsTrue ==
  ASSUME Truth, NEW x \in Runs, SendStep(x)
  PROVE  Truth'
<1> DEFINE s == send[x]
           given == sent[x]
<1>1. RunTruth(s, given) /\ s.pc \notin {"idle", "done"}
  BY DEF Truth, SendStep
<1>2. /\ s \in SendType /\ given \in Seq(Nat) /\ s.def \in DOMAIN Definitions
      /\ s.at \in 1..Len(Items(s)) /\ s.status = "PENDING" /\ s.at \in Nat
      /\ s.at \in 0..Len(Items(s)) /\ ItemOf(x) = Items(s)[s.at]
  <2>1. s.def \in DOMAIN Definitions /\ s.at \in 1..Len(Items(s))
    BY <1>1 DEF RunTruth
  <2>2. Len(Items(s)) \in Nat
    BY <2>1, ItemsTyped
  <2>3. s.at \in 0..Len(Items(s)) /\ s.at \in Nat
    BY <2>1, <2>2
  <2> QED
    BY <1>1, <2>1, <2>3 DEF RunTruth, ItemOf
<1>3. ASSUME NEW n \in 0..2, HandOver(x, n)
      PROVE  sent' = [sent EXCEPT ![x] = Given(given, s.at, n)]
  BY <1>3 DEF HandOver, Given
<1>4. ASSUME Raises(x), UNCHANGED sent PROVE Truth'
  <2>1. RunTruth([s EXCEPT !.pc = "done", !.status = "FAILED", !.told = <<>>], given)
    BY <1>2, FailureIsTrue
  <2> QED
    BY <1>4, <2>1, QuietTurn DEF Raises
<1>5. s.pc \in {"item", "latency"} => Fits(s, given, s.at)
  BY <1>1 DEF RunTruth
<1>6. ASSUME Becomes(x, Beyond(s)), UNCHANGED sent, s.pc \in {"item", "latency", "delay"} PROVE Truth'
  <2>1. Fits(s, given, s.at + 1)
    BY <1>1, <1>2, <1>5, <1>6, LaterFits DEF RunTruth
  <2>2. RunTruth(Beyond(s), given)
    BY <1>2, <2>1, BeyondIsTrue
  <2> QED
    BY <1>6, <2>2, QuietTurn
<1>7. ASSUME Becomes(x, [s EXCEPT !.pc = "delay"]), UNCHANGED sent, s.pc = "item" PROVE Truth'
  <2> DEFINE w == [s EXCEPT !.pc = "delay"]
  <2>1. Fits(s, given, s.at + 1)
    BY <1>2, <1>5, <1>7, LaterFits
  <2>2. /\ w \in SendType /\ w.pc = "delay" /\ w.def = s.def /\ w.at = s.at /\ w.told = s.told
        /\ w.status = "PENDING"
    BY <1>2 DEF SendType, Awaiting
  <2>3. Items(w) = Items(s)
    BY <2>2 DEF Items
  <2> HIDE DEF w
  <2>4. RunTruth(w, given)
    BY <1>2, <2>1, <2>2, <2>3 DEF RunTruth, Fits
  <2>5. Becomes(x, w)
    BY <1>7 DEF w
  <2> QED
    BY <1>7, <2>4, <2>5, QuietTurn
<1>8. CASE Drop(x)
  BY <1>6, <1>8 DEF Drop, At
<1>9. CASE Sleep(x)
  <2> DEFINE w == [s EXCEPT !.pc = "latency"]
  <2>1. /\ w \in SendType /\ w.pc = "latency" /\ w.def = s.def /\ w.at = s.at /\ w.told = s.told
        /\ w.status = "PENDING"
    BY <1>2 DEF SendType, Awaiting
  <2>2. Items(w) = Items(s)
    BY <2>1 DEF Items
  <2>3. Becomes(x, w) /\ UNCHANGED sent /\ Fits(s, given, s.at)
    BY <1>5, <1>9 DEF Sleep, At
  <2> HIDE DEF w
  <2>4. RunTruth(w, given)
    BY <1>2, <2>1, <2>2, <2>3 DEF RunTruth, Fits
  <2> QED
    BY <2>3, <2>4, QuietTurn
<1>10. CASE Refuse(x)
  BY <1>4, <1>10 DEF Refuse
<1>11. CASE Produce(x) \/ Put(x)
  <2>1. Fits(s, given, s.at)
    BY <1>5, <1>11 DEF Produce, Put, At
  <2>2. ASSUME NEW n \in 0..2, HandOver(x, n), Becomes(x, Told(s)), n = 2 => ItemOf(x).duplicate,
               n = 0 => ItemOf(x).type = "kafka"
        PROVE  Truth'
    <3>1. RunTruth(Told(s), Given(given, s.at, n))
      BY <1>2, <2>1, <2>2, ToldIsTrue
    <3>2. sent' = [sent EXCEPT ![x] = Given(given, s.at, n)]
      BY <1>3, <2>2
    <3> QED
      BY <2>2, <3>1, <3>2, TurnKeepsTruth
  <2>3. ASSUME NEW n \in 0..2, HandOver(x, n), Raises(x) PROVE Truth'
    <3>1. Given(given, s.at, n) \in Seq(Nat)
      BY <1>2, GivenIs DEF IsGiven
    <3>2. RunTruth([s EXCEPT !.pc = "done", !.status = "FAILED", !.told = <<>>], Given(given, s.at, n))
      BY <1>2, <3>1, FailureIsTrue
    <3>3. sent' = [sent EXCEPT ![x] = Given(given, s.at, n)]
      BY <1>3, <2>3
    <3> QED
      BY <2>3, <3>2, <3>3, TurnKeepsTruth DEF Raises
  <2>4. \A n \in Copies(x) : n \in 0..2 /\ n # 0 /\ (n = 2 => ItemOf(x).duplicate)
    BY DEF Copies
  <2>5. CASE Produce(x)
    <3>1. ItemOf(x).type = "kafka" /\ Becomes(x, Told(s))
      BY <2>5 DEF Produce, At
    <3>2. PICK n \in {0} \cup Copies(x) : HandOver(x, n)
      BY <2>5 DEF Produce
    <3>3. n \in 0..2 /\ (n = 2 => ItemOf(x).duplicate)
      BY <2>4, <3>2
    <3> QED
      BY <2>2, <3>1, <3>2, <3>3
  <2>6. CASE Put(x)
    <3>1. PICK n \in Copies(x) : HandOver(x, n)
      BY <2>6 DEF Put
    <3>2. n \in 0..2 /\ n # 0 /\ (n = 2 => ItemOf(x).duplicate)
      BY <2>4, <3>1
    <3> QED
      BY <2>2, <2>3, <2>6, <3>1, <3>2 DEF Put
  <2> QED
    BY <1>11, <2>5, <2>6
<1>12. CASE Call(x)
  <2> DEFINE w == [s EXCEPT !.pc = "answer"]
             g == Given(given, s.at, 1)
  <2>1. /\ w \in SendType /\ w.pc = "answer" /\ w.def = s.def /\ w.at = s.at /\ w.told = s.told
        /\ w.status = "PENDING"
    BY <1>2 DEF SendType, Awaiting
  <2>2. Items(w) = Items(s)
    BY <2>1 DEF Items
  <2>3. Becomes(x, w) /\ HandOver(x, 1) /\ Fits(s, given, s.at)
    BY <1>5, <1>12 DEF Call, At
  <2>4. sent' = [sent EXCEPT ![x] = g] /\ g \in Seq(Nat)
    BY <1>2, <1>3, <2>3, GivenIs DEF IsGiven
  <2>5. g = Given(given, w.at, 1) /\ Fits(w, given, w.at)
    BY <2>1, <2>3 DEF Fits
  <2> HIDE DEF w, g
  <2>6. RunTruth(w, g)
    BY <1>2, <2>1, <2>2, <2>4, <2>5 DEF RunTruth
  <2> QED
    BY <2>3, <2>4, <2>6, TurnKeepsTruth
<1>13. CASE Answered(x)
  <2>1. s.pc = "answer" /\ UNCHANGED sent
    BY <1>13 DEF Answered, At
  <2>2. PICK before \in Seq(Nat) : given = Given(before, s.at, 1) /\ Fits(s, before, s.at)
    BY <1>1, <2>1 DEF RunTruth
  <2>3. RunTruth(Told(s), given)
    BY <1>2, <2>2, ToldIsTrue
  <2>4. CASE Becomes(x, Told(s))
    BY <2>1, <2>3, <2>4, QuietTurn
  <2> QED
    BY <1>4, <1>13, <2>1, <2>4 DEF Answered
<1>14. CASE Wake(x)
  BY <1>6, <1>14 DEF Wake, At
<1>15. CASE RunScript(x)
  BY <1>4, <1>6, <1>15 DEF RunScript, At
<1>16. CASE DBItem(x)
  BY <1>4, <1>6, <1>7, <1>16 DEF DBItem, At
<1> QED
  BY <1>8, <1>9, <1>10, <1>11, <1>12, <1>13, <1>14, <1>15, <1>16 DEF SendStep

LEMMA ElsewhereIsTrue ==
  ASSUME Truth, NEW x, x \notin Runs, SendStep(x)
  PROVE  Truth'
<1>1. \E s : Becomes(x, s)
  BY DEF SendStep, Drop, Sleep, Refuse, Produce, Put, Call, Answered, Wake, RunScript, DBItem, Raises
<1>2. \A g : [sent EXCEPT ![x] = g] = sent
  BY DEF Truth
<1>3. \E g : sent' = [sent EXCEPT ![x] = g]
  BY <1>2 DEF SendStep, Drop, Sleep, Refuse, Produce, Put, Call, Answered, Wake, RunScript, DBItem,
                 HandOver
<1> QED
  BY <1>1, <1>3, TurnKeepsTruth

LEMMA BeginIsTrue ==
  ASSUME Truth, NEW x, NEW d \in DOMAIN Definitions, Begin(x, d)
  PROVE  Truth'
<1> DEFINE s == [NotBegun EXCEPT !.def = d]
<1>1. /\ s \in SendType /\ s.def = d /\ s.at = 0 /\ s.status = "PENDING" /\ s.told = <<>>
  BY NotBegunTyped DEF SendType
<1>2. <<>> \in Seq(Nat) /\ Len(Items(s)) \in Nat
  BY <1>1, ItemsTyped, EmptySeq
<1>3. RunTruth(Beyond(s), <<>>)
  <2>1. s.at \in 0..Len(Items(s)) /\ s.at + 1 \in Nat
    BY <1>1, <1>2
  <2>2. Fits(s, <<>>, s.at + 1)
    BY <1>1, <2>1, NothingFits DEF Fits
  <2> HIDE DEF s
  <2> QED
    BY <1>1, <1>2, <2>1, <2>2, BeyondIsTrue
<1>4. RunTruth([s EXCEPT !.pc = "done", !.status = "SKIPPED"], <<>>)
  <2> DEFINE w == [s EXCEPT !.pc = "done", !.status = "SKIPPED"]
  <2>1. w \in SendType /\ w.pc = "done" /\ w.status = "SKIPPED" /\ w.def = d
    BY <1>1 DEF SendType, Statuses
  <2> HIDE DEF w
  <2>2. RunTruth(w, <<>>)
    BY <1>2, <2>1 DEF RunTruth
  <2> QED
    BY <2>2 DEF w
<1>5. PICK w : Becomes(x, w) /\ RunTruth(w, <<>>)
  BY <1>3, <1>4 DEF Begin
<1>6. CASE x \in Runs
  <2>1. sent[x] = <<>> /\ UNCHANGED sent
    BY <1>6, NotBegunTyped DEF Begin, Truth, RunTruth
  <2> QED
    BY <1>5, <1>6, <2>1, QuietTurn
<1>7. CASE x \notin Runs
  <2>1. sent' = [sent EXCEPT ![x] = <<>>]
    BY <1>7 DEF Begin, Truth
  <2> QED
    BY <1>5, <1>7, <2>1, TurnKeepsTruth
<1> QED
  BY <1>6, <1>7

LEMMA ForgetIsTrue ==
  ASSUME Truth, NEW X, Forget(X)
  PROVE  Truth'
<1>1. <<>> \in Seq(Nat)
  BY EmptySeq
<1>2. RunTruth(NotBegun, <<>>)
  BY <1>1, NotBegunTyped DEF RunTruth
<1>3. ASSUME NEW x \in Runs PROVE RunTruth(send'[x], sent'[x])
  BY <1>2 DEF Forget, Truth
<1>4. send' = [x \in Runs |-> send'[x]] /\ sent' = [x \in Runs |-> sent'[x]]
  BY DEF Forget
<1> QED
  BY <1>3, <1>4 DEF Truth

LEMMA TruthInit == SendInit => Truth
<1>1. <<>> \in Seq(Nat)
  BY EmptySeq
<1>2. RunTruth(NotBegun, <<>>)
  BY <1>1, NotBegunTyped DEF RunTruth
<1> QED
  BY <1>2 DEF SendInit, Truth

-----------------------------------------------------------------------------
(***************************************************************************)
(* Requests.  Numbers of runs follow the repetitions, so that a run of an  *)
(* earlier repetition has a smaller number.                                *)
(***************************************************************************)

Stages  == {"waiting", "running"} \cup Ended
ReqType == [kind: {"none", "tests", "sends", "job"}, parallel: BOOLEAN, workers: Nat, size: Nat,
            runs: Seq(DOMAIN Definitions \cup JobTests), state: Seq(Stages), answered: BOOLEAN]

ReqFormed(q) ==
    /\ q \in ReqType /\ DOMAIN q.state = DOMAIN q.runs
    /\ q.kind \in {"tests", "sends"} => q.runs \in Seq(DOMAIN Definitions)
    /\ q.kind = "sends" /\ DOMAIN q.runs # {} => q.size # 0
Formed == req = [r \in Requests |-> req[r]] /\ \A r \in Requests : ReqFormed(req[r])

Running(q)     == {i \in DOMAIN q.runs : q.state[i] = "running"}
Repetition(q, i) == (i - 1) \div q.size
InSequence(q)  == \A i, j \in DOMAIN q.runs : j < i /\ q.state[i] # "waiting" => q.state[j] \in Ended
InRepetitions(q) ==
    \A i, j \in DOMAIN q.runs :
        q.state[i] # "waiting" /\ Repetition(q, j) < Repetition(q, i) => q.state[j] \in Ended
Kept(q) == q.kind = "sends" =>
    /\ ~ q.parallel => InSequence(q)
    /\ q.parallel => Cardinality(Running(q)) <= q.workers
    /\ InRepetitions(q)
LimitsKept == \A r \in Requests : Kept(req[r])

LEMMA UnsentFormed == ReqFormed(Unsent) /\ Kept(Unsent)
<1>1. <<>> \in Seq(DOMAIN Definitions \cup JobTests) /\ <<>> \in Seq(DOMAIN Definitions)
      /\ <<>> \in Seq(Stages)
  BY EmptySeq
<1> QED
  BY <1>1 DEF Unsent, ReqFormed, ReqType, Kept

LEMMA Quotients ==
  ASSUME NEW k \in Nat \ {0}, NEW a \in Int
  PROVE  a \div k \in Int /\ k * (a \div k) <= a /\ a < k * (a \div k) + k
  OBVIOUS

LEMMA EarlierRepetition ==
  ASSUME NEW k \in Nat \ {0}, NEW i \in Nat, NEW j \in Nat, (j - 1) \div k < (i - 1) \div k
  PROVE  j < i
<1> DEFINE p == (i - 1) \div k
           q == (j - 1) \div k
<1>1. /\ p \in Int /\ q \in Int /\ q < p
      /\ k * p <= i - 1 /\ j - 1 < k * q + k
  BY Quotients
<1> HIDE DEF p, q
<1>2. PICK d \in Nat : p = q + 1 + d
  <2>1. p - q - 1 \in Nat
    BY <1>1
  <2> QED
    BY <1>1, <2>1
<1>3. k * p = k * q + k + k * d /\ k * d \in Nat /\ k * q \in Int
  BY <1>1, <1>2
<1> QED
  BY <1>1, <1>3

\* All repetitions of what was selected, one after the other.
LEMMA RepeatedTyped ==
  ASSUME NEW S, NEW ids \in Seq(S), NEW n \in Nat
  PROVE  /\ Repeated(ids, n) \in Seq(S)
         /\ DOMAIN Repeated(ids, n) # {} => Len(ids) # 0
<1>1. PICK l \in Nat : l = Len(ids)
  BY LenProperties
<1>2. n * l \in Nat
  BY <1>1
<1>3. DOMAIN Repeated(ids, n) = 1..(n * l)
  BY <1>1 DEF Repeated
<1>4. l = 0 => n * l = 0
  BY <1>1
<1>5. ASSUME NEW i \in 1..(n * l) PROVE ids[1 + ((i - 1) % l)] \in S
  <2>1. l # 0
    BY <1>4, <1>5
  <2>2. (i - 1) % l \in 0..(l - 1)
    BY <1>1, <1>2, <2>1
  <2>3. 1 + ((i - 1) % l) \in 1..l
    BY <1>1, <2>2
  <2> QED
    BY <1>1, <2>3, ElementOfSeq
<1>6. Repeated(ids, n) = [i \in 1..(n * l) |-> ids[1 + ((i - 1) % l)]]
  BY <1>1 DEF Repeated
<1>7. Repeated(ids, n) \in Seq(S)
  BY <1>2, <1>5, <1>6, IsASeq
<1> QED
  BY <1>1, <1>3, <1>4, <1>7

\* A request that starts has all of its runs waiting.
LEMMA AskedIsKept ==
  ASSUME NEW q, ReqFormed(q), \A i \in DOMAIN q.runs : q.state[i] = "waiting"
  PROVE  Kept(q)
<1>1. Running(q) = {}
  BY DEF Running
<1>2. q.workers \in Nat
  BY DEF ReqFormed, ReqType
<1>3. Cardinality(Running(q)) <= q.workers
  BY <1>1, <1>2, FS_EmptySet
<1> QED
  BY <1>3 DEF Kept, InSequence, InRepetitions

LEMMA RunsOf ==
  ASSUME NEW q, ReqFormed(q)
  PROVE  /\ \E n \in Nat : DOMAIN q.runs = 1..n
         /\ IsFiniteSet(Running(q)) /\ Cardinality(Running(q)) \in Nat
<1>1. PICK n \in Nat : DOMAIN q.runs = 1..n
  BY LenProperties DEF ReqFormed, ReqType
<1>2. IsFiniteSet(1..n)
  BY FS_Interval
<1>3. Running(q) \in SUBSET (1..n)
  BY <1>1 DEF Running
<1> QED
  BY <1>1, <1>2, <1>3, FS_Subset, FS_CardinalityType

\* One run of a request changes its state.
Moved(q, i, to) == [q EXCEPT !.state[i] = to]

LEMMA MovedFormed ==
  ASSUME NEW q, ReqFormed(q), NEW i \in DOMAIN q.runs, NEW to \in Stages
  PROVE  /\ ReqFormed(Moved(q, i, to))
         /\ Moved(q, i, to).kind = q.kind /\ Moved(q, i, to).runs = q.runs
         /\ Moved(q, i, to).parallel = q.parallel /\ Moved(q, i, to).workers = q.workers
         /\ Moved(q, i, to).size = q.size
         /\ Moved(q, i, to).state[i] = to
         /\ \A j \in DOMAIN q.runs : j # i => Moved(q, i, to).state[j] = q.state[j]
<1>1. q.state \in Seq(Stages) /\ i \in DOMAIN q.state /\ q \in ReqType
  BY DEF ReqFormed, ReqType
<1>2. [q.state EXCEPT ![i] = to] \in Seq(Stages)
  BY <1>1, LenProperties, ExceptSeq
<1>3. Moved(q, i, to) = [q EXCEPT !.state = [q.state EXCEPT ![i] = to]]
  BY <1>1 DEF Moved, ReqType
<1> QED
  BY <1>1, <1>2, <1>3 DEF ReqFormed, ReqType

LEMMA BegunIsKept ==
  ASSUME NEW q, ReqFormed(q), Kept(q), NEW i \in DOMAIN q.runs, q.state[i] = "waiting",
         q.kind = "sends" => /\ ~ q.parallel => \A j \in 1..(i - 1) : q.state[j] \in Ended
                             /\ q.parallel => Cardinality(Running(q)) < q.workers
                             /\ \A j \in 1..(i - 1) :
                                  Repetition(q, j) # Repetition(q, i) => q.state[j] \in Ended
  PROVE  ReqFormed(Moved(q, i, "running")) /\ Kept(Moved(q, i, "running"))
<1> DEFINE w == Moved(q, i, "running")
<1>1. /\ ReqFormed(w) /\ w.kind = q.kind /\ w.runs = q.runs /\ w.parallel = q.parallel
      /\ w.workers = q.workers /\ w.size = q.size /\ w.state[i] = "running"
      /\ \A j \in DOMAIN q.runs : j # i => w.state[j] = q.state[j]
  BY MovedFormed DEF Stages
<1> HIDE DEF w
<1>2. PICK n \in Nat : DOMAIN q.runs = 1..n
  BY RunsOf
<1>3. "waiting" \notin Ended /\ "running" \notin Ended
  BY DEF Ended, Passed
<1>4. ASSUME q.kind = "sends", ~ q.parallel PROVE InSequence(w)
  <2> SUFFICES ASSUME NEW a \in 1..n, NEW b \in 1..n, b < a, w.state[a] # "waiting"
               PROVE  w.state[b] \in Ended
    BY <1>1, <1>2 DEF InSequence
  <2>1. CASE a = i
    <3>1. b \in 1..(i - 1) /\ b # i
      BY <1>2, <2>1
    <3> QED
      BY <1>1, <1>2, <1>4, <3>1
  <2>2. CASE a # i
    <3>1. q.state[b] \in Ended
      BY <1>1, <1>2, <1>4, <2>2 DEF Kept, InSequence
    <3> QED
      BY <1>1, <1>2, <1>3, <3>1
  <2> QED
    BY <2>1, <2>2
<1>5. ASSUME q.kind = "sends", q.parallel PROVE Cardinality(Running(w)) <= w.workers
  <2>1. Running(w) = Running(q) \cup {i} /\ i \notin Running(q)
    BY <1>1 DEF Running
  <2>2. PICK c \in Nat : c = Cardinality(Running(q)) /\ IsFiniteSet(Running(q))
    BY RunsOf
  <2>3. Cardinality(Running(w)) = c + 1
    BY <2>1, <2>2, FS_AddElement
  <2>4. c < q.workers /\ q.workers \in Nat
    BY <1>5, <2>2 DEF ReqFormed, ReqType
  <2>5. c + 1 <= q.workers
    BY <2>2, <2>4
  <2> QED
    BY <1>1, <2>3, <2>5
<1>6. ASSUME q.kind = "sends" PROVE InRepetitions(w)
  <2>0. q.size \in Nat \ {0}
    BY <1>6 DEF ReqFormed, ReqType
  <2> SUFFICES ASSUME NEW a \in 1..n, NEW b \in 1..n, w.state[a] # "waiting",
                      Repetition(q, b) < Repetition(q, a)
               PROVE  w.state[b] \in Ended
    BY <1>1, <1>2 DEF InRepetitions, Repetition
  <2>1. b < a
    <3>1. (b - 1) \div q.size < (a - 1) \div q.size /\ a \in Nat /\ b \in Nat
      BY <1>2 DEF Repetition
    <3> QED
      BY <2>0, <3>1, EarlierRepetition
  <2>2. CASE a = i
    <3>1. b \in 1..(i - 1) /\ b # i
      BY <1>2, <2>1, <2>2
    <3>2. Repetition(q, b) # Repetition(q, i)
      <4>1. Repetition(q, b) \in Int /\ Repetition(q, a) \in Int
        BY <1>2, <2>0, Quotients DEF Repetition
      <4> QED
        BY <2>2, <4>1
    <3> QED
      BY <1>1, <1>2, <1>6, <3>1, <3>2
  <2>3. CASE a # i
    <3>1. q.state[b] \in Ended
      BY <1>1, <1>2, <1>6, <2>3 DEF Kept, InRepetitions
    <3> QED
      BY <1>1, <1>2, <1>3, <3>1
  <2> QED
    BY <2>2, <2>3
<1>7. Kept(w)
  BY <1>1, <1>4, <1>5, <1>6 DEF Kept
<1> QED
  BY <1>1, <1>7 DEF w

LEMMA EndedIsKept ==
  ASSUME NEW q, ReqFormed(q), Kept(q), NEW i \in DOMAIN q.runs, q.state[i] = "running",
         NEW outcome \in Ended
  PROVE  ReqFormed(Moved(q, i, outcome)) /\ Kept(Moved(q, i, outcome))
<1> DEFINE w == Moved(q, i, outcome)
<1>0. outcome \in Stages
  BY DEF Stages
<1>1. /\ ReqFormed(w) /\ w.kind = q.kind /\ w.runs = q.runs /\ w.parallel = q.parallel
      /\ w.workers = q.workers /\ w.size = q.size /\ w.state[i] = outcome
      /\ \A j \in DOMAIN q.runs : j # i => w.state[j] = q.state[j]
  BY <1>0, MovedFormed
<1>2. \A j \in DOMAIN q.runs : /\ w.state[j] # "waiting" => q.state[j] # "waiting"
                               /\ q.state[j] \in Ended => w.state[j] \in Ended
  BY <1>1
<1> HIDE DEF w
<1>3. InSequence(q) => InSequence(w)
  BY <1>1, <1>2 DEF InSequence
<1>4. InRepetitions(q) => InRepetitions(w)
  BY <1>1, <1>2 DEF InRepetitions, Repetition
<1>5. Cardinality(Running(w)) <= Cardinality(Running(q))
  <2>1. outcome # "running"
    BY DEF Ended, Passed
  <2>2. Running(w) \in SUBSET Running(q)
    BY <1>1, <2>1 DEF Running
  <2> QED
    BY <2>2, RunsOf, FS_Subset
<1>6. Cardinality(Running(w)) \in Nat /\ Cardinality(Running(q)) \in Nat /\ q.workers \in Nat
  BY <1>1, RunsOf DEF ReqFormed, ReqType
<1>7. Cardinality(Running(q)) <= q.workers => Cardinality(Running(w)) <= w.workers
  BY <1>1, <1>5, <1>6
<1>8. Kept(w)
  BY <1>1, <1>3, <1>4, <1>7 DEF Kept
<1> QED
  BY <1>1, <1>8 DEF w

-----------------------------------------------------------------------------
(* The steps of the requests.                                              *)

BulkInv == Formed /\ Truth /\ LimitsKept

LEMMA ReqTurn ==
  ASSUME Formed, LimitsKept, NEW r \in Requests, NEW q, req' = [req EXCEPT ![r] = q],
         ReqFormed(q), Kept(q)
  PROVE  Formed' /\ LimitsKept'
<1>1. req' = [y \in Requests |-> IF y = r THEN q ELSE req[y]]
  BY DEF Formed
<1>2. ASSUME NEW y \in Requests PROVE ReqFormed(req'[y]) /\ Kept(req'[y])
  BY <1>1 DEF Formed, LimitsKept
<1>3. req' = [y \in Requests |-> req'[y]]
  BY <1>1
<1> QED
  BY <1>2, <1>3 DEF Formed, LimitsKept

LEMMA AskKeeps ==
  ASSUME BulkInv, NEW r \in Requests, Ask(r) \/ AskJob(r)
  PROVE  BulkInv'
<1>1. Truth'
  BY DEF Ask, AskJob, BulkInv, Truth, sendVars
<1>2. CASE Ask(r)
  <2>1. PICK a \in Asks :
          req' = [req EXCEPT ![r] =
                    [kind |-> a.kind, parallel |-> a.parallel, workers |-> a.workers,
                     size |-> Len(a.ids), runs |-> Repeated(a.ids, a.repeat), answered |-> FALSE,
                     state |-> [i \in DOMAIN Repeated(a.ids, a.repeat) |-> "waiting"]]]
    BY <1>2 DEF Ask
  <2>2. /\ a.kind \in {"tests", "sends"} /\ a.parallel \in BOOLEAN
        /\ a.workers \in Nat /\ a.repeat \in Nat /\ a.ids \in Seq(DOMAIN Definitions)
    BY BulkAssumption
  <2> DEFINE runs  == Repeated(a.ids, a.repeat)
             state == [i \in DOMAIN runs |-> "waiting"]
             q     == [kind |-> a.kind, parallel |-> a.parallel, workers |-> a.workers,
                       size |-> Len(a.ids), runs |-> runs, answered |-> FALSE, state |-> state]
  <2>3. runs \in Seq(DOMAIN Definitions) /\ (DOMAIN runs # {} => Len(a.ids) # 0)
    BY <2>2, RepeatedTyped
  <2>4. Len(a.ids) \in Nat
    BY <2>2, LenProperties
  <2> HIDE DEF runs
  <2>5. PICK n \in Nat : DOMAIN runs = 1..n
    BY <2>3, LenProperties
  <2>6. state \in Seq(Stages)
    BY <2>5, IsASeq DEF Stages
  <2>7. runs \in Seq(DOMAIN Definitions \cup JobTests)
    BY <2>3, <2>5, ElementOfSeq, LenProperties, SeqDef
  <2>8. DOMAIN state = DOMAIN runs /\ \A i \in DOMAIN runs : state[i] = "waiting"
    OBVIOUS
  <2> HIDE DEF state
  <2>9. ReqFormed(q)
    BY <2>2, <2>3, <2>4, <2>6, <2>7, <2>8 DEF ReqFormed, ReqType
  <2>10. \A i \in DOMAIN q.runs : q.state[i] = "waiting"
    BY <2>8
  <2>11. req' = [req EXCEPT ![r] = q]
    BY <2>1 DEF state, runs
  <2> HIDE DEF q
  <2>12. Kept(q)
    BY <2>9, <2>10, AskedIsKept
  <2> QED
    BY <1>1, <2>9, <2>11, <2>12, ReqTurn DEF BulkInv
<1>3. CASE AskJob(r)
  <2>1. PICK t \in JobTests :
          req' = [req EXCEPT ![r] = [Unsent EXCEPT !.kind = "job", !.runs = <<t>>,
                                                   !.state = <<"waiting">>, !.answered = TRUE]]
    BY <1>3 DEF AskJob
  <2> DEFINE q == [Unsent EXCEPT !.kind = "job", !.runs = <<t>>, !.state = <<"waiting">>,
                                 !.answered = TRUE]
  <2>2. <<t>> \in Seq(DOMAIN Definitions \cup JobTests) /\ <<"waiting">> \in Seq(Stages)
    BY DEF Stages
  <2>3. DOMAIN <<t>> = 1..1 /\ DOMAIN <<"waiting">> = 1..1
    OBVIOUS
  <2>4. /\ q.kind = "job" /\ q.runs = <<t>> /\ q.state = <<"waiting">>
        /\ q \in ReqType
    BY <2>2 DEF ReqType, Unsent
  <2> HIDE DEF q
  <2>5. ReqFormed(q) /\ Kept(q)
    BY <2>3, <2>4 DEF ReqFormed, Kept
  <2> QED
    BY <1>1, <2>1, <2>5, ReqTurn DEF BulkInv, q
<1> QED
  BY <1>2, <1>3

LEMMA BeginRunKeeps ==
  ASSUME BulkInv, NEW r \in Requests, NEW i \in DOMAIN req[r].runs, BeginRun(r, i)
  PROVE  BulkInv'
<1> DEFINE q == req[r]
<1>1. ReqFormed(q) /\ Kept(q) /\ q.state[i] = "waiting" /\ MayBegin(r, i)
  BY DEF BulkInv, Formed, LimitsKept, BeginRun
<1>2. PICK n \in Nat : DOMAIN q.runs = 1..n
  BY <1>1, RunsOf
<1>3. req' = [req EXCEPT ![r] = Moved(q, i, "running")]
  BY DEF BulkInv, Formed, BeginRun, Moved
<1>4. ASSUME q.kind = "sends"
      PROVE  /\ ~ q.parallel => \A j \in 1..(i - 1) : q.state[j] \in Ended
             /\ q.parallel => Cardinality(Running(q)) < q.workers
             /\ \A j \in 1..(i - 1) : Repetition(q, j) # Repetition(q, i) => q.state[j] \in Ended
  <2>1. Running(q) = In(r, {"running"})
    BY DEF Running, In
  <2>2. \A j : Repetition(q, j) = Iteration(r, j)
    BY DEF Repetition, Iteration
  <2> QED
    BY <1>1, <1>4, <2>1, <2>2 DEF MayBegin, HasWorker
<1>5. Formed' /\ LimitsKept'
  <2>1. ReqFormed(Moved(q, i, "running")) /\ Kept(Moved(q, i, "running"))
    BY <1>1, <1>4, BegunIsKept
  <2> QED
    BY <1>3, <2>1, ReqTurn DEF BulkInv
<1>6. Truth'
  <2>1. CASE q.kind = "sends"
    <3>1. q.runs[i] \in DOMAIN Definitions
      BY <1>1, <2>1, LenProperties, ElementOfSeq DEF ReqFormed
    <3> QED
      BY <2>1, <3>1, BeginIsTrue DEF BeginRun, BulkInv
  <2>2. CASE q.kind # "sends"
    BY <2>2 DEF BeginRun, BulkInv, Truth, sendVars
  <2> QED
    BY <2>1, <2>2
<1> QED
  BY <1>5, <1>6 DEF BulkInv

LEMMA EndRunKeeps ==
  ASSUME BulkInv, NEW r \in Requests, NEW i \in DOMAIN req[r].runs, EndRun(r, i)
  PROVE  BulkInv'
<1>1. ReqFormed(req[r]) /\ Kept(req[r]) /\ req[r].state[i] = "running"
  BY DEF BulkInv, Formed, LimitsKept, EndRun
<1>2. PICK outcome \in Ended : req' = [req EXCEPT ![r].state[i] = outcome]
  BY DEF EndRun
<1>3. req' = [req EXCEPT ![r] = Moved(req[r], i, outcome)]
  BY <1>2 DEF BulkInv, Formed, Moved
<1>4. Formed' /\ LimitsKept'
  BY <1>1, <1>3, EndedIsKept, ReqTurn DEF BulkInv
<1>5. Truth'
  BY DEF EndRun, BulkInv, Truth, sendVars
<1> QED
  BY <1>4, <1>5 DEF BulkInv

LEMMA AnswerKeeps ==
  ASSUME BulkInv, NEW r \in Requests, Answer(r)
  PROVE  BulkInv'
<1> DEFINE q == [Unsent EXCEPT !.kind = req[r].kind, !.answered = TRUE]
<1>1. req' = [req EXCEPT ![r] = q] /\ req[r].kind \in {"tests", "sends"}
  BY DEF Answer
<1>2. <<>> \in Seq(DOMAIN Definitions \cup JobTests) /\ <<>> \in Seq(DOMAIN Definitions)
      /\ <<>> \in Seq(Stages) /\ DOMAIN <<>> = {}
  BY EmptySeq
<1>3. ReqFormed(q) /\ \A i \in DOMAIN q.runs : q.state[i] = "waiting"
  BY <1>1, <1>2 DEF Unsent, ReqFormed, ReqType
<1> HIDE DEF q
<1>4. Formed' /\ LimitsKept'
  BY <1>1, <1>3, AskedIsKept, ReqTurn DEF BulkInv
<1>5. Truth'
  BY ForgetIsTrue DEF Answer, BulkInv
<1> QED
  BY <1>4, <1>5 DEF BulkInv

LEMMA BulkInitInv == BulkInit => BulkInv
<1> SUFFICES ASSUME BulkInit PROVE BulkInv
  OBVIOUS
<1>1. Truth
  BY TruthInit DEF BulkInit
<1>2. Formed /\ LimitsKept
  BY UnsentFormed DEF BulkInit, Formed, LimitsKept
<1> QED
  BY <1>1, <1>2 DEF BulkInv

LEMMA BulkNextInv == BulkInv /\ [BulkNext]_bulkVars => BulkInv'
<1> SUFFICES ASSUME BulkInv, [BulkNext]_bulkVars PROVE BulkInv'
  OBVIOUS
<1>1. ASSUME UNCHANGED <<req, send, sent>> PROVE BulkInv'
  BY <1>1 DEF BulkInv, Formed, LimitsKept, Truth
<1>2. CASE UNCHANGED bulkVars
  BY <1>1, <1>2 DEF bulkVars, sendVars
<1>3. CASE DeleteRows
  BY <1>1, <1>3 DEF DeleteRows, sendVars
<1>4. ASSUME NEW r \in Requests, Ask(r) \/ AskJob(r) PROVE BulkInv'
  BY <1>4, AskKeeps
<1>5. ASSUME NEW r \in Requests, Answer(r) PROVE BulkInv'
  BY <1>5, AnswerKeeps
<1>6. ASSUME NEW r \in Requests, FinishJob(r) PROVE BulkInv'
  BY <1>1, <1>6 DEF FinishJob, sendVars
<1>7. ASSUME NEW r \in Requests, NEW i \in DOMAIN req[r].runs, RunStep(r, i) PROVE BulkInv'
  <2>1. CASE BeginRun(r, i)
    BY <2>1, BeginRunKeeps
  <2>2. CASE EndRun(r, i)
    BY <2>2, EndRunKeeps
  <2>3. CASE SendStep(<<r, i>>) /\ UNCHANGED <<req, rows, job>>
    <3>1. Truth'
      BY <2>3, SendStepIsTrue, ElsewhereIsTrue DEF BulkInv
    <3> QED
      BY <2>3, <3>1 DEF BulkInv, Formed, LimitsKept
  <2> QED
    BY <1>7, <2>1, <2>2, <2>3 DEF RunStep
<1> QED
  BY <1>2, <1>3, <1>4, <1>5, <1>6, <1>7 DEF BulkNext, Progress

LEMMA BulkInvariant == BulkSpec => []BulkInv
  BY BulkInitInv, BulkNextInv, PTL DEF BulkSpec

\* A send whose status is COMPLETED reports all messages that its clients have sent,
\* and of those that they have not, only ones of Kafka; in the order of its items,
\* each sent once, or twice if its fault says so, whatever was dropped, delayed,
\* awaited, lost or interleaved with other sends.
THEOREM CompletedSendsReportTrue == BulkSpec => []ReportIsTrue
<1>1. BulkInv => ReportIsTrue
  BY TruthIsReport DEF BulkInv
<1> QED
  BY <1>1, BulkInvariant, PTL

LEMMA KeptIsLimit ==
  ASSUME NEW r \in Requests, ReqFormed(req[r]), Kept(req[r]), req[r].kind = "sends"
  PROVE  /\ Cardinality(In(r, {"running"})) <= IF req[r].parallel THEN req[r].workers ELSE 1
         /\ \A i, j \in DOMAIN req[r].runs :
              req[r].state[i] # "waiting" /\ Iteration(r, j) < Iteration(r, i)
                => req[r].state[j] \in Ended
<1> DEFINE q == req[r]
<1>1. Running(q) = In(r, {"running"})
  BY DEF Running, In
<1>2. ASSUME q.parallel PROVE Cardinality(In(r, {"running"})) <= q.workers
  BY <1>1, <1>2 DEF Kept
<1>3. ASSUME ~ q.parallel PROVE Cardinality(In(r, {"running"})) <= 1
  <2>1. ASSUME NEW i \in Running(q), NEW j \in Running(q), i < j PROVE FALSE
    <3>1. q.state[i] \in Ended
      BY <1>3, <2>1 DEF Kept, InSequence, Running
    <3> QED
      BY <2>1, <3>1 DEF Running, Ended, Passed
  <2>2. PICK n \in Nat : DOMAIN q.runs = 1..n
    BY RunsOf
  <2>3. \A i, j \in Running(q) : i = j
    BY <2>1, <2>2 DEF Running
  <2>4. ASSUME Running(q) = {} PROVE Cardinality(Running(q)) = 0
    BY <2>4, FS_EmptySet
  <2>5. ASSUME NEW i \in Running(q) PROVE Cardinality(Running(q)) = 1
    <3>1. Running(q) = {i}
      BY <2>3, <2>5
    <3> QED
      BY <3>1, FS_Singleton
  <2> QED
    BY <1>1, <2>4, <2>5
<1>4. \A i, j \in DOMAIN q.runs :
        q.state[i] # "waiting" /\ Iteration(r, j) < Iteration(r, i) => q.state[j] \in Ended
  BY DEF Kept, InRepetitions, Repetition, Iteration
<1> QED
  BY <1>2, <1>3, <1>4

\* The sends of a parallel request never exceed its parallel_workers, those of
\* a sequential request go one at a time, and no repetition begins before the
\* earlier ones have ended, for any selection, repeat and parallel_workers.
THEOREM SendsAreLimited == BulkSpec => []SendsKeepLimits
<1>1. BulkInv => SendsKeepLimits
  BY KeptIsLimit DEF BulkInv, Formed, LimitsKept, SendsKeepLimits
<1> QED
  BY <1>1, BulkInvariant, PTL

-----------------------------------------------------------------------------
(* What is saved.                                                          *)

Row == [request: Requests, type: {"tests", "sends"}, total: Nat, passed: Nat, failed: Nat,
        skipped: Nat, success: BOOLEAN]
Balanced == {w \in Row : w.total = w.passed + w.failed + w.skipped}
RowsAddUp == rows \in Seq(Balanced)

LEMMA RowIsBalanced ==
  ASSUME NEW r \in Requests, ReqFormed(req[r]), req[r].kind \in {"tests", "sends"},
         In(r, Ended) = DOMAIN req[r].runs
  PROVE  RowOf(r) \in Balanced
<1> DEFINE P == In(r, Passed)
           F == In(r, {"FAILED"})
           S == In(r, {"SKIPPED"})
<1>1. PICK n \in Nat : n = Len(req[r].runs) /\ DOMAIN req[r].runs = 1..n
  BY LenProperties DEF ReqFormed, ReqType
<1>2. IsFiniteSet(1..n) /\ Cardinality(1..n) = n
  <2>1. 1 \in Int /\ n \in Int /\ (IF 1 > n THEN 0 ELSE n - 1 + 1) = n
    BY <1>1
  <2> QED
    BY <2>1, FS_Interval
<1>3. /\ (P \cup F) \cup S = 1..n
      /\ P \cap F = {} /\ (P \cup F) \cap S = {}
  BY <1>1 DEF In, Ended, Passed
<1>4. P \in SUBSET (1..n) /\ F \in SUBSET (1..n) /\ S \in SUBSET (1..n)
  BY <1>1 DEF In
<1> HIDE DEF P, F, S
<1>5. IsFiniteSet(P) /\ IsFiniteSet(F) /\ IsFiniteSet(S)
  BY <1>2, <1>4, FS_Subset
<1>6. PICK p \in Nat, f \in Nat, s \in Nat : p = Cardinality(P) /\ f = Cardinality(F) /\ s = Cardinality(S)
  BY <1>5, FS_CardinalityType
<1>7. IsFiniteSet(P \cup F) /\ Cardinality(P \cup F) = p + f - Cardinality(P \cap F)
  BY <1>5, <1>6, FS_Union
<1>8. Cardinality(P \cap F) = 0 /\ Cardinality((P \cup F) \cap S) = 0
  BY <1>3, FS_EmptySet
<1>9. Cardinality(P \cup F) = p + f
  <2>1. p + f - 0 = p + f
    OBVIOUS
  <2> QED
    BY <1>7, <1>8, <2>1
<1>10. Cardinality((P \cup F) \cup S) = p + f + s - Cardinality((P \cup F) \cap S)
  BY <1>5, <1>6, <1>7, <1>9, FS_Union
<1>11. n = p + f + s
  <2>1. p + f + s - 0 = p + f + s
    OBVIOUS
  <2>2. Cardinality((P \cup F) \cup S) = n
    BY <1>2, <1>3
  <2> QED
    BY <1>8, <1>10, <2>1, <2>2
<1>12. RowOf(r) = [request |-> r, type |-> req[r].kind, total |-> n, passed |-> p, failed |-> f,
                   skipped |-> s, success |-> f = 0]
  BY <1>1, <1>6 DEF RowOf, Count, P, F, S
<1> QED
  BY <1>11, <1>12 DEF Balanced, Row

LEMMA FewerRows ==
  ASSUME NEW Q, NEW s \in Seq(Q), NEW i \in DOMAIN s
  PROVE  SubSeq(s, 1, i - 1) \in Seq(Q) /\ RemoveAt(s, i) \in Seq(Q)
<1>1. PICK l \in Nat : l = Len(s) /\ DOMAIN s = 1..l
  BY LenProperties
<1>2. \A j \in 1..l : s[j] \in Q
  BY <1>1, ElementOfSeq
<1>3. SubSeq(s, 1, i - 1) \in Seq(Q)
  <2>1. 1 \in Int /\ i - 1 \in Int /\ \A j \in 1..(i - 1) : s[j] \in Q
    BY <1>1, <1>2
  <2> QED
    BY <2>1, SubSeqProperties
<1>4. SubSeq(s, i + 1, l) \in Seq(Q)
  <2>1. i + 1 \in Int /\ l \in Int /\ \A j \in (i + 1)..l : s[j] \in Q
    BY <1>1, <1>2
  <2> QED
    BY <2>1, SubSeqProperties
<1>5. SubSeq(s, 1, i - 1) \o SubSeq(s, i + 1, l) \in Seq(Q)
  BY <1>3, <1>4, ConcatProperties
<1> QED
  BY <1>1, <1>3, <1>5 DEF RemoveAt

LEMMA RowsNext ==
  ASSUME Formed, RowsAddUp, [BulkNext]_bulkVars
  PROVE  RowsAddUp'
<1>1. CASE UNCHANGED rows
  BY <1>1 DEF RowsAddUp
<1>2. CASE DeleteRows
  BY <1>2, FewerRows DEF DeleteRows, RowsAddUp
<1>3. ASSUME NEW r \in Requests, Answer(r) PROVE RowsAddUp'
  <2>1. RowOf(r) \in Balanced
    BY <1>3, RowIsBalanced DEF Answer, Formed
  <2>2. <<RowOf(r)>> \in Seq(Balanced)
    BY <2>1
  <2>3. <<RowOf(r)>> \o rows \in Seq(Balanced)
    BY <2>2, ConcatProperties DEF RowsAddUp
  <2> QED
    BY <1>3, <2>3 DEF Answer, RowsAddUp
<1>4. CASE ~ (DeleteRows \/ \E r \in Requests : Answer(r))
  BY <1>1, <1>4 DEF BulkNext, Progress, RunStep, Ask, AskJob, BeginRun, EndRun, FinishJob, bulkVars
<1> QED
  BY <1>2, <1>3, <1>4

\* Every saved row accounts for every run of its request, none twice: its total
\* is what passed, what failed and what was skipped.  The statistics add such
\* rows up.
THEOREM SavedRowsAddUp == BulkSpec => []RowsAddUp
<1>1. BulkInit => RowsAddUp
  BY EmptySeq DEF BulkInit, RowsAddUp
<1>2. BulkInv => Formed
  BY DEF BulkInv
<1> QED
  BY <1>1, <1>2, BulkInvariant, RowsNext, PTL DEF BulkSpec

-----------------------------------------------------------------------------
(* What is shown of it.                                                    *)

\* The rows of one type are among the n latest, and a row is one of them or not
\* whatever the period.
LEMMA SelectedRows ==
  ASSUME RowsAddUp, NEW type, NEW n \in 0..Len(rows)
  PROVE  /\ Selected(type, n) \in SUBSET (1..n) /\ IsFiniteSet(Selected(type, n)) /\ n \in Nat
         /\ Selected(type, n) \in SUBSET DOMAIN rows
         /\ \A i \in 1..n : i \in Selected(type, n) <=> i \in Selected(type, i)
<1>1. Len(rows) \in Nat /\ DOMAIN rows = 1..Len(rows)
  BY LenProperties DEF RowsAddUp
<1>2. n \in Nat /\ IsFiniteSet(1..n)
  BY <1>1, FS_Interval
<1>3. Selected(type, n) \in SUBSET (1..n)
  BY DEF Selected
<1>4. IsFiniteSet(Selected(type, n))
  BY <1>2, <1>3, FS_Subset
<1>5. \A i \in 1..n : i \in 1..i /\ i \in 1..Len(rows)
  BY <1>1
<1> QED
  BY <1>1, <1>2, <1>3, <1>4, <1>5 DEF Selected

\* Sums over balanced rows balance.
LEMMA StatisticsBalance ==
  ASSUME RowsAddUp, NEW type, NEW n \in 0..Len(rows)
  PROVE  LET s == Statistics(type, n) IN s.items = s.passed + s.failed + s.skipped
<1> DEFINE S == Selected(type, n)
           t == [i \in DOMAIN rows |-> rows[i].total]
           p == [i \in DOMAIN rows |-> rows[i].passed]
           f == [i \in DOMAIN rows |-> rows[i].failed]
           k == [i \in DOMAIN rows |-> rows[i].skipped]
           o == [i \in DOMAIN rows |-> rows[i].failed + rows[i].skipped]
<1>1. IsFiniteSet(S) /\ S \in SUBSET DOMAIN rows
  BY SelectedRows
<1>2. \A i \in DOMAIN rows : /\ rows[i].total \in Nat /\ rows[i].passed \in Nat
                             /\ rows[i].failed \in Nat /\ rows[i].skipped \in Nat
                             /\ rows[i].total = rows[i].passed + rows[i].failed + rows[i].skipped
  <2>1. \A i \in DOMAIN rows : rows[i] \in Balanced
    BY LenProperties, ElementOfSeq DEF RowsAddUp
  <2> QED
    BY <2>1 DEF Balanced, Row
<1>3. \A i \in DOMAIN rows : /\ p[i] \in Int /\ f[i] \in Int /\ k[i] \in Int /\ o[i] \in Int
                             /\ t[i] = p[i] + o[i] /\ o[i] = f[i] + k[i]
  BY <1>2
<1> DEFINE sum(g) == SumFunctionOnSet(g, S)
<1>4. Statistics(type, n).items = sum(t) /\ Statistics(type, n).passed = sum(p)
      /\ Statistics(type, n).failed = sum(f) /\ Statistics(type, n).skipped = sum(k)
  BY DEF Statistics
<1> HIDE DEF S, t, p, f, k, o
<1>5. \A i \in S : p[i] \in Int /\ o[i] \in Int /\ t[i] = p[i] + o[i]
  BY <1>1, <1>3
<1>6. \A i \in S : f[i] \in Int /\ k[i] \in Int /\ o[i] = f[i] + k[i]
  BY <1>1, <1>3
<1>7. sum(t) = sum(p) + sum(o)
  BY <1>1, <1>5, SumPlus
<1>8. sum(o) = sum(f) + sum(k)
  BY <1>1, <1>6, SumPlus
<1>9. sum(p) \in Int /\ sum(f) \in Int /\ sum(k) \in Int
  BY <1>1, <1>5, <1>6, SumTaken
<1> HIDE DEF sum
<1> QED
  BY <1>4, <1>7, <1>8, <1>9

\* The place of a row in the list of its type.
Rank(type, i) == Cardinality(Selected(type, i))

LEMMA RanksGrow ==
  ASSUME RowsAddUp, NEW type
  PROVE  /\ \A i \in Selected(type, Len(rows)) : Rank(type, i) \in 1..Len(rows)
         /\ \A i, j \in Selected(type, Len(rows)) : i < j => Rank(type, i) < Rank(type, j)
<1> DEFINE n == Len(rows)
<1>1. n \in Nat /\ n \in 0..n
  BY LenProperties DEF RowsAddUp
<1>2. \A i \in Selected(type, n) : i \in 1..n /\ i \in 0..n /\ i \in Nat
  BY <1>1, SelectedRows
<1>3. ASSUME NEW i \in Selected(type, n)
      PROVE  /\ Rank(type, i) \in 1..n /\ IsFiniteSet(Selected(type, i)) /\ i \in Selected(type, i)
             /\ Selected(type, i) \in SUBSET (1..i)
  <2>1. IsFiniteSet(Selected(type, i)) /\ i \in Selected(type, i)
        /\ Selected(type, i) \in SUBSET (1..i)
    BY <1>1, <1>2, SelectedRows
  <2>2. IsFiniteSet(1..i) /\ Cardinality(1..i) = i
    <3>1. 1 \in Int /\ i \in Int /\ (IF 1 > i THEN 0 ELSE i - 1 + 1) = i
      BY <1>2
    <3> QED
      BY <3>1, FS_Interval
  <2>3. Rank(type, i) \in Nat /\ Rank(type, i) <= i /\ Rank(type, i) # 0
    BY <2>1, <2>2, FS_Subset, FS_CardinalityType, FS_EmptySet DEF Rank
  <2> QED
    BY <1>2, <2>1, <2>3
<1>4. ASSUME NEW i \in Selected(type, n), NEW j \in Selected(type, n), i < j
      PROVE  Rank(type, i) < Rank(type, j)
  <2> DEFINE rest == Selected(type, j) \ {j}
  <2>1. Selected(type, i) \in SUBSET rest
    BY <1>2, <1>4 DEF Selected
  <2>2. IsFiniteSet(rest) /\ Cardinality(rest) = Rank(type, j) - 1
    BY <1>3, FS_RemoveElement DEF Rank
  <2> HIDE DEF rest
  <2>3. Rank(type, i) <= Rank(type, j) - 1
    BY <2>1, <2>2, FS_Subset DEF Rank
  <2> QED
    BY <1>3, <2>3
<1> QED
  BY <1>3, <1>4

LEMMA PagesShowEachRow ==
  ASSUME RowsAddUp, NEW type, NEW limit \in 1..3
  PROVE  /\ \A k \in 0..Len(rows) : Cardinality(Page(type, limit, k * limit)) <= limit
         /\ \A i \in Selected(type, Len(rows)) :
               Cardinality({k \in 0..Len(rows) : i \in Page(type, limit, k * limit)}) = 1
<1> DEFINE n == Len(rows)
           S == Selected(type, n)
<1>1. n \in Nat /\ IsFiniteSet(S) /\ S \in SUBSET (1..n)
  BY LenProperties, SelectedRows DEF RowsAddUp
<1>2. /\ \A i \in S : Rank(type, i) \in 1..n
      /\ \A i, j \in S : i < j => Rank(type, i) < Rank(type, j)
  BY RanksGrow
<1>3. \A k : Page(type, limit, k * limit)
             = {i \in S : Rank(type, i) \in (k * limit + 1)..(k * limit + limit)}
  BY DEF Page, Rank
<1> HIDE DEF n, S
<1>4. ASSUME NEW k \in 0..n PROVE Cardinality(Page(type, limit, k * limit)) <= limit
  <2> DEFINE P == Page(type, limit, k * limit)
             from == k * limit
             T == (from + 1)..(from + limit)
             rank == [i \in P |-> Rank(type, i)]
  <2>1. from \in Nat
    BY <1>1
  <2> HIDE DEF from
  <2>2. IsFiniteSet(T) /\ Cardinality(T) = limit
    <3>1. from + 1 \in Int /\ from + limit \in Int
          /\ (IF from + 1 > from + limit THEN 0 ELSE (from + limit) - (from + 1) + 1) = limit
      BY <2>1
    <3> QED
      BY <3>1, FS_Interval
  <2>3. P \in SUBSET S /\ \A i \in P : Rank(type, i) \in T
    BY <1>3 DEF from
  <2> HIDE DEF P, T
  <2>4. \A i, j \in P : rank[i] = rank[j] => i = j
    <3> SUFFICES ASSUME NEW i \in P, NEW j \in P, rank[i] = rank[j], i # j PROVE FALSE
      OBVIOUS
    <3>1. i \in Nat /\ j \in Nat /\ i \in S /\ j \in S
      BY <1>1, <2>3
    <3>2. Rank(type, i) \in Nat /\ Rank(type, j) \in Nat /\ Rank(type, i) = Rank(type, j)
      BY <1>2, <3>1
    <3> QED
      BY <1>2, <3>1, <3>2
  <2>5. rank \in Injection(P, T)
    BY <2>3, <2>4 DEF Injection, IsInjective
  <2>6. Cardinality(P) <= Cardinality(T)
    BY <2>2, <2>5, FS_Injection
  <2> QED
    BY <2>2, <2>6 DEF P
<1>5. ASSUME NEW i \in S
      PROVE  Cardinality({k \in 0..n : i \in Page(type, limit, k * limit)}) = 1
  <2> DEFINE r == Rank(type, i)
             K == {k \in 0..n : i \in Page(type, limit, k * limit)}
  <2>1. r \in 1..n
    BY <1>2
  <2>2. K = {k \in 0..n : r \in (k * limit + 1)..(k * limit + limit)}
    BY <1>3, <1>5
  <2> HIDE DEF r, K
  <2>3. \E k \in 0..n : K = {k}
    <3>1. CASE limit = 1
      <4>1. r - 1 \in 0..n /\ \A k \in 0..n : r \in (k * 1 + 1)..(k * 1 + 1) <=> k = r - 1
        BY <1>1, <2>1
      <4> QED
        BY <2>2, <3>1, <4>1
    <3>2. CASE limit = 2
      <4>1. (r - 1) \div 2 \in 0..n
            /\ \A k \in 0..n : r \in (k * 2 + 1)..(k * 2 + 2) <=> k = (r - 1) \div 2
        BY <1>1, <2>1
      <4> QED
        BY <2>2, <3>2, <4>1
    <3>3. CASE limit = 3
      <4>1. (r - 1) \div 3 \in 0..n
            /\ \A k \in 0..n : r \in (k * 3 + 1)..(k * 3 + 3) <=> k = (r - 1) \div 3
        BY <1>1, <2>1
      <4> QED
        BY <2>2, <3>3, <4>1
    <3> QED
      BY <3>1, <3>2, <3>3
  <2> QED
    BY <2>3, FS_Singleton DEF K
<1> QED
  BY <1>4, <1>5 DEF n, S

(***************************************************************************)
(* Whatever has been saved, lost and deleted: the statistics of every      *)
(* period and type account for every run of the requests they are about,   *)
(* and the pages of a list show each of its rows exactly once.             *)
(***************************************************************************)
THEOREM StatisticsBalanceAlways == BulkSpec => []StatisticsAddUp
<1>1. RowsAddUp => StatisticsAddUp
  BY StatisticsBalance, PagesShowEachRow DEF StatisticsAddUp
<1> QED
  BY <1>1, SavedRowsAddUp, PTL
=============================================================================
