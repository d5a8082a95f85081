-------------------------- MODULE LoadRunnerProofs --------------------------
(***************************************************************************)
(* Theorems about a load job, for any scenario, any number of users and    *)
(* threads and any number of cancellations: nothing of it runs when it is  *)
(* over, its end is final, its buckets close once and in order and lose no *)
(* record, and its timeline follows the phases of its scenario.            *)
(***************************************************************************)
EXTENDS LoadRunner, SumTheorems, SequenceTheorems

(***************************************************************************)
(* The timeline is a sequence of natural numbers.  FlattenSeq is defined   *)
(* by recursion on the index; that the recursion defines a function at all *)
(* is shown by a least counterexample.                                     *)
(***************************************************************************)

\* f is the flattening of the first n sequences.
Flattens(f, n, ss) == f = [i \in 1..n |-> IF i = 1 THEN ss[i] ELSE f[i - 1] \o ss[i]]

\* The flattening of sequences over S is, at each index, a sequence over S.
LEMMA FlattenIsSeq ==
  ASSUME NEW S, NEW ss \in Seq(Seq(S)), NEW n \in 1..Len(ss), NEW f, Flattens(f, n, ss)
  PROVE  \A k \in 1..n : f[k] \in Seq(S)
<1> DEFINE bad == {k \in 1..n : f[k] \notin Seq(S)}
<1> SUFFICES ASSUME bad # {} PROVE FALSE
  OBVIOUS
<1>1. bad \subseteq Nat
  OBVIOUS
<1>2. PICK k \in bad : \A j \in bad : k <= j
  BY <1>1, Smallest
<1>3. \A i \in 1..n : f[i] = IF i = 1 THEN ss[i] ELSE f[i - 1] \o ss[i]
  BY DEF Flattens
<1>4. \A i \in 1..n : ss[i] \in Seq(S)
  OBVIOUS
<1>5. CASE k = 1
  BY <1>3, <1>4, <1>5
<1>6. CASE k # 1
  <2>1. k - 1 \in 1..n /\ k - 1 \notin bad
    BY <1>2, <1>6
  <2>2. f[k - 1] \in Seq(S) /\ ss[k] \in Seq(S)
    BY <1>4, <2>1
  <2>3. f[k - 1] \o ss[k] \in Seq(S)
    BY <2>2, ConcatProperties
  <2> QED
    BY <1>3, <1>6, <2>3
<1> QED
  BY <1>5, <1>6

\* There is a flattening of the first n sequences, for each n.
LEMMA FlattenExists ==
  ASSUME NEW S, NEW ss \in Seq(Seq(S)), NEW n \in 1..Len(ss) PROVE \E f : Flattens(f, n, ss)
<1> DEFINE bad == {k \in 1..Len(ss) : ~ \E f : Flattens(f, k, ss)}
<1> SUFFICES ASSUME bad # {} PROVE FALSE
  OBVIOUS
<1>1. /\ bad \subseteq Nat /\ bad \subseteq 1..Len(ss) /\ Len(ss) \in Nat
      /\ \A k \in 1..Len(ss) : k \in bad <=> ~ \E f : Flattens(f, k, ss)
  OBVIOUS
<1> HIDE DEF bad
<1>2. PICK k \in bad : \A j \in bad : k <= j
  BY <1>1, Smallest
<1>3. CASE k = 1
  <2> DEFINE g == [i \in 1..1 |-> ss[1]]
  <2>1. Flattens(g, k, ss)
    BY <1>3 DEF Flattens
  <2> QED
    BY <1>1, <2>1
<1>4. CASE k # 1
  <2>1. k \in Nat /\ k - 1 \in 1..Len(ss) /\ k - 1 \notin bad
    BY <1>1, <1>2, <1>4
  <2>2. PICK f : Flattens(f, k - 1, ss)
    BY <1>1, <2>1
  <2>3. \A i \in 1..(k - 1) : f[i] = IF i = 1 THEN ss[i] ELSE f[i - 1] \o ss[i]
    BY <2>2 DEF Flattens
  <2> DEFINE g == [i \in 1..k |-> IF i = k THEN f[k - 1] \o ss[k] ELSE f[i]]
  <2>4. ASSUME NEW i \in 1..k PROVE g[i] = IF i = 1 THEN ss[i] ELSE g[i - 1] \o ss[i]
    <3>1. CASE i = k
      <4>0. k \in 1..k /\ k - 1 \in 1..k /\ k - 1 # k
        BY <1>4, <2>1
      <4>1. g[k] = f[k - 1] \o ss[k] /\ g[k - 1] = f[k - 1]
        BY <4>0
      <4> HIDE DEF g
      <4> QED
        BY <1>4, <3>1, <4>1
    <3>2. CASE i # k /\ i # 1
      <4>1. i \in 1..(k - 1) /\ i - 1 \in 1..(k - 1)
        BY <2>1, <3>2
      <4>2. g[i] = f[i] /\ g[i - 1] = f[i - 1]
        BY <2>1, <3>2, <4>1
      <4> HIDE DEF g
      <4> QED
        BY <2>3, <3>2, <4>1, <4>2
    <3>3. CASE i = 1
      BY <1>4, <2>1, <2>3, <3>3
    <3> QED
      BY <3>1, <3>2, <3>3
  <2>5. g = [i \in 1..k |-> g[i]]
    OBVIOUS
  <2> HIDE DEF g
  <2>6. g = [i \in 1..k |-> IF i = 1 THEN ss[i] ELSE g[i - 1] \o ss[i]]
    BY <2>4, <2>5
  <2>7. Flattens(g, k, ss)
    BY <2>6 DEF Flattens
  <2> QED
    BY <1>1, <2>7
<1> QED
  BY <1>3, <1>4

\* FlattenSeq of sequences over S is a sequence over S.
LEMMA FlattenSeqType ==
  ASSUME NEW S, NEW ss \in Seq(Seq(S)) PROVE FlattenSeq(ss) \in Seq(S)
<1>1. CASE Len(ss) = 0
  BY <1>1 DEF FlattenSeq
<1>2. CASE Len(ss) # 0
  <2> DEFINE g == CHOOSE f : Flattens(f, Len(ss), ss)
  <2>1. Len(ss) \in 1..Len(ss)
    BY <1>2
  <2>2. Flattens(g, Len(ss), ss)
    BY <2>1, FlattenExists
  <2>3. FlattenSeq(ss) = g[Len(ss)]
    BY <1>2 DEF FlattenSeq, Flattens
  <2> HIDE DEF g
  <2> QED
    BY <2>1, <2>2, <2>3, FlattenIsSeq
<1> QED
  BY <1>1, <1>2

\* A phase of a load scenario.
Phase == [type: {"ramp", "steady"}, duration: Int, from: Int, to: Int]

\* A valid scenario asks for a natural number of users in each second.
LEMMA TimelineType ==
  ASSUME NEW phases \in Scenarios, IsScenario(phases) PROVE Timeline(phases) \in Seq(Nat)
<1> DEFINE Seconds(j) == [i \in 1..phases[j].duration |-> Target(phases[j], i - 1)]
           ss == [j \in DOMAIN phases |-> Seconds(j)]
<1>1. phases \in Seq(Phase)
  BY LoadAssumption DEF Phase
<1>2. ASSUME NEW j \in DOMAIN phases PROVE Seconds(j) \in Seq(Nat)
  <2>1. PICK p \in Phase : p = phases[j]
    BY <1>1
  <2>2. p.duration \in Nat /\ p.to \in Nat /\ p.from \in Int /\ p.duration > 0
    BY <2>1 DEF Phase, IsScenario, IsPhase
  <2>3. ASSUME NEW i \in 1..p.duration, p.duration # 1 PROVE Interpolated(p, i - 1) \in Int
    <3>1. \A a \in Int, d \in Nat \ {0} : a \div d \in Int
      OBVIOUS
    <3> DEFINE a == p.from * (p.duration - 1) + (p.to - p.from) * (i - 1)
    <3>2. a \in Int /\ p.duration - 1 \in Nat \ {0}
      BY <2>2, <2>3
    <3> DEFINE d == p.duration - 1
    <3> HIDE DEF a, d
    <3>3. PICK q \in Int : q = a \div d
      BY <3>1, <3>2 DEF d
    <3>4. Round(a, d) = q \/ Round(a, d) = q + 1
      BY <3>3 DEF Round
    <3>5. Round(a, p.duration - 1) \in Int
      BY <3>4 DEF d
    <3> QED
      BY <3>5 DEF a, Interpolated
  <2>4. ASSUME NEW i \in 1..p.duration PROVE Target(p, i - 1) \in Nat
    BY <2>2, <2>3, <2>4 DEF Target
  <2> DEFINE s == [i \in 1..p.duration |-> Target(p, i - 1)]
  <2>5. s \in Seq(Nat)
    BY <2>2, <2>4
  <2>6. Seconds(j) = s
    BY <2>1
  <2> QED
    BY <2>5, <2>6
<1> HIDE DEF Seconds
<1>3. ss \in Seq(Seq(Nat))
  BY <1>1, <1>2
<1> QED
  BY <1>3, FlattenSeqType DEF Timeline, Seconds
(***************************************************************************)
(* The inductive invariant.                                                *)
(***************************************************************************)

LoadTypeOK ==
    /\ status \in {"none", "PENDING", "RUNNING"} \cup Final
    /\ task \in {"none", "created", "ticking", "asleep", "gathering", "joining", "finished"}
    /\ final \in Final \cup {"lost"}
    /\ timeline \in Seq(Nat) /\ tick \in Nat
    /\ active \in Seq(Users)
    /\ user \in [Users -> {"gone", "created", "testing", "thinking"}]
    /\ thread \in [Users -> {"none", "queued", "running", "passed", "failed"}]

\* The coroutine of every user that lives is in active_tasks.
LiveAreActive == \A u \in Live : \E i \in DOMAIN active : active[i] = u

\* Users come and go while the timeline is played.
UsersInTheirTime ==
    /\ task \notin {"ticking", "asleep"} => Live = {}
    /\ task \in {"none", "created", "finished"} => Busy = {}

\* The status belongs to the place of the coroutine.
StatusFollowsTask ==
    /\ status = "none" <=> task = "none"
    /\ status \in Final => task = "finished"

LoadInv == LoadTypeOK /\ LiveAreActive /\ UsersInTheirTime /\ StatusFollowsTask

\* The sequence made of the new users is one of users, and has them all.
LEMMA NewAreActive ==
  ASSUME NEW n \in Nat, NEW new \in kSubset(n, Fresh)
  PROVE  /\ SetToSeq(new) \in Seq(Users)
         /\ \A u \in new : \E i \in DOMAIN SetToSeq(new) : SetToSeq(new)[i] = u
<1>1. new \subseteq Users /\ IsFiniteSet(new)
  BY LoadAssumption, FS_Subset DEF kSubset, Fresh
<1>2. Cardinality(new) \in Nat /\ ExistsBijection(1..Cardinality(new), new)
  BY <1>1, FS_CardinalityType
<1> DEFINE s == SetToSeq(new)
           m == Cardinality(new)
<1>3. PICK b : b \in Bijection(1..m, new)
  BY <1>2 DEF ExistsBijection
<1>4. b \in [1..m -> new] /\ IsInjective(b)
  BY <1>3 DEF Bijection, Injection
<1>5. s \in [1..m -> new] /\ IsInjective(s)
  BY <1>4 DEF SetToSeq
<1> HIDE DEF s
<1>6. s \in Injection(1..m, new)
  BY <1>5 DEF Injection
<1>7. m = Cardinality(1..m) /\ IsFiniteSet(1..m)
  BY <1>2, FS_Interval
<1>8. s \in Surjection(1..m, new)
  BY <1>1, <1>6, <1>7, FS_Injection
<1>9. s \in Seq(Users) /\ DOMAIN s = 1..m
  BY <1>1, <1>2, <1>5
<1> QED
  BY <1>8, <1>9 DEF s, Surjection

\* The invariant holds before a job is submitted.
LEMMA LoadInitInv == LoadInit => LoadInv
<1> SUFFICES ASSUME LoadInit PROVE LoadInv
  OBVIOUS
<1>1. LoadTypeOK
  BY DEF LoadInit, LoadTypeOK, Final
<1>2. Live = {} /\ Busy = {}
  BY DEF LoadInit, Live, Busy
<1> QED
  BY <1>1, <1>2 DEF LoadInit, LoadInv, LiveAreActive, UsersInTheirTime, StatusFollowsTask, Final

\* Cancelling a user leaves the others as they were.
LEMMA WithoutUsersKeeps ==
  ASSUME LoadInv, NEW gone, WithoutUsers(gone)
  PROVE  /\ user' \in [Users -> {"gone", "created", "testing", "thinking"}]
         /\ thread' \in [Users -> {"none", "queued", "running", "passed", "failed"}]
         /\ Live' = Live \ gone
  BY DEF WithoutUsers, LoadInv, LoadTypeOK, Live

\* A second of the timeline adds new users to active_tasks or drops the youngest.
LEMMA PlaySecondKeeps == ASSUME LoadInv, PlaySecond PROVE LoadInv'
<1> DEFINE target == timeline[tick + 1]
<1>1. target \in Nat /\ Len(active) \in Nat /\ tick + 1 \in Nat
  BY DEF LoadInv, LoadTypeOK, PlaySecond
<1>2. CASE target >= Len(active)
  <2> DEFINE n == target - Len(active)
  <2>1. n \in Nat
    BY <1>1, <1>2
  <2>2. PICK new \in kSubset(n, Fresh) :
           /\ active' = active \o SetToSeq(new)
           /\ user' = [u \in Users |-> IF u \in new THEN "created" ELSE user[u]]
           /\ UNCHANGED thread
    BY <1>2 DEF PlaySecond, ScaleUp
  <2> DEFINE s == SetToSeq(new)
  <2>3. s \in Seq(Users) /\ \A u \in new : \E i \in DOMAIN s : s[i] = u
    BY <2>1, NewAreActive
  <2> HIDE DEF s, n, target
  <2>4. active \in Seq(Users) /\ active' = active \o s
    BY <2>2 DEF s, LoadInv, LoadTypeOK
  <2>5. /\ active' \in Seq(Users) /\ DOMAIN active' = 1..(Len(active) + Len(s))
        /\ \A i \in 1..(Len(active) + Len(s)) :
              active'[i] = IF i <= Len(active) THEN active[i] ELSE s[i - Len(active)]
    BY <2>3, <2>4, ConcatProperties
  <2>6. LoadTypeOK'
    BY <1>1, <2>2, <2>5 DEF LoadInv, LoadTypeOK, PlaySecond, Final
  <2>7. ASSUME NEW u \in Live' PROVE \E i \in DOMAIN active' : active'[i] = u
    <3>1. CASE u \in new
      <4>1. PICK j \in 1..Len(s) : s[j] = u
        BY <2>3, <3>1
      <4>2. j + Len(active) \in DOMAIN active' /\ active'[j + Len(active)] = u
        BY <1>1, <2>3, <2>5, <4>1
      <4> QED
        BY <4>2
    <3>2. CASE u \notin new
      <4>1. u \in Live
        BY <2>2, <3>2 DEF Live
      <4>2. PICK j \in 1..Len(active) : active[j] = u
        BY <2>4, <4>1 DEF LoadInv, LiveAreActive
      <4>3. j \in DOMAIN active' /\ active'[j] = u
        BY <1>1, <2>3, <2>5, <4>2
      <4> QED
        BY <4>3
    <3> QED
      BY <3>1, <3>2
  <2> QED
    BY <2>6, <2>7 DEF LoadInv, LiveAreActive, UsersInTheirTime, StatusFollowsTask, PlaySecond, Final
<1>3. CASE ~ (target >= Len(active))
  <2> DEFINE gone == {active[i] : i \in (target + 1)..Len(active)}
  <2>1. /\ active' = SubSeq(active, 1, target)
        /\ WithoutUsers(gone)
    <3>1. Len(active) - (Len(active) - target) = target
      BY <1>1
    <3> QED
      BY <1>3, <3>1 DEF PlaySecond, ScaleDown
  <2> HIDE DEF target, gone
  <2>2. active \in Seq(Users)
    BY DEF LoadInv, LoadTypeOK
  <2>3. \A i \in 1..target : active[i] \in Users
    BY <1>1, <1>3, <2>2
  <2>4. /\ active' \in Seq(Users) /\ Len(active') = target
        /\ \A i \in 1..target : active'[i] = active[i]
    <3>1. /\ SubSeq(active, 1, target) \in Seq(Users)
          /\ Len(SubSeq(active, 1, target)) = IF 1 <= target THEN target - 1 + 1 ELSE 0
          /\ \A i \in 1..(target - 1 + 1) : SubSeq(active, 1, target)[i] = active[1 + i - 1]
      BY <1>1, <2>3, SubSeqProperties
    <3> QED
      BY <1>1, <2>1, <3>1
  <2>5. /\ user' \in [Users -> {"gone", "created", "testing", "thinking"}]
        /\ thread' \in [Users -> {"none", "queued", "running", "passed", "failed"}]
        /\ Live' = Live \ gone
    BY <2>1, WithoutUsersKeeps
  <2>6. LoadTypeOK'
    BY <1>1, <2>4, <2>5 DEF LoadInv, LoadTypeOK, PlaySecond, Final
  <2>7. ASSUME NEW u \in Live' PROVE \E i \in DOMAIN active' : active'[i] = u
    <3>1. PICK j \in 1..Len(active) : active[j] = u
      BY <2>2, <2>5 DEF LoadInv, LiveAreActive
    <3>2. ~ (j > target)
      BY <1>1, <2>5, <3>1 DEF gone
    <3>3. j \in DOMAIN active' /\ active'[j] = u
      BY <1>1, <2>4, <3>1, <3>2
    <3> QED
      BY <3>3
  <2> QED
    BY <2>6, <2>7 DEF LoadInv, LiveAreActive, UsersInTheirTime, StatusFollowsTask, PlaySecond, Final
<1> QED
  BY <1>2, <1>3

\* The finally clause leaves no user alive.
LEMMA FinallyKeeps ==
  ASSUME LoadInv, NEW outcome \in Final, Finally(outcome), status # "none",
         task \in {"ticking", "asleep"}, UNCHANGED <<status, timeline, tick>>
  PROVE  LoadInv'
<1> DEFINE gone == {active[i] : i \in DOMAIN active}
<1>1. /\ user' \in [Users -> {"gone", "created", "testing", "thinking"}]
      /\ thread' \in [Users -> {"none", "queued", "running", "passed", "failed"}]
      /\ Live' = Live \ gone
  BY WithoutUsersKeeps DEF Finally
<1>2. Live' = {}
  BY <1>1 DEF LoadInv, LiveAreActive
<1>3. LoadTypeOK'
  BY <1>1 DEF LoadInv, LoadTypeOK, Finally
<1> QED
  BY <1>2, <1>3 DEF LoadInv, LiveAreActive, UsersInTheirTime, StatusFollowsTask, Finally, Final

\* What the steps of a user and of its thread leave alone.
LEMMA UserStepsKeep ==
  ASSUME LoadInv, NEW u \in Users, UserStep(u) \/ ThreadStep(u) PROVE LoadInv'
<1>1. CASE BeginTest(u)
  <2>1. Live' = Live /\ u \in Live
    BY <1>1 DEF BeginTest, LoadInv, LoadTypeOK, Live
  <2>2. task \in {"ticking", "asleep"}
    BY <2>1 DEF LoadInv, UsersInTheirTime
  <2>3. LoadTypeOK'
    BY <1>1 DEF BeginTest, LoadInv, LoadTypeOK, jobVars
  <2> QED
    BY <1>1, <2>1, <2>2, <2>3 DEF BeginTest, LoadInv, LiveAreActive, UsersInTheirTime,
       StatusFollowsTask, jobVars
<1>2. CASE Record(u)
  <2>1. Live' = Live /\ u \in Live
    BY <1>2 DEF Record, LoadInv, LoadTypeOK, Live
  <2>2. task \in {"ticking", "asleep"}
    BY <2>1 DEF LoadInv, UsersInTheirTime
  <2>3. LoadTypeOK'
    BY <1>2 DEF Record, LoadInv, LoadTypeOK, jobVars
  <2> QED
    BY <1>2, <2>1, <2>2, <2>3 DEF Record, LoadInv, LiveAreActive, UsersInTheirTime,
       StatusFollowsTask, jobVars
<1>3. CASE ThreadStep(u)
  <2>1. Live' = Live /\ UNCHANGED jobVars /\ UNCHANGED active
    BY <1>3 DEF ThreadStep, ThreadTakes, ThreadEnds, Live
  <2>2. u \in Busy
    BY <1>3 DEF ThreadStep, ThreadTakes, ThreadEnds, Busy
  <2>3. LoadTypeOK'
    BY <1>3, <2>1 DEF ThreadStep, ThreadTakes, ThreadEnds, LoadInv, LoadTypeOK, jobVars
  <2> QED
    BY <2>1, <2>2, <2>3 DEF LoadInv, LiveAreActive, UsersInTheirTime, StatusFollowsTask, jobVars
<1> QED
  BY <1>1, <1>2, <1>3 DEF UserStep

\* Every step keeps the invariant.
LEMMA LoadNextInv == ASSUME LoadInv, [LoadNext]_loadVars PROVE LoadInv'
<1>1. CASE Submit
  <2>1. timeline' \in Seq(Nat)
    BY <1>1, TimelineType DEF Submit
  <2>2. LoadTypeOK'
    BY <1>1, <2>1 DEF Submit, LoadInv, LoadTypeOK, userVars
  <2> QED
    BY <1>1, <2>2 DEF Submit, LoadInv, LiveAreActive, UsersInTheirTime, StatusFollowsTask,
       userVars, Live, Busy, Final
<1>2. CASE Cancel
  BY <1>2 DEF Cancel, LoadInv, LoadTypeOK, LiveAreActive, UsersInTheirTime, StatusFollowsTask,
     userVars, Live, Busy
<1>3. CASE NeverStart
  BY <1>3 DEF NeverStart, LoadInv, LoadTypeOK, LiveAreActive, UsersInTheirTime,
     StatusFollowsTask, userVars, Live, Busy
<1>4. CASE Start
  <2>1. LoadTypeOK'
    BY <1>4 DEF Start, LoadInv, LoadTypeOK, userVars, Final
  <2> QED
    BY <1>4, <2>1 DEF Start, LoadInv, LiveAreActive, UsersInTheirTime, StatusFollowsTask,
       userVars, Live, Busy, Final
<1>5. CASE PlaySecond
  BY <1>5, PlaySecondKeeps
<1>6. CASE NextTick
  BY <1>6 DEF NextTick, LoadInv, LoadTypeOK, LiveAreActive, UsersInTheirTime,
     StatusFollowsTask, userVars, Live, Busy
<1>7. CASE Complete
  BY <1>7, FinallyKeeps DEF Complete, LoadInv, StatusFollowsTask, Final
<1>8. CASE SeeCancellation
  BY <1>8, FinallyKeeps DEF SeeCancellation, LoadInv, StatusFollowsTask, Final
<1>9. CASE Gathered
  <2>1. LoadTypeOK'
    BY <1>9 DEF Gathered, LoadInv, LoadTypeOK, userVars
  <2> QED
    BY <1>9, <2>1 DEF Gathered, LoadInv, LiveAreActive, UsersInTheirTime, StatusFollowsTask,
       userVars, Live, Busy
<1>10. CASE Conclude
  <2>1. LoadTypeOK'
    BY <1>10 DEF Conclude, LoadInv, LoadTypeOK, userVars
  <2>2. status' # "none"
    BY <1>10 DEF Conclude, LoadInv, LoadTypeOK, StatusFollowsTask, Final
  <2>3. Live' = {} /\ Busy' = {}
    BY <1>10 DEF Conclude, Joined, LoadInv, UsersInTheirTime, userVars, Live, Busy
  <2> QED
    BY <1>10, <2>1, <2>2, <2>3 DEF Conclude, LoadInv, LiveAreActive, UsersInTheirTime,
       StatusFollowsTask, userVars
<1>11. CASE Second \/ UNCHANGED loadVars
  BY <1>11 DEF Second, LoadInv, LoadTypeOK, LiveAreActive, UsersInTheirTime,
     StatusFollowsTask, loadVars, jobVars, userVars, Live, Busy
<1>12. CASE \E u \in Users : UserStep(u) \/ ThreadStep(u)
  BY <1>12, UserStepsKeep
<1> QED
  BY <1>1, <1>2, <1>3, <1>4, <1>5, <1>6, <1>7, <1>8, <1>9, <1>10, <1>11, <1>12
     DEF LoadNext, RunnerStep

\* The invariant of a load job.
LEMMA LoadInvariant == Spec => []LoadInv
  BY LoadInitInv, LoadNextInv, PTL DEF Spec

(***************************************************************************)
(* However a load job ends (its timeline is over, it is cancelled once or  *)
(* again, it is never begun, none of its tests exists), none of its users  *)
(* lives and none of its tests runs or waits for a thread afterwards.      *)
(***************************************************************************)
THEOREM LoadLeavesNothing == Spec => []NothingRunsAfterwards
<1>1. LoadInv => NothingRunsAfterwards
  BY DEF LoadInv, UsersInTheirTime, NothingRunsAfterwards
<1> QED
  BY <1>1, LoadInvariant, PTL

(***************************************************************************)
(* The end of a load job, once a client has been told, is the end: the     *)
(* status, the report and the buckets behind it do not change any more.    *)
(***************************************************************************)
THEOREM LoadEndIsFinal == Spec => FinalIsFinal
<1> DEFINE Told == status \in Final \/ GetReport = 200
<1>1. LoadInv /\ Told => task = "finished" /\ status # "none" /\ Live = {}
  BY DEF LoadInv, LoadTypeOK, UsersInTheirTime, StatusFollowsTask, GetReport, Final
<1>2. ASSUME LoadInv, [LoadNext]_loadVars, Told PROVE UNCHANGED <<status, report, flushed>>
  <2>1. task = "finished" /\ status # "none" /\ Live = {}
    BY <1>1, <1>2
  <2>2. \A u \in Users : ~ Record(u)
    BY <2>1 DEF Record, Live
  <2> QED
    BY <1>2, <2>1, <2>2 DEF LoadNext, RunnerStep, UserStep, ThreadStep, Submit, Cancel, NeverStart,
       Start, PlaySecond, NextTick, Complete, SeeCancellation, Gathered, Conclude, Second,
       BeginTest, ThreadTakes, ThreadEnds, loadVars, jobVars, bucketVars
<1> HIDE DEF Told
<1>3. LoadInv /\ [LoadNext]_loadVars => [Told => UNCHANGED <<status, report, flushed>>]_loadVars
  BY <1>2
<1> QED
  BY <1>3, LoadInvariant, PTL DEF Spec, FinalIsFinal, Told

(***************************************************************************)
(* The buckets.  Time is rounded down to a multiple of the width.          *)
(***************************************************************************)
LEMMA Quotient ==
  ASSUME NEW k \in Nat \ {0}, NEW a \in Int
  PROVE  a \div k \in Int /\ k * (a \div k) <= a /\ a < k * (a \div k) + k
  OBVIOUS

LEMMA BucketsAscend ==
  ASSUME NEW a \in Int, NEW b \in Int, a <= b
  PROVE  BucketOf(a) \in Int /\ BucketOf(b) \in Int /\ BucketOf(a) <= BucketOf(b)
<1> DEFINE k == BucketS
           p == a \div k
           q == b \div k
<1>1. /\ k \in Nat \ {0} /\ p \in Int /\ k * p <= a /\ a < k * p + k
      /\ q \in Int /\ k * q <= b /\ b < k * q + k
  BY Quotient, LoadAssumption
<1> HIDE DEF k, p, q
<1>2. p <= q
  <2>1. k * p < k * q + k
    BY <1>1
  <2>2. ASSUME p > q PROVE FALSE
    <3>1. p - q - 1 \in Nat
      BY <1>1, <2>2
    <3>2. PICK d \in Nat : p = q + 1 + d
      BY <1>1, <3>1
    <3>3. k * p = k * q + k + k * d
      BY <1>1, <3>2
    <3>4. k * d \in Nat /\ k * q \in Int
      BY <1>1
    <3> QED
      BY <1>1, <2>1, <3>3, <3>4
  <2> QED
    BY <1>1, <2>2
<1>3. p * k <= q * k /\ p * k \in Int /\ q * k \in Int
  BY <1>1, <1>2
<1> QED
  BY <1>3 DEF BucketOf, k, p, q

Counts == [ok : Int, ko : Int]
Buckets == [t : Int, ok : Int, ko : Int]

\* The collector's clock starts no later than the timeline's, so that what is
\* flushed lies before the bucket of any later record.
ClocksInOrder ==
    /\ now \in Nat /\ begun \in Nat /\ collecting \in Nat
    /\ collecting <= begun /\ begun <= now

TableFormed ==
    /\ IsFiniteSet(DOMAIN open) /\ DOMAIN open \subseteq Int
    /\ open \in [DOMAIN open -> Counts]
    /\ flushed \in Seq(Buckets)

FlushedInThePast ==
    /\ task \in {"none", "created"} => flushed = <<>>
    /\ task # "finished" => \A i \in DOMAIN flushed : flushed[i].t < BucketOf(now - begun)

BucketInv == ClocksInOrder /\ TableFormed /\ FlushedInThePast /\ BucketsCloseOnce

LEMMA FlushedType ==
  ASSUME TableFormed
  PROVE  /\ DOMAIN flushed = 1..Len(flushed) /\ Len(flushed) \in Nat
         /\ \A i \in DOMAIN flushed : flushed[i].t \in Int
<1>1. flushed \in Seq(Buckets)
  BY DEF TableFormed
<1>2. DOMAIN flushed = 1..Len(flushed) /\ Len(flushed) \in Nat
      /\ \A i \in 1..Len(flushed) : flushed[i] \in Buckets
  BY <1>1
<1>3. \A b \in Buckets : b.t \in Int
  BY DEF Buckets
<1> QED
  BY <1>2, <1>3

\* Closing the earliest buckets keeps the order.
LEMMA FlushAscends ==
  ASSUME TableFormed, BucketsCloseOnce, NEW keys \in SUBSET DOMAIN open, Flush(keys),
         \A t \in keys : \A u \in DOMAIN open \ keys : t < u
  PROVE  /\ TableFormed' /\ BucketsCloseOnce'
         /\ \A i \in DOMAIN flushed' : \/ i \in DOMAIN flushed /\ flushed'[i] = flushed[i]
                                      \/ flushed'[i].t \in keys
<1> DEFINE n == Cardinality(keys)
           m == Len(flushed)
<1>1. IsFiniteSet(keys) /\ n \in Nat /\ m \in Nat /\ keys \subseteq Int
  BY FS_Subset, FS_CardinalityType DEF TableFormed
<1>2. PICK order \in [1..n -> keys] :
         /\ \A i, j \in 1..n : i < j => order[i] < order[j]
         /\ flushed' = flushed \o [i \in 1..n |-> Closed(order[i])]
  BY DEF Flush
<1> DEFINE more == [i \in 1..n |-> Closed(order[i])]
<1> HIDE DEF n, m
<1>3. more \in Seq(Buckets)
  <2>1. ASSUME NEW i \in 1..n PROVE Closed(order[i]) \in Buckets
    BY <1>1, <1>2, <2>1 DEF Closed, Buckets, Counts, TableFormed
  <2> QED
    BY <1>1, <2>1
<1>4. /\ flushed' \in Seq(Buckets) /\ DOMAIN flushed' = 1..(m + n)
      /\ \A i \in 1..m : flushed'[i] = flushed[i]
      /\ \A i \in (m + 1)..(m + n) : flushed'[i].t = order[i - m]
  <2>1. Len(more) = n /\ flushed' = flushed \o more /\ flushed \in Seq(Buckets)
    BY <1>1, <1>2, <1>3 DEF TableFormed
  <2>2. \A i \in 1..n : more[i].t = order[i]
    BY DEF Closed
  <2> HIDE DEF more
  <2>3. \A i \in 1..(m + n) : flushed'[i] = IF i <= m THEN flushed[i] ELSE more[i - m]
    BY <1>1, <1>3, <2>1, ConcatProperties DEF m
  <2>4. flushed' \in Seq(Buckets) /\ Len(flushed') = m + n
    BY <1>1, <1>3, <2>1, ConcatProperties DEF m
  <2>5. DOMAIN flushed' = 1..(m + n)
    BY <2>4
  <2>6. \A i \in (m + 1)..(m + n) : i \in 1..(m + n) /\ ~(i <= m) /\ i - m \in 1..n
    BY <1>1
  <2>7. \A i \in 1..m : i \in 1..(m + n) /\ i <= m
    BY <1>1
  <2> QED
    BY <2>2, <2>3, <2>4, <2>5, <2>6, <2>7
<1>5. open' = [t \in DOMAIN open \ keys |-> open[t]]
  BY DEF Flush
<1>6. TableFormed'
  <2>1. DOMAIN open' = DOMAIN open \ keys /\ IsFiniteSet(DOMAIN open')
    BY <1>5, FS_Subset DEF TableFormed
  <2> QED
    BY <1>4, <1>5, <2>1 DEF TableFormed
<1>7. DOMAIN flushed = 1..m /\ \A i \in 1..m : flushed[i].t \in Int
  BY FlushedType DEF m
<1>8. \A i \in (m + 1)..(m + n) : i - m \in 1..n /\ order[i - m] \in keys
  BY <1>1, <1>2
<1>9. ASSUME NEW i \in 1..(m + n), NEW j \in 1..(i - 1) PROVE flushed'[j].t < flushed'[i].t
  <2>1. CASE i <= m
    <3>1. i \in 1..m /\ j \in 1..m
      BY <1>1, <2>1
    <3> QED
      BY <1>4, <1>7, <3>1 DEF BucketsCloseOnce
  <2>2. CASE i > m /\ j <= m
    <3>1. i \in (m + 1)..(m + n) /\ j \in 1..m
      BY <1>1, <2>2
    <3>2. flushed[j].t < order[i - m]
      BY <1>7, <1>8, <3>1 DEF BucketsCloseOnce
    <3> QED
      BY <1>4, <3>1, <3>2
  <2>3. CASE j > m
    <3>1. /\ i \in (m + 1)..(m + n) /\ j \in (m + 1)..(m + n)
          /\ i - m \in 1..n /\ j - m \in 1..n /\ j - m < i - m
      BY <1>1, <2>3
    <3>2. order[j - m] < order[i - m]
      BY <1>2, <3>1
    <3> QED
      BY <1>4, <3>1, <3>2
  <2> QED
    BY <1>1, <2>1, <2>2, <2>3
<1>10. ASSUME NEW i \in 1..(m + n), NEW t \in DOMAIN open' PROVE flushed'[i].t < t
  <2>1. CASE i <= m
    <3>1. i \in 1..m /\ t \in DOMAIN open
      BY <1>1, <1>5, <2>1
    <3> QED
      BY <1>4, <1>7, <3>1 DEF BucketsCloseOnce
  <2>2. CASE i > m
    <3>1. i \in (m + 1)..(m + n) /\ t \in DOMAIN open \ keys
      BY <1>1, <1>5, <2>2
    <3>2. order[i - m] < t
      BY <1>8, <3>1
    <3> QED
      BY <1>4, <3>1, <3>2
  <2> QED
    BY <1>1, <2>1, <2>2
<1> QED
  BY <1>1, <1>4, <1>6, <1>7, <1>8, <1>9, <1>10 DEF BucketsCloseOnce

\* A user records while the timeline is played, into a bucket of the present.
LEMMA RecordKeepsOrder ==
  ASSUME LoadInv, BucketInv, NEW u \in Users, Record(u)
  PROVE  BucketInv'
<1>1. task = "asleep"
  BY DEF LoadInv, LoadTypeOK, UsersInTheirTime, Live, Record, LoopFree
<1> DEFINE t == BucketOf(now - collecting)
           c == IF t \in DOMAIN open THEN open[t] ELSE [ok |-> 0, ko |-> 0]
           ok == thread[u] = "passed"
<1>2. t \in Int /\ \A i \in DOMAIN flushed : flushed[i].t < t
  <2>1. now - collecting \in Int /\ now - begun \in Int /\ now - begun <= now - collecting
    BY DEF BucketInv, ClocksInOrder
  <2>2. BucketOf(now - begun) \in Int /\ BucketOf(now - begun) <= t /\ t \in Int
    BY <2>1, BucketsAscend
  <2>3. \A i \in DOMAIN flushed : flushed[i].t \in Int /\ flushed[i].t < BucketOf(now - begun)
    BY <1>1, FlushedType DEF BucketInv, FlushedInThePast
  <2> QED
    BY <2>2, <2>3
<1>3. Plus(c, ok) \in Counts
  <2>1. c \in Counts
    BY DEF BucketInv, TableFormed, Counts
  <2> HIDE DEF c
  <2> QED
    BY <2>1 DEF Plus, Counts
<1>4. open' = [k \in DOMAIN open \cup {t} |-> IF k = t THEN Plus(c, ok) ELSE open[k]]
  BY DEF Record
<1>5. UNCHANGED <<flushed, now, begun, collecting, task>>
  BY DEF Record, jobVars
<1> HIDE DEF t, c, ok
<1>6. DOMAIN open' = DOMAIN open \cup {t} /\ open' \in [DOMAIN open' -> Counts]
  BY <1>3, <1>4 DEF BucketInv, TableFormed
<1>7. IsFiniteSet(DOMAIN open')
  BY <1>6, FS_AddElement DEF BucketInv, TableFormed
<1>8. TableFormed'
  BY <1>2, <1>5, <1>6, <1>7 DEF BucketInv, TableFormed
<1>9. BucketsCloseOnce'
  BY <1>2, <1>5, <1>6 DEF BucketInv, BucketsCloseOnce
<1>10. ClocksInOrder' /\ FlushedInThePast'
  BY <1>5 DEF BucketInv, ClocksInOrder, FlushedInThePast, BucketOf
<1> QED
  BY <1>8, <1>9, <1>10 DEF BucketInv

LEMMA PlaySecondKeepsOrder ==
  ASSUME BucketInv, PlaySecond
  PROVE  BucketInv'
<1> DEFINE keys == {t \in DOMAIN open : IsClosed(t, now - begun)}
<1>1. Flush(keys) /\ task = "ticking" /\ task' = "asleep"
      /\ UNCHANGED <<now, begun, collecting>>
  BY DEF PlaySecond
<1>2. now - begun \in Int /\ BucketOf(now - begun) \in Int
  BY BucketsAscend DEF BucketInv, ClocksInOrder
<1>3. \A t \in keys : t < BucketOf(now - begun)
  BY DEF IsClosed
<1>4. \A t \in keys : \A v \in DOMAIN open \ keys : t < v
  BY <1>2 DEF IsClosed, BucketInv, TableFormed
<1>5. keys \in SUBSET DOMAIN open
  OBVIOUS
<1> HIDE DEF keys
<1>6. /\ TableFormed' /\ BucketsCloseOnce'
      /\ \A i \in DOMAIN flushed' : \/ i \in DOMAIN flushed /\ flushed'[i] = flushed[i]
                                   \/ flushed'[i].t \in keys
  BY <1>1, <1>4, <1>5, FlushAscends DEF BucketInv
<1>7. \A i \in DOMAIN flushed' : flushed'[i].t < BucketOf(now - begun)
  BY <1>1, <1>3, <1>6 DEF BucketInv, FlushedInThePast
<1> QED
  BY <1>1, <1>6, <1>7 DEF BucketInv, ClocksInOrder, FlushedInThePast, BucketOf

LEMMA BucketStep ==
  ASSUME LoadInv, BucketInv, [LoadNext]_loadVars
  PROVE  BucketInv'
<1>1. ASSUME UNCHANGED <<open, flushed>>, ClocksInOrder',
             begun' = begun, now' >= now, task = "finished" => task' = "finished",
             task' \in {"none", "created"} => task \in {"none", "created"}
      PROVE  BucketInv'
  <2>1. TableFormed' /\ BucketsCloseOnce'
    BY <1>1 DEF BucketInv, TableFormed, BucketsCloseOnce
  <2>2. /\ BucketOf(now - begun) \in Int /\ BucketOf(now' - begun) \in Int
        /\ BucketOf(now - begun) <= BucketOf(now' - begun)
    <3>1. now \in Nat /\ begun \in Nat /\ now' \in Nat /\ now <= now'
      BY <1>1 DEF BucketInv, ClocksInOrder
    <3>2. \A a, b, c \in Nat : a <= b => a - c \in Int /\ b - c \in Int /\ a - c <= b - c
      OBVIOUS
    <3>3. now - begun \in Int /\ now' - begun \in Int /\ now - begun <= now' - begun
      BY <3>1, <3>2
    <3> QED
      BY <3>3, BucketsAscend
  <2>3. \A i \in DOMAIN flushed : flushed[i].t \in Int
    BY FlushedType DEF BucketInv
  <2>4. FlushedInThePast'
    BY <1>1, <2>2, <2>3 DEF BucketInv, FlushedInThePast, BucketOf
  <2> QED
    BY <1>1, <2>1, <2>4 DEF BucketInv
<1>2. CASE Submit
  BY <1>1, <1>2 DEF Submit, userVars, bucketVars, BucketInv, ClocksInOrder, LoadInv, StatusFollowsTask
<1>3. CASE Cancel \/ NeverStart \/ NextTick \/ Complete \/ SeeCancellation \/ Gathered \/ Second
           \/ UNCHANGED loadVars
  BY <1>1, <1>3 DEF Cancel, NeverStart, NextTick, Complete, SeeCancellation, Gathered, Second, Finally,
     loadVars, jobVars, userVars, bucketVars, BucketInv, ClocksInOrder
<1>4. CASE Start
  <2>1. flushed = <<>> /\ UNCHANGED <<open, flushed>> /\ task' \notin {"none", "created"}
    BY <1>4 DEF Start, bucketVars, BucketInv, FlushedInThePast
  <2>2. ClocksInOrder'
    BY <1>4 DEF Start, BucketInv, ClocksInOrder
  <2>3. TableFormed' /\ BucketsCloseOnce'
    BY <2>1 DEF BucketInv, TableFormed, BucketsCloseOnce
  <2>4. FlushedInThePast'
    BY <2>1 DEF FlushedInThePast
  <2> QED
    BY <2>2, <2>3, <2>4 DEF BucketInv
<1>5. CASE PlaySecond
  BY <1>5, PlaySecondKeepsOrder
<1>6. CASE Conclude
  <2>1. CASE final = "lost"
    BY <1>1, <1>6, <2>1 DEF Conclude, BucketInv, ClocksInOrder
  <2>2. CASE final # "lost"
    <3>1. Flush(DOMAIN open) /\ task' = "finished" /\ UNCHANGED <<now, begun, collecting>>
      BY <1>6, <2>2 DEF Conclude
    <3>2. DOMAIN open \in SUBSET DOMAIN open
          /\ \A t \in DOMAIN open : \A v \in DOMAIN open \ DOMAIN open : t < v
      OBVIOUS
    <3>3. TableFormed' /\ BucketsCloseOnce'
      BY <3>1, <3>2, FlushAscends DEF BucketInv
    <3> QED
      BY <3>1, <3>3 DEF BucketInv, ClocksInOrder, FlushedInThePast
  <2> QED
    BY <2>1, <2>2
<1>7. ASSUME NEW u \in Users, UserStep(u) \/ ThreadStep(u) PROVE BucketInv'
  <2>1. CASE Record(u)
    BY <2>1, RecordKeepsOrder
  <2>2. CASE BeginTest(u) \/ ThreadStep(u)
    BY <1>1, <2>2 DEF BeginTest, ThreadStep, ThreadTakes, ThreadEnds, jobVars, bucketVars,
       BucketInv, ClocksInOrder
  <2> QED
    BY <1>7, <2>1, <2>2 DEF UserStep
<1> QED
  BY <1>2, <1>3, <1>4, <1>5, <1>6, <1>7 DEF LoadNext, RunnerStep

(***************************************************************************)
(* The records.  What leaves a bucket that is open is in one that is       *)
(* flushed; what is recorded is in an open bucket.                         *)
(***************************************************************************)

\* b is a, of m values, followed by the n values of o at keys, in this order.
Appends(b, a, m, o, keys, order, n) ==
    /\ n = Cardinality(keys) /\ order \in [1..n -> keys]
    /\ \A i, j \in 1..n : i < j => order[i] # order[j]
    /\ m \in Nat /\ \A i \in 1..m : a[i] \in Int /\ b[i] = a[i]
    /\ \A i \in (m + 1)..(m + n) : b[i] = o[order[i - m]]

\* What leaves the one sum is in the other.
LEMMA SumMoves ==
  ASSUME NEW D, IsFiniteSet(D), NEW keys \in SUBSET D, NEW o, \A x \in D : o[x] \in Int,
         NEW n, NEW order, NEW m, NEW a, NEW b, Appends(b, a, m, o, keys, order, n)
  PROVE  SumFunctionOnSet(b, 1..(m + n)) + SumFunctionOnSet(o, D \ keys)
         = SumFunctionOnSet(a, 1..m) + SumFunctionOnSet(o, D)
<1>0. /\ n = Cardinality(keys) /\ order \in [1..n -> keys] /\ m \in Nat
      /\ \A i, j \in 1..n : i < j => order[i] # order[j]
      /\ \A i \in 1..m : a[i] \in Int
      /\ \A i \in 1..m : b[i] = a[i]
      /\ \A i \in (m + 1)..(m + n) : b[i] = o[order[i - m]]
  BY DEF Appends
<1>1. IsFiniteSet(keys) /\ IsFiniteSet(D \ keys) /\ n \in Nat
  BY <1>0, FS_Subset, FS_CardinalityType
<1>2. IsFiniteSet(1..n) /\ IsFiniteSet(1..m) /\ IsFiniteSet((m + 1)..(m + n))
      /\ Cardinality(1..n) = n
  <2>1. m + 1 \in Int /\ m + n \in Int /\ 1 \in Int /\ n \in Int /\ m \in Int
        /\ (1 > n => n = 0) /\ (n - 1) + 1 = n
    BY <1>0, <1>1
  <2> QED
    BY <1>0, <2>1, FS_Interval
<1>3. \A y \in keys : \E i \in 1..n : order[i] = y
  <2>1. \A i, j \in 1..n : order[i] = order[j] => i = j
    BY <1>0, <1>1
  <2>2. order \in Injection(1..n, keys)
    BY <1>0, <2>1 DEF Injection, IsInjective
  <2>3. order \in Surjection(1..n, keys)
    BY <1>0, <1>1, <1>2, <2>2, FS_Injection
  <2> QED
    BY <2>3 DEF Surjection
<1> DEFINE new == (m + 1)..(m + n)
           p == [i \in new |-> order[i - m]]
<1>4. \A i \in new : i - m \in 1..n /\ order[i - m] \in keys
  BY <1>0, <1>1
<1>5. {p[i] : i \in new} = keys
  <2>1. \A i \in 1..n : i + m \in new /\ (i + m) - m = i
    BY <1>0, <1>1
  <2> QED
    BY <1>0, <1>3, <1>4, <2>1
<1>6. \A i, j \in new : p[i] = p[j] => i = j
  <2> SUFFICES ASSUME NEW i \in new, NEW j \in new, p[i] = p[j], i # j PROVE FALSE
    OBVIOUS
  <2>1. order[i - m] = order[j - m] /\ i - m # j - m /\ i - m \in 1..n /\ j - m \in 1..n
    BY <1>0, <1>1, <1>4
  <2> QED
    BY <1>0, <1>1, <2>1
<1>7. \A i \in new : b[i] \in Int /\ o[p[i]] = b[i]
  BY <1>0, <1>4
<1>8. 1..(m + n) = (1..m) \cup new /\ (1..m) \cap new = {}
  BY <1>0, <1>1
<1>9. IsFiniteSet(new)
  BY <1>0, <1>2
<1> HIDE DEF p, new
<1>10. SumFunctionOnSet(o, keys) = SumFunctionOnSet(b, new)
  <2>1. (\A i \in new : p[i] \in keys) /\ (\A y \in keys : \E i \in new : p[i] = y)
    BY <1>0, <1>5
  <2> QED
    BY <1>0, <1>6, <1>7, <1>9, <2>1, SumImage
<1>11. SumFunctionOnSet(o, D) = SumFunctionOnSet(o, keys) + SumFunctionOnSet(o, D \ keys)
  <2>1. keys \cup (D \ keys) = D /\ keys \cap (D \ keys) = {}
    OBVIOUS
  <2>2. SumFunctionOnSet(o, keys \cup (D \ keys))
        = SumFunctionOnSet(o, keys) + SumFunctionOnSet(o, D \ keys)
    BY <1>0, <1>1, <2>1, SumDisjoint
  <2> QED
    BY <2>1, <2>2
<1>12. SumFunctionOnSet(b, 1..(m + n)) = SumFunctionOnSet(b, 1..m) + SumFunctionOnSet(b, new)
  <2>1. \A i \in (1..m) \cup new : b[i] \in Int
    BY <1>0, <1>7
  <2> DEFINE old == 1..m
  <2>2. IsFiniteSet(old) /\ old \cap new = {} /\ \A i \in old \cup new : b[i] \in Int
    BY <1>0, <1>2, <1>8, <2>1
  <2> HIDE DEF old
  <2>3. SumFunctionOnSet(b, old \cup new) = SumFunctionOnSet(b, old) + SumFunctionOnSet(b, new)
    BY <1>0, <1>9, <2>2, SumDisjoint
  <2>4. SumFunctionOnSet(b, (1..m) \cup new) = SumFunctionOnSet(b, 1..m) + SumFunctionOnSet(b, new)
    BY <2>3 DEF old
  <2> QED
    BY <1>0, <1>8, <2>4
<1>13. SumFunctionOnSet(a, 1..m) = SumFunctionOnSet(b, 1..m)
  BY <1>0, <1>2, SumSame
<1>14. /\ SumFunctionOnSet(a, 1..m) \in Int /\ SumFunctionOnSet(o, keys) \in Int
       /\ SumFunctionOnSet(o, D \ keys) \in Int
  BY <1>0, <1>1, <1>2, SumTaken
<1> QED
  BY <1>0, <1>10, <1>11, <1>12, <1>13, <1>14

\* r is o with the value of t raised by k, or with t added.
Raises(o, D, t, k, r) ==
  /\ IsFiniteSet(D) /\ k \in Int /\ \A x \in D : o[x] \in Int
  /\ \A x \in D \ {t} : r[x] = o[x]
  /\ r[t] = (IF t \in D THEN o[t] ELSE 0) + k

\* One value grows by k, or is new.
LEMMA SumRaised ==
  ASSUME NEW o, NEW D, NEW t, NEW k, NEW r, Raises(o, D, t, k, r)
  PROVE  SumFunctionOnSet(r, D \cup {t}) = SumFunctionOnSet(o, D) + k
<1>0. /\ IsFiniteSet(D) /\ k \in Int /\ \A x \in D : o[x] \in Int
      /\ \A x \in D \ {t} : r[x] = o[x]
      /\ r[t] = (IF t \in D THEN o[t] ELSE 0) + k
  BY DEF Raises
<1> USE <1>0
<1> DEFINE E == D \ {t}
<1>1. IsFiniteSet(E) /\ E \cup {t} = D \cup {t} /\ t \notin E
  BY FS_Subset
<1>2. r[t] \in Int /\ \A x \in E \cup {t} : r[x] \in Int
  OBVIOUS
<1>3. \A x \in E : o[x] \in Int /\ r[x] = o[x]
  OBVIOUS
<1> HIDE DEF E
<1>4. SumFunctionOnSet(r, E \cup {t}) = SumFunctionOnSet(r, E) + r[t]
  BY <1>1, <1>2, SumGrows
<1>5. SumFunctionOnSet(o, E) = SumFunctionOnSet(r, E) /\ SumFunctionOnSet(o, E) \in Int
  BY <1>1, <1>3, SumSame, SumTaken
<1>6. CASE t \in D
  <2>1. SumFunctionOnSet(o, D) = o[t] + SumFunctionOnSet(o, D \ {t}) /\ o[t] \in Int
    BY <1>6, SumTaken
  <2>2. SumFunctionOnSet(r, D \cup {t}) = SumFunctionOnSet(o, E) + (o[t] + k)
    BY <1>1, <1>4, <1>5, <1>6
  <2>3. SumFunctionOnSet(o, D) = o[t] + SumFunctionOnSet(o, E)
    BY <2>1 DEF E
  <2> QED
    BY <1>5, <2>1, <2>2, <2>3
<1>7. CASE t \notin D
  <2>1. E = D
    BY <1>7 DEF E
  <2> QED
    BY <1>1, <1>4, <1>5, <1>7, <2>1
<1> QED
  BY <1>6, <1>7

Oks(f) == [x \in DOMAIN f |-> f[x].ok]
Kos(f) == [x \in DOMAIN f |-> f[x].ko]

\* Every record is in a bucket, and there is a report at the end only.
RecordsInBuckets ==
    /\ recorded \in Counts
    /\ recorded.ok = SumFunction(Oks(flushed)) + SumFunction(Oks(open))
    /\ recorded.ko = SumFunction(Kos(flushed)) + SumFunction(Kos(open))
    /\ report # None => report = recorded /\ task = "finished"

LEMMA RecordsAreKept == RecordsInBuckets => NoRecordLost
BY DEF RecordsInBuckets, NoRecordLost, FlushedTotal, Oks, Kos

\* What the sums range over.
LEMMA SumsOfBuckets ==
  ASSUME NEW o, NEW fl, IsFiniteSet(DOMAIN o), o \in [DOMAIN o -> Counts], fl \in Seq(Buckets)
  PROVE  /\ Len(fl) \in Nat
         /\ \A t \in DOMAIN o : Oks(o)[t] = o[t].ok /\ Kos(o)[t] = o[t].ko
                                /\ o[t].ok \in Int /\ o[t].ko \in Int
         /\ \A i \in 1..Len(fl) : Oks(fl)[i] = fl[i].ok /\ Kos(fl)[i] = fl[i].ko
                                  /\ fl[i].ok \in Int /\ fl[i].ko \in Int
         /\ SumFunction(Oks(o)) = SumFunctionOnSet(Oks(o), DOMAIN o)
         /\ SumFunction(Kos(o)) = SumFunctionOnSet(Kos(o), DOMAIN o)
         /\ SumFunction(Oks(fl)) = SumFunctionOnSet(Oks(fl), 1..Len(fl))
         /\ SumFunction(Kos(fl)) = SumFunctionOnSet(Kos(fl), 1..Len(fl))
         /\ SumFunction(Oks(o)) \in Int /\ SumFunction(Kos(o)) \in Int
         /\ SumFunction(Oks(fl)) \in Int /\ SumFunction(Kos(fl)) \in Int
<1>1. DOMAIN fl = 1..Len(fl) /\ Len(fl) \in Nat /\ \A i \in 1..Len(fl) : fl[i] \in Buckets
  OBVIOUS
<1>2. \A t \in DOMAIN o : o[t].ok \in Int /\ o[t].ko \in Int
  BY DEF Counts
<1>3. \A i \in 1..Len(fl) : fl[i].ok \in Int /\ fl[i].ko \in Int
  BY <1>1 DEF Buckets
<1>4. DOMAIN Oks(o) = DOMAIN o /\ DOMAIN Kos(o) = DOMAIN o
      /\ DOMAIN Oks(fl) = 1..Len(fl) /\ DOMAIN Kos(fl) = 1..Len(fl)
  BY <1>1 DEF Oks, Kos
<1>5. /\ \A t \in DOMAIN o : Oks(o)[t] = o[t].ok /\ Kos(o)[t] = o[t].ko
      /\ \A i \in 1..Len(fl) : Oks(fl)[i] = fl[i].ok /\ Kos(fl)[i] = fl[i].ko
  BY <1>1 DEF Oks, Kos
<1>6. IsFiniteSet(1..Len(fl))
  BY SMTT(60), <1>1, FS_Interval
<1>7. /\ SumFunctionOnSet(Oks(o), DOMAIN o) \in Int /\ SumFunctionOnSet(Kos(o), DOMAIN o) \in Int
      /\ SumFunctionOnSet(Oks(fl), 1..Len(fl)) \in Int /\ SumFunctionOnSet(Kos(fl), 1..Len(fl)) \in Int
  BY <1>2, <1>3, <1>5, <1>6, SumTaken
<1> QED
  BY <1>1, <1>2, <1>3, <1>4, <1>5, <1>7 DEF SumFunction

\* Closing buckets moves their records.
LEMMA FlushKeepsRecords ==
  ASSUME TableFormed, TableFormed', NEW keys \in SUBSET DOMAIN open, Flush(keys)
  PROVE  /\ SumFunction(Oks(flushed')) + SumFunction(Oks(open'))
            = SumFunction(Oks(flushed)) + SumFunction(Oks(open))
         /\ SumFunction(Kos(flushed')) + SumFunction(Kos(open'))
            = SumFunction(Kos(flushed)) + SumFunction(Kos(open))
<1> DEFINE n == Cardinality(keys)
           m == Len(flushed)
<1>1. IsFiniteSet(keys) /\ n \in Nat /\ m \in Nat /\ keys \subseteq Int
  BY FS_Subset, FS_CardinalityType DEF TableFormed
<1>2. PICK order \in [1..n -> keys] :
         /\ \A i, j \in 1..n : i < j => order[i] < order[j]
         /\ flushed' = flushed \o [i \in 1..n |-> Closed(order[i])]
  BY DEF Flush
<1> HIDE DEF n, m
<1>3. \A i, j \in 1..n : i < j => order[i] # order[j]
  BY <1>1, <1>2
<1>4. /\ Len(flushed') = m + n
      /\ \A i \in 1..m : flushed'[i] = flushed[i]
      /\ \A i \in (m + 1)..(m + n) : flushed'[i] = Closed(order[i - m])
  <2> DEFINE more == [i \in 1..n |-> Closed(order[i])]
  <2>1. \A i \in 1..n : Closed(order[i]) \in Buckets
    BY <1>1, <1>2 DEF Closed, Buckets, Counts, TableFormed
  <2>2. more \in Seq(Buckets)
    BY <1>1, <2>1
  <2>3. more \in Seq(Buckets) /\ Len(more) = n /\ flushed \in Seq(Buckets)
    BY <1>1, <2>2 DEF TableFormed
  <2>4. \A i \in 1..n : more[i] = Closed(order[i])
    OBVIOUS
  <2>5. flushed' = flushed \o more
    BY <1>2
  <2> HIDE DEF more
  <2>6. Len(flushed') = m + n
        /\ \A i \in 1..(m + n) : flushed'[i] = IF i <= m THEN flushed[i] ELSE more[i - m]
    BY <2>3, <2>5, ConcatProperties DEF m
  <2>7. \A i \in (m + 1)..(m + n) : i \in 1..(m + n) /\ ~(i <= m) /\ i - m \in 1..n
    BY <1>1
  <2>8. \A i \in 1..m : i \in 1..(m + n) /\ i <= m
    BY <1>1
  <2> QED
    BY <2>4, <2>6, <2>7, <2>8
<1>5. DOMAIN open' = DOMAIN open \ keys /\ \A t \in DOMAIN open' : open'[t] = open[t]
  BY DEF Flush
<1>6. \A i \in (m + 1)..(m + n) : i \in 1..(m + n) /\ order[i - m] \in keys
      /\ order[i - m] \in DOMAIN open
  <2>1. \A i \in (m + 1)..(m + n) : i \in 1..(m + n) /\ i - m \in 1..n
    BY <1>1
  <2> QED
    BY <1>2, <2>1
<1>7. \A i \in 1..m : i \in 1..(m + n)
  BY <1>1
<1> DEFINE D == DOMAIN open
<1>8. /\ IsFiniteSet(D)
      /\ \A t \in D : Oks(open)[t] = open[t].ok /\ Kos(open)[t] = open[t].ko
                      /\ open[t].ok \in Int /\ open[t].ko \in Int
      /\ \A i \in 1..m : Oks(flushed)[i] = flushed[i].ok /\ Kos(flushed)[i] = flushed[i].ko
                         /\ flushed[i].ok \in Int /\ flushed[i].ko \in Int
      /\ SumFunction(Oks(open)) = SumFunctionOnSet(Oks(open), D)
      /\ SumFunction(Kos(open)) = SumFunctionOnSet(Kos(open), D)
      /\ SumFunction(Oks(flushed)) = SumFunctionOnSet(Oks(flushed), 1..m)
      /\ SumFunction(Kos(flushed)) = SumFunctionOnSet(Kos(flushed), 1..m)
  BY SumsOfBuckets DEF TableFormed, m
<1>9. /\ IsFiniteSet(DOMAIN open')
      /\ \A t \in DOMAIN open' : Oks(open')[t] = open'[t].ok /\ Kos(open')[t] = open'[t].ko
      /\ \A i \in 1..Len(flushed') : Oks(flushed')[i] = flushed'[i].ok /\ Kos(flushed')[i] = flushed'[i].ko
      /\ SumFunction(Oks(open')) = SumFunctionOnSet(Oks(open'), DOMAIN open')
      /\ SumFunction(Kos(open')) = SumFunctionOnSet(Kos(open'), DOMAIN open')
      /\ SumFunction(Oks(flushed')) = SumFunctionOnSet(Oks(flushed'), 1..Len(flushed'))
      /\ SumFunction(Kos(flushed')) = SumFunctionOnSet(Kos(flushed'), 1..Len(flushed'))
  <2>1. IsFiniteSet(DOMAIN open') /\ open' \in [DOMAIN open' -> Counts] /\ flushed' \in Seq(Buckets)
    BY DEF TableFormed
  <2> QED
    BY <2>1, SumsOfBuckets
<1>10. /\ \A i \in 1..m : Oks(flushed')[i] = Oks(flushed)[i] /\ Kos(flushed')[i] = Kos(flushed)[i]
                          /\ Oks(flushed)[i] \in Int /\ Kos(flushed)[i] \in Int
       /\ \A i \in (m + 1)..(m + n) : Oks(flushed')[i] = Oks(open)[order[i - m]]
                                      /\ Kos(flushed')[i] = Kos(open)[order[i - m]]
       /\ \A t \in D : Oks(open)[t] \in Int /\ Kos(open)[t] \in Int
  <2>1. \A i \in (m + 1)..(m + n) : /\ flushed'[i].ok = open[order[i - m]].ok
                                    /\ flushed'[i].ko = open[order[i - m]].ko
    <3>1. \A x : Closed(x).ok = open[x].ok /\ Closed(x).ko = open[x].ko
      BY DEF Closed
    <3> QED
      BY <1>4, <3>1, Zenon
  <2>2. \A i \in 1..(m + n) : Oks(flushed')[i] = flushed'[i].ok /\ Kos(flushed')[i] = flushed'[i].ko
    BY <1>4, <1>9
  <2>3. ASSUME NEW i \in 1..m
        PROVE  /\ Oks(flushed')[i] = Oks(flushed)[i] /\ Kos(flushed')[i] = Kos(flushed)[i]
               /\ Oks(flushed)[i] \in Int /\ Kos(flushed)[i] \in Int
    <3>1. flushed'[i] = flushed[i] /\ i \in 1..(m + n)
      BY <1>4, <1>7
    <3> QED
      BY <1>8, <2>2, <3>1
  <2>4. ASSUME NEW i \in (m + 1)..(m + n)
        PROVE  /\ Oks(flushed')[i] = Oks(open)[order[i - m]]
               /\ Kos(flushed')[i] = Kos(open)[order[i - m]]
    <3>1. i \in 1..(m + n) /\ order[i - m] \in D
      BY <1>6
    <3>2. /\ Oks(open)[order[i - m]] = open[order[i - m]].ok
          /\ Kos(open)[order[i - m]] = open[order[i - m]].ko
      BY <1>8, <3>1
    <3> QED
      BY <2>1, <2>2, <3>1, <3>2
  <2>5. \A t \in D : Oks(open)[t] \in Int /\ Kos(open)[t] \in Int
    BY <1>8
  <2> QED
    BY <2>3, <2>4, <2>5
<1>11. /\ SumFunctionOnSet(Oks(flushed'), 1..(m + n)) + SumFunctionOnSet(Oks(open), D \ keys)
          = SumFunctionOnSet(Oks(flushed), 1..m) + SumFunctionOnSet(Oks(open), D)
       /\ SumFunctionOnSet(Kos(flushed'), 1..(m + n)) + SumFunctionOnSet(Kos(open), D \ keys)
          = SumFunctionOnSet(Kos(flushed), 1..m) + SumFunctionOnSet(Kos(open), D)
  <2>1. n = Cardinality(keys) /\ keys \in SUBSET D
    BY DEF n
  <2>2. ASSUME NEW o, \A t \in D : o[t] \in Int, NEW f, NEW g, Appends(g, f, m, o, keys, order, n)
        PROVE  SumFunctionOnSet(g, 1..(m + n)) + SumFunctionOnSet(o, D \ keys)
               = SumFunctionOnSet(f, 1..m) + SumFunctionOnSet(o, D)
    BY <1>8, <2>1, <2>2, SumMoves
  <2> DEFINE f1 == Oks(flushed)
             f2 == Kos(flushed)
             g1 == Oks(flushed')
             g2 == Kos(flushed')
             o1 == Oks(open)
             o2 == Kos(open)
  <2>3. /\ Appends(g1, f1, m, o1, keys, order, n) /\ Appends(g2, f2, m, o2, keys, order, n)
        /\ \A t \in D : o1[t] \in Int /\ o2[t] \in Int
    BY <1>1, <1>2, <1>3, <1>10, <2>1 DEF Appends
  <2> HIDE DEF f1, f2, g1, g2, o1, o2, D
  <2>4. SumFunctionOnSet(g1, 1..(m + n)) + SumFunctionOnSet(o1, D \ keys)
        = SumFunctionOnSet(f1, 1..m) + SumFunctionOnSet(o1, D)
    BY <2>2, <2>3
  <2>5. SumFunctionOnSet(g2, 1..(m + n)) + SumFunctionOnSet(o2, D \ keys)
        = SumFunctionOnSet(f2, 1..m) + SumFunctionOnSet(o2, D)
    BY <2>2, <2>3
  <2> QED
    BY <2>4, <2>5 DEF f1, f2, g1, g2, o1, o2
<1>12. \A t \in DOMAIN open' : Oks(open')[t] = Oks(open)[t] /\ Kos(open')[t] = Kos(open)[t]
                               /\ Oks(open)[t] \in Int /\ Kos(open)[t] \in Int
  BY <1>5, <1>8, <1>9
<1>13. /\ SumFunctionOnSet(Oks(open'), DOMAIN open') = SumFunctionOnSet(Oks(open), D \ keys)
       /\ SumFunctionOnSet(Kos(open'), DOMAIN open') = SumFunctionOnSet(Kos(open), D \ keys)
  <2>1. SumFunctionOnSet(Oks(open), DOMAIN open') = SumFunctionOnSet(Oks(open'), DOMAIN open')
    BY <1>9, <1>12, SumSame
  <2>2. SumFunctionOnSet(Kos(open), DOMAIN open') = SumFunctionOnSet(Kos(open'), DOMAIN open')
    BY <1>9, <1>12, SumSame
  <2> QED
    BY <1>5, <2>1, <2>2
<1> QED
  BY <1>4, <1>8, <1>9, <1>11, <1>13

\* A record goes to one bucket.
LEMMA RecordCounts ==
  ASSUME TableFormed, TableFormed', RecordsInBuckets, LoadInv, NEW u \in Users, Record(u)
  PROVE  RecordsInBuckets'
<1> DEFINE t == BucketOf(now - collecting)
           ok == thread[u] = "passed"
           c == IF t \in DOMAIN open THEN open[t] ELSE [ok |-> 0, ko |-> 0]
           one == IF ok THEN 1 ELSE 0
           D == DOMAIN open
<1>1. /\ open' = [k \in D \cup {t} |-> IF k = t THEN Plus(c, ok) ELSE open[k]]
      /\ recorded' = Plus(recorded, ok) /\ UNCHANGED <<flushed, report>>
  BY DEF Record
<1>2. task # "finished"
  BY DEF LoadInv, UsersInTheirTime, Record, Live
<1>3. c \in Counts /\ recorded \in Counts
  BY DEF TableFormed, Counts, RecordsInBuckets
<1> HIDE DEF t, c, D, ok
<1>4. /\ Plus(c, ok).ok = c.ok + one /\ Plus(c, ok).ko = c.ko + (1 - one)
      /\ Plus(recorded, ok).ok = recorded.ok + one /\ Plus(recorded, ok).ko = recorded.ko + (1 - one)
      /\ Plus(recorded, ok) \in Counts
  BY <1>3 DEF Plus, Counts
<1>5. one \in Int /\ 1 - one \in Int
  OBVIOUS
<1> HIDE DEF one
<1>6. DOMAIN open' = D \cup {t} /\ open'[t] = Plus(c, ok)
      /\ \A x \in D \ {t} : open'[x] = open[x]
  BY <1>1
<1>7. /\ IsFiniteSet(D)
      /\ \A x \in D : Oks(open)[x] = open[x].ok /\ Kos(open)[x] = open[x].ko
                      /\ open[x].ok \in Int /\ open[x].ko \in Int
      /\ SumFunction(Oks(open)) = SumFunctionOnSet(Oks(open), D)
      /\ SumFunction(Kos(open)) = SumFunctionOnSet(Kos(open), D)
  BY SumsOfBuckets DEF TableFormed, D
<1>8. /\ \A x \in D \cup {t} : Oks(open')[x] = open'[x].ok /\ Kos(open')[x] = open'[x].ko
      /\ SumFunction(Oks(open')) = SumFunctionOnSet(Oks(open'), D \cup {t})
      /\ SumFunction(Kos(open')) = SumFunctionOnSet(Kos(open'), D \cup {t})
  <2>1. IsFiniteSet(DOMAIN open') /\ open' \in [DOMAIN open' -> Counts] /\ flushed' \in Seq(Buckets)
    BY DEF TableFormed
  <2> QED
    BY <1>6, <2>1, SumsOfBuckets
<1>9. /\ c.ok = (IF t \in D THEN Oks(open)[t] ELSE 0)
      /\ c.ko = (IF t \in D THEN Kos(open)[t] ELSE 0)
  BY <1>7 DEF c, D
<1>10. /\ \A x \in D \ {t} : Oks(open')[x] = Oks(open)[x] /\ Kos(open')[x] = Kos(open)[x]
       /\ Oks(open')[t] = (IF t \in D THEN Oks(open)[t] ELSE 0) + one
       /\ Kos(open')[t] = (IF t \in D THEN Kos(open)[t] ELSE 0) + (1 - one)
       /\ \A x \in D : Oks(open)[x] \in Int /\ Kos(open)[x] \in Int
  BY <1>4, <1>6, <1>7, <1>8, <1>9
<1>11. /\ Raises(Oks(open), D, t, one, Oks(open'))
       /\ Raises(Kos(open), D, t, 1 - one, Kos(open'))
  BY <1>5, <1>7, <1>10 DEF Raises
<1>12. /\ SumFunctionOnSet(Oks(open'), D \cup {t}) = SumFunctionOnSet(Oks(open), D) + one
       /\ SumFunctionOnSet(Kos(open'), D \cup {t}) = SumFunctionOnSet(Kos(open), D) + (1 - one)
  BY <1>11, SumRaised
<1>13. SumFunction(Oks(flushed')) = SumFunction(Oks(flushed)) /\ SumFunction(Kos(flushed')) = SumFunction(Kos(flushed))
  BY <1>1
<1>14. SumFunctionOnSet(Oks(open), D) \in Int /\ SumFunctionOnSet(Kos(open), D) \in Int
  BY <1>7, <1>10, SumTaken
<1>15. SumFunction(Oks(flushed)) \in Int /\ SumFunction(Kos(flushed)) \in Int
  BY SumsOfBuckets DEF TableFormed
<1>16. recorded'.ok = SumFunction(Oks(flushed')) + SumFunction(Oks(open'))
  BY <1>1, <1>4, <1>5, <1>7, <1>8, <1>12, <1>13, <1>14, <1>15 DEF RecordsInBuckets
<1>17. recorded'.ko = SumFunction(Kos(flushed')) + SumFunction(Kos(open'))
  BY <1>1, <1>4, <1>5, <1>7, <1>8, <1>12, <1>13, <1>14, <1>15 DEF RecordsInBuckets
<1>18. report = None
  BY <1>2 DEF RecordsInBuckets
<1> QED
  BY <1>1, <1>4, <1>16, <1>17, <1>18 DEF RecordsInBuckets

LEMMA RecordsStep ==
  ASSUME LoadInv, BucketInv, RecordsInBuckets, [LoadNext]_loadVars
  PROVE  RecordsInBuckets'
<1>1. TableFormed /\ TableFormed'
  BY BucketStep DEF BucketInv
<1>2. ASSUME UNCHANGED <<open, flushed, recorded, report>>, task = "finished" => task' = "finished"
      PROVE  RecordsInBuckets'
  BY <1>2 DEF RecordsInBuckets
<1>3. CASE Submit \/ Cancel \/ NeverStart \/ Start \/ NextTick \/ Complete \/ SeeCancellation
           \/ Gathered \/ Second \/ UNCHANGED loadVars
  BY <1>2, <1>3 DEF Submit, Cancel, NeverStart, Start, NextTick, Complete, SeeCancellation,
     Gathered, Second, loadVars, jobVars, userVars, bucketVars, LoadInv, StatusFollowsTask
<1>4. CASE PlaySecond
  <2> DEFINE keys == {t \in DOMAIN open : IsClosed(t, now - begun)}
  <2>1. Flush(keys) /\ UNCHANGED <<recorded, report>> /\ task # "finished"
    BY <1>4 DEF PlaySecond
  <2>2. keys \in SUBSET DOMAIN open
    OBVIOUS
  <2> HIDE DEF keys
  <2>3. /\ SumFunction(Oks(flushed')) + SumFunction(Oks(open')) = SumFunction(Oks(flushed)) + SumFunction(Oks(open))
        /\ SumFunction(Kos(flushed')) + SumFunction(Kos(open')) = SumFunction(Kos(flushed)) + SumFunction(Kos(open))
    BY <1>1, <2>1, <2>2, FlushKeepsRecords
  <2> QED
    BY <2>1, <2>3 DEF RecordsInBuckets
<1>5. CASE Conclude
  <2>1. CASE final = "lost"
    BY <1>2, <1>5, <2>1 DEF Conclude
  <2>2. CASE final # "lost"
    <3>1. Flush(DOMAIN open) /\ recorded' = recorded /\ task' = "finished" /\ report' = FlushedTotal'
      BY <1>5, <2>2 DEF Conclude
    <3>2. /\ SumFunction(Oks(flushed')) + SumFunction(Oks(open')) = SumFunction(Oks(flushed)) + SumFunction(Oks(open))
          /\ SumFunction(Kos(flushed')) + SumFunction(Kos(open')) = SumFunction(Kos(flushed)) + SumFunction(Kos(open))
      BY <1>1, <3>1, FlushKeepsRecords
    <3>3. recorded \in Counts /\ recorded.ok = SumFunction(Oks(flushed')) + SumFunction(Oks(open'))
          /\ recorded.ko = SumFunction(Kos(flushed')) + SumFunction(Kos(open'))
      BY <3>2 DEF RecordsInBuckets
    <3>4. IsFiniteSet(DOMAIN open') /\ open' \in [DOMAIN open' -> Counts] /\ flushed' \in Seq(Buckets)
      BY <1>1 DEF TableFormed
    <3>5. SumFunction(Oks(open')) = 0 /\ SumFunction(Kos(open')) = 0
      <4>1. DOMAIN open' = {}
        BY <3>1 DEF Flush
      <4>2. SumFunction(Oks(open')) = SumFunctionOnSet(Oks(open'), {})
            /\ SumFunction(Kos(open')) = SumFunctionOnSet(Kos(open'), {})
        BY <3>4, <4>1, SumsOfBuckets
      <4> QED
        BY <4>2, SumEmpty
    <3>6. SumFunction(Oks(flushed')) \in Int /\ SumFunction(Kos(flushed')) \in Int
      BY <3>4, SumsOfBuckets
    <3>7. report' = [ok |-> SumFunction(Oks(flushed')), ko |-> SumFunction(Kos(flushed'))]
      BY <3>1 DEF FlushedTotal, Oks, Kos
    <3>8. recorded = [ok |-> recorded.ok, ko |-> recorded.ko]
      BY <3>3 DEF Counts
    <3>9. recorded.ok = SumFunction(Oks(flushed')) /\ recorded.ko = SumFunction(Kos(flushed'))
      BY <3>3, <3>5, <3>6
    <3>10. report' = recorded
      BY <3>7, <3>8, <3>9
    <3> QED
      BY <3>1, <3>3, <3>10 DEF RecordsInBuckets
  <2> QED
    BY <2>1, <2>2
<1>6. ASSUME NEW u \in Users, UserStep(u) \/ ThreadStep(u) PROVE RecordsInBuckets'
  <2>1. CASE Record(u)
    BY <1>1, <2>1, RecordCounts
  <2>2. CASE BeginTest(u) \/ ThreadStep(u)
    BY <1>2, <2>2 DEF BeginTest, ThreadStep, ThreadTakes, ThreadEnds, jobVars, bucketVars
  <2> QED
    BY <1>6, <2>1, <2>2 DEF UserStep
<1> QED
  BY <1>3, <1>4, <1>5, <1>6 DEF LoadNext, RunnerStep

LEMMA BucketInit == LoadInit => BucketInv /\ RecordsInBuckets
<1> SUFFICES ASSUME LoadInit PROVE BucketInv /\ RecordsInBuckets
  OBVIOUS
<1>1. open = <<>> /\ flushed = <<>> /\ now = 0 /\ begun = 0 /\ collecting = 0
      /\ recorded = [ok |-> 0, ko |-> 0] /\ report = None
  BY DEF LoadInit
<1>2. DOMAIN open = {} /\ IsFiniteSet(DOMAIN open) /\ DOMAIN flushed = {}
  BY <1>1, FS_EmptySet
<1>3. TableFormed /\ ClocksInOrder
  BY <1>1, <1>2 DEF TableFormed, ClocksInOrder
<1>4. FlushedInThePast /\ BucketsCloseOnce
  BY <1>1 DEF FlushedInThePast, BucketsCloseOnce
<1>5. /\ SumFunction(Oks(open)) = 0 /\ SumFunction(Kos(open)) = 0
      /\ SumFunction(Oks(flushed)) = 0 /\ SumFunction(Kos(flushed)) = 0
  <2>1. /\ DOMAIN Oks(open) = {} /\ DOMAIN Kos(open) = {}
        /\ DOMAIN Oks(flushed) = {} /\ DOMAIN Kos(flushed) = {}
    BY <1>2 DEF Oks, Kos
  <2> QED
    BY <2>1, SumEmpty DEF SumFunction
<1>6. recorded.ok = 0 /\ recorded.ko = 0 /\ recorded \in Counts
  BY <1>1 DEF Counts
<1> QED
  BY <1>1, <1>3, <1>4, <1>5, <1>6 DEF BucketInv, RecordsInBuckets

(***************************************************************************)
(* A bucket of a load job is flushed once and in order of time, and        *)
(* nothing is recorded into a bucket that a client has seen as complete,   *)
(* although the two clocks of the job start at different moments.          *)
(***************************************************************************)
THEOREM BucketsAreClosedOnce == Spec => []BucketsCloseOnce
<1>1. LoadInit => BucketInv
  BY BucketInit
<1>2. BucketInv => BucketsCloseOnce
  BY DEF BucketInv
<1> QED
  BY <1>1, <1>2, BucketStep, LoadInvariant, PTL DEF Spec

(***************************************************************************)
(* Whatever the scenario, however slowly the tests answer and whenever     *)
(* buckets close: each recorded test is counted in exactly one bucket,     *)
(* open or flushed, and the totals of the report are those of all records. *)
(***************************************************************************)
THEOREM RecordsAreNeverLost == Spec => []NoRecordLost
<1>1. LoadInit => BucketInv /\ RecordsInBuckets
  BY BucketInit
<1>2. LoadInv /\ BucketInv /\ RecordsInBuckets /\ [LoadNext]_loadVars => BucketInv' /\ RecordsInBuckets'
  BY BucketStep, RecordsStep
<1> QED
  BY <1>1, <1>2, RecordsAreKept, LoadInvariant, PTL DEF Spec

(***************************************************************************)
(* The timeline.  Rounding respects the order and keeps whole numbers.     *)
(***************************************************************************)
LEMMA Division ==
  ASSUME NEW n \in Int, NEW d \in Nat \ {0}
  PROVE  n \div d \in Int /\ n % d \in 0..(d - 1) /\ n = d * (n \div d) + (n % d)
OBVIOUS

\* What lies between multiples lies between quotients.
LEMMA QuotientsFollow ==
  ASSUME NEW d \in Nat \ {0}, NEW p \in Int, NEW q \in Int, NEW r \in Int, d * p + r < d * q + d,
         r >= 0
  PROVE  p <= q
<1> SUFFICES ASSUME p > q PROVE FALSE
  OBVIOUS
<1>1. PICK k \in Nat : k = p - q - 1 /\ p = q + 1 + k
  <2>1. p - q - 1 \in Nat /\ p = q + 1 + (p - q - 1)
    OBVIOUS
  <2> QED
    BY <2>1
<1>2. d * p = d * q + d + d * k
  BY <1>1
<1>3. d * k \in Nat /\ d * q \in Int
  BY <1>1
<1> QED
  BY <1>2, <1>3

LEMMA RoundAscends ==
  ASSUME NEW a \in Int, NEW b \in Int, a <= b, NEW d \in Nat \ {0}
  PROVE  Round(a, d) \in Int /\ Round(b, d) \in Int /\ Round(a, d) <= Round(b, d)
<1> DEFINE p == a \div d
           q == b \div d
           r == a % d
           s == b % d
<1>1. /\ p \in Int /\ r \in 0..(d - 1) /\ a = d * p + r
      /\ q \in Int /\ s \in 0..(d - 1) /\ b = d * q + s
  BY Division
<1>2. /\ Round(a, d) = IF 2 * r > d \/ (2 * r = d /\ p % 2 = 1) THEN p + 1 ELSE p
      /\ Round(b, d) = IF 2 * s > d \/ (2 * s = d /\ q % 2 = 1) THEN q + 1 ELSE q
  BY DEF Round
<1> HIDE DEF p, q, r, s
<1>3. p <= q
  <2>1. d * p \in Int /\ d * q \in Int /\ d * p + r < d * q + d /\ r >= 0 /\ r \in Int
    BY <1>1
  <2> QED
    BY <1>1, <2>1, QuotientsFollow
<1>4. CASE p = q
  <2>1. d * p \in Int /\ d * p = d * q
    BY <1>1, <1>4
  <2>2. r <= s /\ r \in Int /\ s \in Int
    BY <1>1, <2>1
  <2> QED
    BY <1>1, <1>2, <1>4, <2>2
<1>5. CASE p < q
  BY <1>1, <1>2, <1>5
<1> QED
  BY <1>1, <1>3, <1>4, <1>5

LEMMA RoundExact ==
  ASSUME NEW m \in Int, NEW d \in Nat \ {0} PROVE Round(d * m, d) = m
<1> DEFINE n == d * m
           q == n \div d
           r == n % d
<1>1. n \in Int
  OBVIOUS
<1>2. q \in Int /\ r \in 0..(d - 1) /\ n = d * q + r
  BY <1>1, Division
<1>3. Round(n, d) = IF 2 * r > d \/ (2 * r = d /\ q % 2 = 1) THEN q + 1 ELSE q
  BY DEF Round
<1>4. d * m = d * q + r /\ d * q \in Int /\ d * m \in Int
  BY <1>2
<1> HIDE DEF n, q, r
<1>5. m <= q
  <2>1. d * m + 0 < d * q + d
    BY <1>2, <1>4
  <2> QED
    BY <1>2, <2>1, QuotientsFollow
<1>6. q <= m
  <2>1. d * q + r < d * m + d /\ r >= 0 /\ r \in Int
    BY <1>2, <1>4
  <2> QED
    BY <1>2, <2>1, QuotientsFollow
<1>7. q = m /\ r = 0
  <2>1. q = m
    BY <1>2, <1>5, <1>6
  <2>2. d * q = d * m
    BY <2>1
  <2> QED
    BY <1>2, <1>4, <2>1, <2>2
<1> QED
  BY <1>3, <1>7 DEF n

LEMMA PhaseTyped ==
  ASSUME NEW p \in Phase, IsPhase(p)
  PROVE  /\ p.type \in {"ramp", "steady"} /\ p.duration \in Nat \ {0} /\ p.from \in Int /\ p.to \in Nat
         /\ p.type = "ramp" => p.from \in Nat
BY DEF Phase, IsPhase

\* The seconds of a ramp: the first and the last, and the way in between.
LEMMA RampMovesOneWay ==
  ASSUME NEW p \in Phase, IsPhase(p)
  PROVE  /\ Target(p, p.duration - 1) = p.to
         /\ p.type = "ramp" /\ p.duration > 1 => Target(p, 0) = p.from
         /\ p.type = "steady" => \A i \in 0..(p.duration - 1) : Target(p, i) = p.to
         /\ p.type = "ramp" => \A i \in 0..(p.duration - 2) :
               (Target(p, i + 1) - Target(p, i)) * (p.to - p.from) >= 0
<1>1. /\ p.type \in {"ramp", "steady"} /\ p.duration \in Nat \ {0} /\ p.from \in Int /\ p.to \in Nat
      /\ p.type = "ramp" => p.from \in Nat
  BY PhaseTyped
<1>2. CASE p.type = "steady" \/ p.duration = 1
  <2>1. \A i : Target(p, i) = p.to
    BY <1>2 DEF Target
  <2>2. p.type = "ramp" => 0..(p.duration - 2) = {}
    BY <1>1, <1>2
  <2>3. p.type = "ramp" => ~(p.duration > 1)
    BY <1>1, <1>2
  <2> QED
    BY <2>1, <2>2, <2>3
<1>3. CASE p.type = "ramp" /\ p.duration # 1
  <2> DEFINE d == p.duration - 1
             a == p.from
             g == p.to - p.from
             At(i) == a * d + g * i
  <2>1. d \in Nat \ {0} /\ a \in Nat /\ g \in Int /\ a + g = p.to /\ p.to \in Nat /\ p.duration > 1
        /\ p.duration - 2 = d - 1
    <3>1. PICK x \in Nat \ {0}, y \in Int, z \in Nat : x = p.duration /\ y = p.from /\ z = p.to
      BY <1>1
    <3>2. y \in Nat /\ x # 1
      BY <1>1, <1>3, <3>1
    <3>3. \A u \in Nat \ {0}, v, w \in Nat :
             /\ u # 1 => u - 1 \in Nat \ {0} /\ u > 1 /\ u - 2 = (u - 1) - 1
             /\ w - v \in Int /\ v + (w - v) = w
      OBVIOUS
    <3> QED
      BY <3>1, <3>2, <3>3
  <2>2. \A i : Target(p, i) = IF Round(At(i), d) < 0 THEN 0 ELSE Round(At(i), d)
    BY <1>3 DEF Target, Interpolated
  <2> HIDE DEF d, a, g
  <2>3. Round(At(0), d) = a
    <3>1. At(0) = d * a
      BY <2>1
    <3> QED
      BY <2>1, <3>1, RoundExact
  <2>4. Round(At(d), d) = p.to
    <3>1. a * d + g * d = d * (a + g)
      BY <2>1
    <3>2. At(d) = d * p.to
      BY <2>1, <3>1
    <3> QED
      BY <2>1, <3>2, RoundExact
  <2>5. Target(p, 0) = a /\ Target(p, d) = p.to
    BY <2>1, <2>2, <2>3, <2>4
  <2>6. ASSUME NEW i \in 0..(d - 1) PROVE (Target(p, i + 1) - Target(p, i)) * g >= 0
    <3>1. i \in Int /\ g * i \in Int /\ a * d \in Int /\ g * (i + 1) = g * i + g
      BY <2>1
    <3>2. At(i) \in Int /\ At(i + 1) \in Int /\ At(i + 1) = At(i) + g
      BY <2>1, <3>1
    <3> HIDE DEF At
    <3>3. CASE g >= 0
      <4>1. /\ Round(At(i), d) \in Int /\ Round(At(i + 1), d) \in Int
            /\ Round(At(i), d) <= Round(At(i + 1), d)
        <5>1. At(i) <= At(i + 1)
          BY <2>1, <3>2, <3>3
        <5> QED
          BY <2>1, <3>2, <5>1, RoundAscends
      <4>2. Target(p, i + 1) - Target(p, i) \in Nat
        BY <2>2, <4>1
      <4>3. \A x \in Nat : x * g >= 0
        BY <2>1, <3>3
      <4> QED
        BY <4>2, <4>3
    <3>4. CASE g < 0
      <4>1. /\ Round(At(i), d) \in Int /\ Round(At(i + 1), d) \in Int
            /\ Round(At(i + 1), d) <= Round(At(i), d)
        <5>1. At(i + 1) <= At(i)
          BY <2>1, <3>2, <3>4
        <5> QED
          BY <2>1, <3>2, <5>1, RoundAscends
      <4>2. PICK x \in Nat : Target(p, i + 1) - Target(p, i) = -x
        <5>1. Target(p, i) - Target(p, i + 1) \in Nat /\ Target(p, i) \in Int /\ Target(p, i + 1) \in Int
          BY <2>2, <4>1
        <5>2. Target(p, i + 1) - Target(p, i) = -(Target(p, i) - Target(p, i + 1))
          BY <5>1
        <5> QED
          BY <5>1, <5>2
      <4>3. (-x) * g >= 0
        BY <2>1, <3>4
      <4> QED
        BY <4>2, <4>3
    <3> QED
      BY <2>1, <3>3, <3>4
  <2> QED
    BY <1>3, <2>1, <2>5, <2>6 DEF d, a, g
<1> QED
  BY <1>1, <1>2, <1>3

-----------------------------------------------------------------------------
\* f flattens n sequences whose ends are e: each entry is in its place.
Placed(f, n, ss, e) ==
    /\ Len(f[n]) = e[n]
    /\ \A j \in 1..n : e[j] <= e[n] /\ \A t \in 1..Len(ss[j]) : f[n][e[j - 1] + t] = ss[j][t]

LEMMA FlattenPlaces ==
  ASSUME NEW S, NEW ss \in Seq(Seq(S)), NEW n \in 1..Len(ss), NEW f, Flattens(f, n, ss),
         NEW e \in [0..n -> Nat], e[0] = 0, \A j \in 1..n : e[j] = e[j - 1] + Len(ss[j])
  PROVE  \A k \in 1..n : Placed(f, k, ss, e)
<1> DEFINE bad == {k \in 1..n : ~Placed(f, k, ss, e)}
<1> SUFFICES ASSUME bad # {} PROVE FALSE
  OBVIOUS
<1>1. bad \subseteq Nat
  OBVIOUS
<1>2. PICK k \in bad : \A j \in bad : k <= j
  BY <1>1, Smallest
<1>3. \A i \in 1..n : f[i] = IF i = 1 THEN ss[i] ELSE f[i - 1] \o ss[i]
  BY DEF Flattens
<1>4. n \in Nat /\ 1 \in 1..n /\ \A i \in 1..n : ss[i] \in Seq(S)
  <2>1. Len(ss) \in Nat
    BY LenProperties
  <2>2. n \in Nat /\ 1 \in 1..n
    BY <2>1
  <2>3. \A i \in 1..n : ss[i] \in Seq(S)
    <3>1. \A i \in 1..Len(ss) : ss[i] \in Seq(S)
      BY ElementOfSeq
    <3>2. \A i \in 1..n : i \in 1..Len(ss)
      BY <2>1
    <3> QED
      BY <3>1, <3>2
  <2> QED
    BY <2>2, <2>3
<1>5. \A i \in 1..n : ss[i] \in Seq(S) /\ Len(ss[i]) \in Nat /\ f[i] \in Seq(S)
  <2>1. \A i \in 1..n : f[i] \in Seq(S)
    BY FlattenIsSeq
  <2> QED
    BY <1>4, <2>1, LenProperties
<1>6. CASE k = 1
  <2>1. f[1] = ss[1] /\ e[1] = 0 + Len(ss[1]) /\ 1 \in 1..n
    <3>1. e[1] = e[1 - 1] + Len(ss[1]) /\ 1 - 1 = 0
      BY <1>4
    <3> QED
      BY <1>3, <1>4, <3>1
  <2>2. \A t \in 1..Len(ss[1]) : 0 + t = t
    BY <1>5, <2>1
  <2>3. e[1] = Len(ss[1]) /\ e[1] <= e[1]
    BY <1>5, <2>1
  <2> QED
    BY SMTT(60), <1>2, <1>6, <2>1, <2>2, <2>3 DEF Placed
<1>7. CASE k # 1
  <2>1. k \in 1..n /\ k - 1 \in 1..n /\ k - 1 \notin bad /\ k \in Nat /\ k - 1 \in 0..n
    BY <1>2, <1>7, <1>4
  <2>2. Placed(f, k - 1, ss, e)
    BY <2>1
  <2> HIDE DEF bad
  <2>3. f[k] = f[k - 1] \o ss[k] /\ e[k] = e[k - 1] + Len(ss[k])
    BY <1>3, <1>7, <2>1
  <2>4. PICK m \in Nat, l \in Nat : m = e[k - 1] /\ l = Len(ss[k]) /\ e[k] = m + l
    <3>1. e[k - 1] \in Nat /\ Len(ss[k]) \in Nat
      BY <1>5, <2>1
    <3> QED
      BY <2>3, <3>1
  <2>5. Len(f[k - 1]) = m /\ f[k - 1] \in Seq(S) /\ ss[k] \in Seq(S)
    BY <1>5, <2>1, <2>2, <2>4 DEF Placed
  <2>6. Len(f[k]) = m + l
        /\ \A i \in 1..(m + l) : f[k][i] = IF i <= m THEN f[k - 1][i] ELSE ss[k][i - m]
    <3> DEFINE s1 == f[k - 1]
               s2 == ss[k]
    <3>1. s1 \in Seq(S) /\ s2 \in Seq(S) /\ Len(s1) = m /\ Len(s2) = l /\ f[k] = s1 \o s2
      BY <2>3, <2>4, <2>5
    <3> HIDE DEF s1, s2
    <3>2. Len(s1 \o s2) = Len(s1) + Len(s2)
          /\ \A i \in 1..(Len(s1) + Len(s2)) :
                (s1 \o s2)[i] = IF i <= Len(s1) THEN s1[i] ELSE s2[i - Len(s1)]
      BY ZenonT(60), <3>1, ConcatProperties
    <3>3. Len(s1 \o s2) = m + l
          /\ \A i \in 1..(m + l) : (s1 \o s2)[i] = IF i <= m THEN s1[i] ELSE s2[i - m]
      BY <3>1, <3>2
    <3> QED
      BY <3>1, <3>3 DEF s1, s2
  <2>7. ASSUME NEW j \in 1..k
        PROVE  e[j] <= e[k] /\ \A t \in 1..Len(ss[j]) : f[k][e[j - 1] + t] = ss[j][t]
    <3>1. CASE j = k
      <4>1. \A x, y \in Nat : \A t \in 1..y :
               x + t \in 1..(x + y) /\ ~(x + t <= x) /\ (x + t) - x = t
        OBVIOUS
      <4>2. \A t \in 1..l : m + t \in 1..(m + l) /\ ~(m + t <= m) /\ (m + t) - m = t
        BY <2>4, <4>1
      <4>3. \A t \in 1..l : f[k][m + t] = ss[k][t]
        BY <2>6, <4>2
      <4>4. e[k] <= e[k]
        BY <2>4
      <4> QED
        BY <2>4, <3>1, <4>3, <4>4
    <3>2. CASE j # k
      <4>1. j \in 1..(k - 1) /\ j \in 1..n /\ j - 1 \in 0..n /\ j \in 0..n
        BY SMTT(60), <1>4, <2>1, <3>2
      <4>2. e[j] <= m /\ \A t \in 1..Len(ss[j]) : f[k - 1][e[j - 1] + t] = ss[j][t]
        BY <2>2, <2>4, <4>1 DEF Placed
      <4>3. PICK x \in Nat, y \in Nat : x = e[j - 1] /\ y = Len(ss[j]) /\ e[j] = x + y
        <5>1. e[j - 1] \in Nat /\ Len(ss[j]) \in Nat
          BY <1>5, <4>1
        <5> QED
          BY <4>1, <5>1
      <4>4. x + y <= m
        BY <4>2, <4>3
      <4>5. ASSUME NEW t \in 1..y PROVE f[k][x + t] = f[k - 1][x + t]
        <5>1. x + t \in 1..(m + l) /\ x + t <= m
          <6>1. t \in Nat /\ 1 <= t /\ t <= y /\ x \in Nat /\ y \in Nat /\ m \in Nat /\ l \in Nat
            BY <2>4, <4>3
          <6> QED
            BY <4>4, <6>1
        <5> QED
          BY <2>6, <5>1
      <4>6. \A t \in 1..y : f[k][x + t] = f[k - 1][x + t]
        BY <4>5
      <4>7. e[j] <= e[k]
        <5>1. x \in Nat /\ y \in Nat /\ m \in Nat /\ l \in Nat /\ x + y <= m
          BY <2>4, <4>3, <4>4
        <5>2. x + y <= m + l
          BY <5>1
        <5> QED
          BY <2>4, <4>3, <5>2
      <4> QED
        BY <4>2, <4>3, <4>6, <4>7
    <3> QED
      BY <3>1, <3>2
  <2> QED
    BY <1>2, <2>4, <2>6, <2>7 DEF Placed, bad
<1> QED
  BY <1>6, <1>7

\* How long the first j phases take.
Until(phases, j) == Duration(SubSeq(phases, 1, j))

LEMMA PhasesFollow ==
  ASSUME NEW phases \in Seq(Phase), \A j \in DOMAIN phases : phases[j].duration \in Nat
  PROVE  /\ Until(phases, 0) = 0 /\ Until(phases, Len(phases)) = Duration(phases)
         /\ \A j \in 0..Len(phases) : Until(phases, j) \in Nat
         /\ \A j \in 1..Len(phases) : Until(phases, j) = Until(phases, j - 1) + phases[j].duration
<1> DEFINE n == Len(phases)
           h == [i \in DOMAIN phases |-> phases[i].duration]
<1>1. n \in Nat /\ DOMAIN phases = 1..n /\ \A i \in 1..n : phases[i] \in Phase
  OBVIOUS
<1>2. \A i \in 1..n : h[i] = phases[i].duration /\ h[i] \in Nat
  BY <1>1
<1> HIDE DEF n, h
<1>3. ASSUME NEW j \in 0..n PROVE Until(phases, j) = SumFunctionOnSet(h, 1..j) /\ IsFiniteSet(1..j)
  <2> DEFINE s == SubSeq(phases, 1, j)
             g == [i \in DOMAIN s |-> s[i].duration]
  <2>1. j \in Nat /\ j - 1 + 1 = j /\ \A i \in 1..j : i \in 1..n /\ 1 + i - 1 = i
    BY <1>1
  <2>2. s \in Seq(Phase) /\ Len(s) = j /\ \A i \in 1..j : s[i] = phases[i]
    <3>1. \A i \in 1..j : phases[i] \in Phase
      BY <1>1, <2>1
    <3>2. 1 \in Int /\ j \in Int /\ (IF 1 <= j THEN j - 1 + 1 ELSE 0) = j
      BY <2>1
    <3> QED
      BY <2>1, <3>1, <3>2, SubSeqProperties
  <2>3. DOMAIN s = 1..j
    BY <2>2
  <2>4. DOMAIN g = 1..j /\ \A i \in 1..j : g[i] = h[i] /\ g[i] \in Int
    BY <1>2, <2>1, <2>2, <2>3
  <2>5. IsFiniteSet(1..j)
    BY <2>1, FS_Interval
  <2>6. Until(phases, j) = SumFunctionOnSet(g, 1..j)
    BY <2>3 DEF Until, Duration, SumFunction
  <2> HIDE DEF g
  <2> QED
    BY <2>4, <2>5, <2>6, SumSame
<1>4. Until(phases, 0) = 0
  <2>1. 1..0 = {} /\ 0 \in 0..n
    BY <1>1
  <2> QED
    BY <1>3, <2>1, SumEmpty
<1>5. Until(phases, n) = Duration(phases)
  <2>1. DOMAIN h = 1..n /\ n \in 0..n
    BY <1>1 DEF h
  <2>2. Duration(phases) = SumFunctionOnSet(h, 1..n)
    BY <2>1 DEF Duration, SumFunction, h
  <2> QED
    BY <1>3, <2>1, <2>2
<1>6. \A j \in 0..n : Until(phases, j) \in Int
  <2> TAKE j \in 0..n
  <2>1. \A i \in 1..j : h[i] \in Int
    BY <1>1, <1>2
  <2> QED
    BY <1>3, <2>1, SumTaken
<1>7. ASSUME NEW j \in 1..n PROVE Until(phases, j) = Until(phases, j - 1) + phases[j].duration
  <2>1. j - 1 \in 0..n /\ j \in 0..n /\ 1..j = (1..(j - 1)) \cup {j} /\ j \notin 1..(j - 1)
    BY <1>1
  <2>2. \A i \in (1..(j - 1)) \cup {j} : h[i] \in Int
    BY <1>1, <1>2
  <2>3. SumFunctionOnSet(h, (1..(j - 1)) \cup {j}) = SumFunctionOnSet(h, 1..(j - 1)) + h[j]
    BY <1>3, <2>1, <2>2, SumGrows
  <2> QED
    BY <1>2, <1>3, <2>1, <2>3
<1>8. \A j \in 0..n : Until(phases, j) \in Nat
  <2> DEFINE bad == {j \in 0..n : ~(Until(phases, j) >= 0)}
  <2> SUFFICES ASSUME bad # {} PROVE FALSE
    BY <1>6
  <2>1. bad \subseteq Nat
    BY <1>1
  <2>2. PICK j \in bad : \A i \in bad : j <= i
    BY <2>1, Smallest
  <2>3. j # 0
    BY <1>4, <2>2
  <2>4. j \in 1..n /\ j - 1 \in 0..n /\ j - 1 \notin bad
    BY <1>1, <2>2, <2>3
  <2>5. Until(phases, j - 1) >= 0 /\ Until(phases, j - 1) \in Int /\ phases[j].duration \in Nat
    BY <1>1, <1>2, <1>6, <2>4
  <2> QED
    BY <1>7, <2>2, <2>4, <2>5
<1> QED
  BY <1>4, <1>5, <1>7, <1>8 DEF n

\* Each phase has its seconds in the timeline.
LEMMA PhasesInTimeline ==
  ASSUME NEW phases \in Scenarios, IsScenario(phases)
  PROVE  /\ Len(Timeline(phases)) = Duration(phases)
         /\ \A j \in DOMAIN phases : \A t \in 1..phases[j].duration :
               Timeline(phases)[Until(phases, j - 1) + t] = Target(phases[j], t - 1)
<1> DEFINE Seconds(j) == [i \in 1..phases[j].duration |-> Target(phases[j], i - 1)]
           ss == [j \in DOMAIN phases |-> Seconds(j)]
           n == Len(phases)
           S == {Target(p, i) : p \in Phase, i \in Int}
<1>1. phases \in Seq(Phase) /\ n \in Nat \ {0} /\ DOMAIN phases = 1..n
  BY LoadAssumption DEF Phase, IsScenario
<1>2. \A j \in 1..n : phases[j] \in Phase /\ phases[j].duration \in Nat
  BY <1>1, PhaseTyped DEF IsScenario
<1>3. ASSUME NEW j \in 1..n
      PROVE  /\ Seconds(j) \in Seq(S) /\ Len(Seconds(j)) = phases[j].duration
             /\ \A t \in 1..phases[j].duration : Seconds(j)[t] = Target(phases[j], t - 1)
  <2>1. PICK d \in Nat : d = phases[j].duration
    BY <1>2
  <2>2. \A i \in 1..d : i - 1 \in Int /\ Target(phases[j], i - 1) \in S
    BY <1>2, <2>1
  <2>3. [i \in 1..d |-> Target(phases[j], i - 1)] \in Seq(S)
    BY <2>2
  <2> QED
    BY <2>1, <2>3
<1> HIDE DEF S, Seconds
<1>4. ss \in Seq(Seq(S)) /\ Len(ss) = n /\ \A j \in 1..n : ss[j] = Seconds(j)
  <2>1. ss \in [1..n -> Seq(S)]
    BY <1>1, <1>3
  <2>2. ss \in Seq(Seq(S))
    BY <1>1, <2>1
  <2> QED
    BY <1>1, <2>2
<1> DEFINE e == [j \in 0..n |-> Until(phases, j)]
<1>5. /\ e \in [0..n -> Nat] /\ e[0] = 0 /\ e[n] = Duration(phases)
      /\ \A j \in 1..n : e[j] = e[j - 1] + phases[j].duration /\ e[j - 1] = Until(phases, j - 1)
  <2>1. 0 \in 0..n /\ n \in 0..n /\ \A j \in 1..n : j \in 0..n /\ j - 1 \in 0..n
    BY <1>1
  <2>2. /\ Until(phases, 0) = 0 /\ Until(phases, n) = Duration(phases)
        /\ \A j \in 0..n : Until(phases, j) \in Nat
        /\ \A j \in 1..n : Until(phases, j) = Until(phases, j - 1) + phases[j].duration
    BY <1>1, <1>2, PhasesFollow
  <2> QED
    BY <2>1, <2>2
<1> HIDE DEF e, ss, n
<1> DEFINE f == CHOOSE x : Flattens(x, n, ss)
<1>6. n \in 1..Len(ss) /\ Len(ss) # 0
  BY <1>1, <1>4
<1>7. Flattens(f, n, ss)
  BY <1>4, <1>6, FlattenExists
<1>8. Timeline(phases) = f[n]
  <2>1. Timeline(phases) = FlattenSeq(ss)
    BY DEF Timeline, ss, Seconds
  <2> QED
    BY <1>4, <1>6, <2>1 DEF FlattenSeq, Flattens
<1> HIDE DEF f
<1>9. \A j \in 1..n : e[j] = e[j - 1] + Len(ss[j])
  BY <1>3, <1>4, <1>5
<1>10. Placed(f, n, ss, e)
  <2>1. n \in 1..n
    BY <1>1
  <2> QED
    BY <1>4, <1>5, <1>6, <1>7, <1>9, <2>1, FlattenPlaces
<1>11. Len(f[n]) = Duration(phases)
  BY <1>5, <1>10 DEF Placed
<1>12. ASSUME NEW j \in 1..n, NEW t \in 1..phases[j].duration
       PROVE  f[n][Until(phases, j - 1) + t] = Target(phases[j], t - 1)
  <2>1. Len(ss[j]) = phases[j].duration /\ ss[j][t] = Target(phases[j], t - 1)
    BY <1>3, <1>4
  <2>2. f[n][e[j - 1] + t] = ss[j][t]
    BY <1>10, <2>1 DEF Placed
  <2> QED
    BY <1>5, <2>1, <2>2
<1> QED
  BY <1>1, <1>8, <1>11, <1>12

LEMMA TimelineIsRight ==
  ASSUME NEW phases \in Scenarios, IsScenario(phases)
  PROVE  LET From(j) == 1 + Duration(SubSeq(phases, 1, j - 1))
             To(j) == Duration(SubSeq(phases, 1, j))
             line == Timeline(phases)
         IN  /\ Len(line) = Duration(phases)
             /\ \A j \in DOMAIN phases :
                 LET p == phases[j] IN
                 /\ line[To(j)] = p.to
                 /\ p.type = "ramp" /\ p.duration > 1 => line[From(j)] = p.from
                 /\ \A t \in From(j)..(To(j) - 1) :
                     IF p.type = "steady" THEN line[t] = p.to
                     ELSE (line[t + 1] - line[t]) * (p.to - p.from) >= 0
<1> DEFINE line == Timeline(phases)
           From(j) == 1 + Until(phases, j - 1)
           To(j) == Until(phases, j)
<1>1. phases \in Seq(Phase) /\ DOMAIN phases = 1..Len(phases)
  BY LoadAssumption DEF Phase
<1>2. \A j \in DOMAIN phases : /\ phases[j] \in Phase /\ IsPhase(phases[j])
                               /\ phases[j].duration \in Nat \ {0}
                               /\ phases[j].type \in {"ramp", "steady"}
  BY <1>1, PhaseTyped DEF IsScenario
<1>3. Len(line) = Duration(phases)
  BY PhasesInTimeline
<1>4. ASSUME NEW j \in DOMAIN phases
      PROVE  LET p == phases[j] IN
             /\ line[To(j)] = p.to
             /\ p.type = "ramp" /\ p.duration > 1 => line[From(j)] = p.from
             /\ \A t \in From(j)..(To(j) - 1) :
                 IF p.type = "steady" THEN line[t] = p.to
                 ELSE (line[t + 1] - line[t]) * (p.to - p.from) >= 0
  <2> DEFINE p == phases[j]
  <2>1. PICK b \in Nat, d \in Nat \ {0} :
           b = Until(phases, j - 1) /\ d = p.duration /\ To(j) = b + d /\ From(j) = b + 1
    <3>1. j \in 1..Len(phases) /\ j - 1 \in 0..Len(phases)
      BY <1>1
    <3>2. /\ Until(phases, j - 1) \in Nat
          /\ Until(phases, j) = Until(phases, j - 1) + phases[j].duration
      BY <1>1, <1>2, <3>1, PhasesFollow
    <3>3. 1 + Until(phases, j - 1) = Until(phases, j - 1) + 1
      BY <3>2
    <3> QED
      BY <1>2, <3>2, <3>3
  <2>2. \A t \in 1..d : line[b + t] = Target(p, t - 1)
    BY <2>1, PhasesInTimeline
  <2>3. /\ Target(p, d - 1) = p.to
        /\ p.type = "ramp" /\ d > 1 => Target(p, 0) = p.from
        /\ p.type = "steady" => \A i \in 0..(d - 1) : Target(p, i) = p.to
        /\ p.type = "ramp" => \A i \in 0..(d - 2) :
              (Target(p, i + 1) - Target(p, i)) * (p.to - p.from) >= 0
    BY <1>2, <2>1, RampMovesOneWay
  <2>4. p.type \in {"ramp", "steady"}
    BY <1>2
  <2> HIDE DEF line, From, To, p
  <2>5. line[To(j)] = p.to
    BY <2>1, <2>2, <2>3
  <2>6. p.type = "ramp" /\ d > 1 => line[From(j)] = p.from
    <3>1. 1 \in 1..d /\ 1 - 1 = 0
      BY <2>1
    <3> QED
      BY <2>1, <2>2, <2>3, <3>1
  <2>7. ASSUME NEW t \in From(j)..(To(j) - 1)
        PROVE  IF p.type = "steady" THEN line[t] = p.to
               ELSE (line[t + 1] - line[t]) * (p.to - p.from) >= 0
    <3>1. PICK i \in 0..(d - 2) : t = b + (i + 1) /\ t + 1 = b + (i + 2)
      <4>1. t - b - 1 \in 0..(d - 2) /\ t = b + ((t - b - 1) + 1) /\ t + 1 = b + ((t - b - 1) + 2)
        BY <2>1
      <4> QED
        BY <4>1
    <3>2. i \in 0..(d - 1) /\ i + 1 \in 1..d /\ i + 2 \in 1..d /\ (i + 1) - 1 = i /\ (i + 2) - 1 = i + 1
      BY <2>1
    <3>3. line[t] = Target(p, i) /\ line[t + 1] = Target(p, i + 1)
      BY <2>2, <3>1, <3>2
    <3> QED
      BY <2>3, <2>4, <3>2, <3>3
  <2> QED
    BY <2>1, <2>5, <2>6, <2>7 DEF p
<1> QED
  BY <1>3, <1>4 DEF Until

\* The timeline is that of a valid scenario, from the submission on.
TimelineOfScenario ==
    status # "none" => \E phases \in Scenarios : IsScenario(phases) /\ timeline = Timeline(phases)

LEMMA TimelineStays ==
  ASSUME LoadInv, TimelineOfScenario, [LoadNext]_loadVars PROVE TimelineOfScenario'
<1>1. CASE UNCHANGED timeline /\ (status = "none" => status' = "none")
  BY <1>1 DEF TimelineOfScenario
<1>2. CASE Submit
  BY <1>2 DEF Submit, TimelineOfScenario
<1>3. CASE Cancel \/ NeverStart \/ Start \/ PlaySecond \/ NextTick \/ Complete \/ SeeCancellation
           \/ Gathered \/ Conclude \/ Second \/ UNCHANGED loadVars
  BY <1>1, <1>3 DEF Cancel, NeverStart, Start, PlaySecond, NextTick, Complete, SeeCancellation,
     Gathered, Conclude, Second, loadVars, jobVars, LoadInv, StatusFollowsTask
<1>4. ASSUME NEW u \in Users, UserStep(u) \/ ThreadStep(u) PROVE TimelineOfScenario'
  BY <1>1, <1>4 DEF UserStep, BeginTest, Record, ThreadStep, ThreadTakes, ThreadEnds, jobVars
<1> QED
  BY <1>2, <1>3, <1>4 DEF LoadNext, RunnerStep

(***************************************************************************)
(* For every valid scenario: the timeline has one entry for each second,   *)
(* each phase stays between its ends and moves one way only, and a ramp of *)
(* two seconds or more goes from its first number to its last, however     *)
(* Python rounds on the way.                                               *)
(***************************************************************************)
THEOREM TimelineIsFaithful == Spec => []TimelineFollowsPhases
<1>1. LoadInit => TimelineOfScenario
  BY DEF LoadInit, TimelineOfScenario
<1>2. TimelineOfScenario => TimelineFollowsPhases
  <2> SUFFICES ASSUME TimelineOfScenario, status # "none"
               PROVE  TimelineFollowsPhases
    BY DEF TimelineFollowsPhases
  <2>1. PICK phases \in Scenarios : IsScenario(phases) /\ timeline = Timeline(phases)
    BY DEF TimelineOfScenario
  <2> QED
    BY <2>1, TimelineIsRight DEF TimelineFollowsPhases
<1> QED
  BY <1>1, <1>2, TimelineStays, LoadInvariant, PTL DEF Spec
=============================================================================
