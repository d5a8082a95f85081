----------------------------- MODULE LoadRunner -----------------------------
(***************************************************************************)
(* test/load_runner.py and api/tests/load.py: one load job, its coroutine, *)
(* the coroutines of its virtual users, the threads in which their tests   *)
(* run, and the buckets that collect the results.                          *)
(*                                                                         *)
(* The coroutines share one event loop: a step of any of them, and of a    *)
(* request handler, lasts until the next await.  `task` is the place of    *)
(* the job's coroutine.  It holds the loop while it works on a second of   *)
(* the timeline ("ticking") and while `with ThreadPoolExecutor` joins its  *)
(* threads ("joining"), which is a blocking call.                          *)
(*                                                                         *)
(* A cancelled user ends at its await without recording anything.  Its     *)
(* test goes on if a thread has begun it, and is dropped if it is queued.  *)
(***************************************************************************)
EXTENDS LoadScenario, FiniteSets

CONSTANTS Users,          \* bound: identities of user coroutines, reused
          Scenarios,      \* what clients submit
          BucketS,        \* width of a bucket
          SpareThreads, MinThreads,
          ThinkTime,      \* is there a pause between two tests of a user?
          MaxCancels,     \* bound on calls of DELETE
          MaxRecords,     \* bound on the tests that are recorded
          MaxTime         \* bound on the clock

ASSUME LoadAssumption ==
    /\ IsFiniteSet(Users) /\ ThinkTime \in BOOLEAN
    /\ BucketS \in Nat \ {0} /\ SpareThreads \in Nat /\ MinThreads \in Nat
    /\ MaxCancels \in Nat /\ MaxRecords \in Nat /\ MaxTime \in Nat
    /\ Scenarios \subseteq Seq([type: {"ramp", "steady"}, duration: Int, from: Int, to: Int])

VARIABLES now,        \* the wall clock, in seconds
          status,     \* _load_jobs[job_id]["status"], or "none"
          task,       \* place of _run_and_store and run
          final,      \* local final_status; "lost" when run is abandoned
          cancelling, \* a cancellation that the coroutine has not seen yet
          cancels,
          timeline, tick,
          begun, collecting,  \* start_time and collector._start_time
          active,     \* active_tasks
          user,       \* per user coroutine: where it is
          thread,     \* per user coroutine: what became of the test it submitted
          open,       \* collector._open: [ok, ko] per bucket with records
          flushed,    \* collector._flushed: [t, ok, ko] per closed bucket
          recorded,   \* collector._per_test, all tests together
          report      \* total_ok and total_ko of the report, or None

jobVars    == <<status, task, final, cancelling, cancels, timeline, tick, begun, collecting>>
userVars   == <<active, user, thread>>
bucketVars == <<open, flushed, recorded, report>>
loadVars   == <<now, jobVars, userVars, bucketVars>>

None == [ok |-> -1, ko |-> -1]
Final == {"COMPLETED", "CANCELLED", "FAILED"}

LoadInit ==
    /\ now = 0 /\ status = "none" /\ task = "none" /\ final = "COMPLETED"
    /\ cancelling = FALSE /\ cancels = 0
    /\ timeline = <<>> /\ tick = 0 /\ begun = 0 /\ collecting = 0
    /\ active = <<>> /\ user = [u \in Users |-> "gone"] /\ thread = [u \in Users |-> "none"]
    /\ open = <<>> /\ flushed = <<>> /\ recorded = [ok |-> 0, ko |-> 0] /\ report = None

\* Handlers and other coroutines run while the job's coroutine awaits.
LoopFree == task \notin {"ticking", "joining"}

PoolSize == IF Peak(timeline) + SpareThreads < MinThreads
            THEN MinThreads ELSE Peak(timeline) + SpareThreads
Busy == {u \in Users : thread[u] \in {"queued", "running"}}
Live == {u \in Users : user[u] # "gone"}

-----------------------------------------------------------------------------
\* BucketCollector.

BucketOf(t) == (t \div BucketS) * BucketS
Plus(c, ok) == IF ok THEN [c EXCEPT !.ok = @ + 1] ELSE [c EXCEPT !.ko = @ + 1]

IsClosed(t, elapsed) == t < BucketOf(elapsed)

\* _make_bucket.
Closed(t) == [t |-> t, ok |-> open[t].ok, ko |-> open[t].ko]

\* flush_completed and flush_all: the buckets in `keys` are closed in order.
Flush(keys) ==
    /\ \E order \in [1..Cardinality(keys) -> keys] :
          /\ \A i, j \in DOMAIN order : i < j => order[i] < order[j]
          /\ flushed' = flushed \o [i \in DOMAIN order |-> Closed(order[i])]
    /\ open' = [t \in DOMAIN open \ keys |-> open[t]]

FlushedTotal == [ok |-> SumFunction([i \in DOMAIN flushed |-> flushed[i].ok]),
                 ko |-> SumFunction([i \in DOMAIN flushed |-> flushed[i].ko])]

-----------------------------------------------------------------------------
\* The API.
Submit ==
    /\ LoopFree /\ status = "none"
    /\ \E phases \in Scenarios :
        /\ IsScenario(phases)
        /\ timeline' = Timeline(phases)
    /\ status' = "PENDING" /\ task' = "created"
    /\ UNCHANGED <<now, final, cancelling, cancels, tick, begun, collecting, userVars, bucketVars>>

\* Mutant of Cancel: it sets the status at once, whatever the task does.
CancelAtOnce ==
    /\ LoopFree /\ status # "none" /\ cancels < MaxCancels
    /\ status' = "CANCELLED" /\ cancelling' = TRUE /\ cancels' = cancels + 1
    /\ UNCHANGED <<now, task, final, timeline, tick, begun, collecting, userVars, bucketVars>>

\* DELETE /load-tests/{job_id} while the task is not done.
Cancel ==
    /\ LoopFree /\ task \notin {"none", "finished"} /\ cancels < MaxCancels
    /\ cancelling' = TRUE /\ cancels' = cancels + 1
    /\ UNCHANGED <<now, status, task, final, timeline, tick, begun, collecting, userVars, bucketVars>>

\* GET /load-tests/{job_id}/report: the status of the response.
GetReport ==
    IF status = "none" THEN 404
    ELSE IF status \in {"PENDING", "RUNNING"} THEN 202
    ELSE IF report = None THEN 500 ELSE 200

-----------------------------------------------------------------------------
\* The job's coroutine.

\* A task cancelled before its first step never enters _run_and_store.
NeverStart ==
    /\ LoopFree /\ task = "created" /\ cancelling
    /\ task' = "finished" /\ cancelling' = FALSE
    /\ UNCHANGED <<now, status, final, cancels, timeline, tick, begun, collecting, userVars, bucketVars>>

\* Mutant of Start: the timeline's clock starts before the collector's.
StartEarly ==
    /\ LoopFree /\ task = "created" /\ ~cancelling
    /\ begun' = now
    /\ \E t \in {now, now + 1} : t <= MaxTime /\ now' = t /\ collecting' = t
    /\ status' = "RUNNING" /\ task' = "ticking"
    /\ UNCHANGED <<final, cancelling, cancels, timeline, tick, userVars, bucketVars>>

\* The collector's clock starts before the tests are looked up on disk, the
\* timeline's after it.
Start ==
    /\ LoopFree /\ task = "created" /\ ~cancelling
    /\ collecting' = now
    /\ \E t \in {now, now + 1} : t <= MaxTime /\ now' = t /\ begun' = t
    /\ \/ status' = "RUNNING" /\ task' = "ticking"
       \/ status' = "FAILED" /\ task' = "finished"   \* none of the tests exists
    /\ UNCHANGED <<final, cancelling, cancels, timeline, tick, userVars, bucketVars>>

Fresh == {u \in Users : user[u] = "gone" /\ thread[u] = "none"}

\* Cancelling a user: it is gone, and so is its test unless a thread has it.
WithoutUsers(gone) ==
    /\ user' = [u \in Users |-> IF u \in gone THEN "gone" ELSE user[u]]
    /\ thread' = [u \in Users |->
                    IF u \in gone /\ thread[u] # "running" THEN "none" ELSE thread[u]]

ScaleUp(n) ==
    \E new \in kSubset(n, Fresh) :
        /\ active' = active \o SetToSeq(new)
        /\ user' = [u \in Users |-> IF u \in new THEN "created" ELSE user[u]]
        /\ UNCHANGED thread

\* active_tasks.pop() takes the youngest.
ScaleDown(n) ==
    /\ active' = SubSeq(active, 1, Len(active) - n)
    /\ WithoutUsers({active[i] : i \in (Len(active) - n + 1)..Len(active)})

\* One second of the timeline, up to asyncio.sleep.  Nothing in it can raise.
PlaySecond ==
    /\ task = "ticking" /\ tick < Len(timeline)
    /\ LET target == timeline[tick + 1]
       IN  IF target >= Len(active) THEN ScaleUp(target - Len(active))
           ELSE ScaleDown(Len(active) - target)
    /\ Flush({t \in DOMAIN open : IsClosed(t, now - begun)})
    /\ tick' = tick + 1 /\ task' = "asleep"
    /\ UNCHANGED <<now, status, final, cancelling, cancels, timeline, begun, collecting, recorded, report>>

\* Mutant of Finally: the users are awaited, and nobody has cancelled them.
FinallyUncancelled(outcome) ==
    /\ final' = outcome
    /\ task' = IF active = <<>> THEN "joining" ELSE "gathering"
    /\ UNCHANGED <<active, user, thread>>

\* The finally clause, up to its await; without users there is none.
Finally(outcome) ==
    /\ final' = outcome
    /\ WithoutUsers({active[i] : i \in DOMAIN active})
    /\ task' = IF active = <<>> THEN "joining" ELSE "gathering"
    /\ UNCHANGED active

\* next_tick is begun + tick, however late the loop comes to it.
NextTick ==
    /\ task = "asleep" /\ ~cancelling /\ now >= begun + tick
    /\ task' = "ticking"
    /\ UNCHANGED <<now, status, final, cancelling, cancels, timeline, tick, begun, collecting, userVars, bucketVars>>

Complete ==
    /\ task = "ticking" /\ tick = Len(timeline)
    /\ Finally("COMPLETED")
    /\ UNCHANGED <<now, status, cancelling, cancels, timeline, tick, begun, collecting, bucketVars>>

\* Mutant of SeeCancellation: CancelledError is taken for any other error.
SeeCancellationAsFailure ==
    /\ task = "asleep" /\ cancelling
    /\ Finally("FAILED") /\ cancelling' = FALSE
    /\ UNCHANGED <<now, status, cancels, timeline, tick, begun, collecting, bucketVars>>

SeeCancellation ==
    /\ task = "asleep" /\ cancelling
    /\ Finally("CANCELLED") /\ cancelling' = FALSE
    /\ UNCHANGED <<now, status, cancels, timeline, tick, begun, collecting, bucketVars>>

\* The users have ended.  A cancellation that came meanwhile raises out of run.
Gathered ==
    /\ task = "gathering" /\ \A i \in DOMAIN active : user[active[i]] = "gone"
    /\ task' = "joining" /\ final' = IF cancelling THEN "lost" ELSE final
    /\ cancelling' = FALSE
    /\ UNCHANGED <<now, status, cancels, timeline, tick, begun, collecting, userVars, bucketVars>>

\* Mutant of Joined: the pool is shut down without waiting for its threads.
JoinedAtOnce == TRUE

\* thread_pool.shutdown(wait=True).
Joined == Busy = {}

\* After the threads: the report, unless run has been abandoned.
Conclude ==
    /\ task = "joining" /\ Joined
    /\ task' = "finished"
    /\ IF final = "lost" THEN UNCHANGED <<status, open, flushed, report>>
       ELSE /\ Flush(DOMAIN open)
            /\ status' = final
            /\ report' = FlushedTotal'
    /\ UNCHANGED <<now, final, cancelling, cancels, timeline, tick, begun, collecting, userVars, recorded>>

-----------------------------------------------------------------------------
\* The users' coroutines and their threads.

\* The next test goes to the pool: at first, or after thinking.
BeginTest(u) ==
    /\ LoopFree /\ user[u] \in {"created", "thinking"}
    /\ user' = [user EXCEPT ![u] = "testing"] /\ thread' = [thread EXCEPT ![u] = "queued"]
    /\ UNCHANGED <<now, jobVars, active, bucketVars>>

ThreadTakes(u) ==
    /\ thread[u] = "queued"
    /\ Cardinality({v \in Users : thread[v] = "running"}) < PoolSize
    /\ thread' = [thread EXCEPT ![u] = "running"]
    /\ UNCHANGED <<now, jobVars, active, user, bucketVars>>

\* run_test returns or raises; nobody looks at the result for a user that is gone.
ThreadEnds(u) ==
    /\ thread[u] = "running"
    /\ \E outcome \in {"passed", "failed"} :
        thread' = [thread EXCEPT ![u] = IF user[u] = "gone" THEN "none" ELSE outcome]
    /\ UNCHANGED <<now, jobVars, active, user, bucketVars>>

\* Mutant of Record: a bucket holds its last record only.
RecordLast(u) ==
    /\ LoopFree /\ user[u] = "testing" /\ thread[u] \in {"passed", "failed"}
    /\ recorded.ok + recorded.ko < MaxRecords
    /\ LET t  == BucketOf(now - collecting)
           ok == thread[u] = "passed"
       IN  /\ open' = [k \in DOMAIN open \cup {t} |->
                          IF k = t THEN Plus([ok |-> 0, ko |-> 0], ok) ELSE open[k]]
           /\ recorded' = Plus(recorded, ok)
    /\ user' = [user EXCEPT ![u] = "thinking"] /\ thread' = [thread EXCEPT ![u] = "none"]
    /\ UNCHANGED <<now, jobVars, active, flushed, report>>

\* collector.record, and the next test at once when there is no think time.
Record(u) ==
    /\ LoopFree /\ user[u] = "testing" /\ thread[u] \in {"passed", "failed"}
    /\ recorded.ok + recorded.ko < MaxRecords
    /\ LET t  == BucketOf(now - collecting)
           ok == thread[u] = "passed"
           c  == IF t \in DOMAIN open THEN open[t] ELSE [ok |-> 0, ko |-> 0]
       IN  /\ open' = [k \in DOMAIN open \cup {t} |-> IF k = t THEN Plus(c, ok) ELSE open[k]]
           /\ recorded' = Plus(recorded, ok)
    /\ user' = [user EXCEPT ![u] = IF ThinkTime THEN "thinking" ELSE "testing"]
    /\ thread' = [thread EXCEPT ![u] = IF ThinkTime THEN "none" ELSE "queued"]
    /\ UNCHANGED <<now, jobVars, active, flushed, report>>

\* The clock matters from the job's first step on.
Second ==
    /\ task \notin {"none", "created"}
    /\ now < MaxTime /\ now' = now + 1
    /\ UNCHANGED <<jobVars, userVars, bucketVars>>

RunnerStep == NeverStart \/ Start \/ PlaySecond \/ NextTick \/ Complete \/ SeeCancellation
              \/ Gathered \/ Conclude
UserStep(u) == BeginTest(u) \/ Record(u)
ThreadStep(u) == ThreadTakes(u) \/ ThreadEnds(u)
LoadNext == Submit \/ Cancel \/ RunnerStep \/ Second
            \/ \E u \in Users : UserStep(u) \/ ThreadStep(u)

Spec == LoadInit /\ [][LoadNext]_loadVars

\* Coroutines that can run do, threads run their tests to the end, time passes.
\* Nobody has to submit or cancel anything, and no user has to begin a test.
FairSpec ==
    /\ Spec /\ WF_loadVars(RunnerStep) /\ WF_loadVars(Second)
    /\ \A u \in Users : WF_loadVars(ThreadStep(u))

-----------------------------------------------------------------------------
\* Every recorded test is in exactly one bucket, open or flushed, so that the
\* totals of a report (the sum over its buckets) are those of the summaries.
NoRecordLost ==
    /\ recorded.ok = FlushedTotal.ok + SumFunction([t \in DOMAIN open |-> open[t].ok])
    /\ recorded.ko = FlushedTotal.ko + SumFunction([t \in DOMAIN open |-> open[t].ko])
    /\ report # None => report = recorded

\* A bucket is flushed once, in order of time, and nothing is recorded into a
\* bucket that a client has already seen as complete.
BucketsCloseOnce ==
    \A i \in DOMAIN flushed :
        /\ \A j \in 1..(i - 1) : flushed[j].t < flushed[i].t
        /\ \A t \in DOMAIN open : flushed[i].t < t

\* Once a load job is over, with or without a report, none of its tests is
\* still running or waiting for a thread.
NothingRunsAfterwards == task = "finished" => Live = {} /\ Busy = {}

\* The timeline of a job has one entry per second of its scenario; a phase stays
\* between its ends, moves one way only and, when it ramps for two seconds or
\* more, goes from its first number to its last.
TimelineFollowsPhases ==
    status # "none" => \E phases \in Scenarios :
        LET From(j) == 1 + Duration(SubSeq(phases, 1, j - 1))
            To(j) == Duration(SubSeq(phases, 1, j))
        IN  /\ Len(timeline) = Duration(phases)
            /\ \A j \in DOMAIN phases :
                LET p == phases[j] IN
                /\ timeline[To(j)] = p.to
                /\ p.type = "ramp" /\ p.duration > 1 => timeline[From(j)] = p.from
                /\ \A t \in From(j)..(To(j) - 1) :
                    IF p.type = "steady" THEN timeline[t] = p.to
                    ELSE (timeline[t + 1] - timeline[t]) * (p.to - p.from) >= 0

\* What a client has been told of the end of a job does not change any more, and
\* a report that could be fetched stays available.
FinalIsFinal ==
    [][(status \in Final \/ GetReport = 200) => UNCHANGED <<status, report, flushed>>]_loadVars

\* The coroutine of a load job always ends, so its threads and task are freed.
TaskEnds == task = "created" ~> task = "finished"

\* A job cancelled between two seconds of its timeline becomes CANCELLED, unless
\* it is cancelled again before it has got rid of its users.
CancelledJobSaysSo ==
    (task = "asleep" /\ cancelling) ~> (status = "CANCELLED" \/ cancels > 1)
=============================================================================
