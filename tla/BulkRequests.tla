---------------------------- MODULE BulkRequests ----------------------------
(***************************************************************************)
(* Requests that run tests or sends and keep their results:                *)
(*   "tests"  api/tests/bulk.py, which awaits all of its runs in one gather *)
(*            when the mode is parallel                                    *)
(*   "sends"  api/send/bulk.py, one gather per repetition, under a         *)
(*            semaphore                                                    *)
(*   "job"    api/tests/execution.py with async_mode, a single test whose  *)
(*            state is in the TestJobManager of test/jobs.py               *)
(* Bulk results go to test/results_db.py.  A send is run by SendExecutor; a *)
(* test is an await of run_test, which ends with a status and never raises *)
(* (module TestRuns shows what it does).                                   *)
(***************************************************************************)
EXTENDS SendExecutor, SequencesExt

CONSTANTS Requests,   \* identities of requests
          Asks,       \* the bulk requests that may come
          JobTests    \* the tests that may be run as jobs

\* repeat and parallel_workers are integers; ids selects tests or sends.
ASSUME BulkAssumption ==
    /\ \A a \in Asks :
        /\ a.kind \in {"tests", "sends"} /\ a.parallel \in BOOLEAN
        /\ a.workers \in Nat /\ a.repeat \in Nat /\ a.ids \in Seq(DOMAIN Definitions)
    /\ Runs \subseteq Requests \X (Nat \ {0})

VARIABLES req,    \* per request: what was asked and the state of its runs
          rows,   \* execution_results: the saved rows, the latest first
          job     \* TestJobManager.jobs: the status per request of kind job

bulkVars == <<req, rows, job, sendVars>>

Unsent  == [kind |-> "none", parallel |-> FALSE, workers |-> 1, size |-> 1,
            runs |-> <<>>, state |-> <<>>, answered |-> FALSE]
Passed  == {"PASSED", "COMPLETED"}
Ended   == Passed \cup {"FAILED", "SKIPPED"}
BulkInit ==
    /\ req = [r \in Requests |-> Unsent] /\ rows = <<>>
    /\ job = [r \in Requests |-> "none"]
    /\ SendInit

Repeated(selection, n) == [i \in 1..(n * Len(selection)) |-> selection[1 + ((i - 1) % Len(selection))]]
In(r, states) == {i \in DOMAIN req[r].runs : req[r].state[i] \in states}
Iteration(r, i) == (i - 1) \div req[r].size
LoopFree == holder = NoRun

-----------------------------------------------------------------------------
\* The runs of all repetitions, in their order.
Ask(r) ==
    /\ LoopFree /\ req[r].kind = "none"
    /\ \E a \in Asks :
        LET runs == Repeated(a.ids, a.repeat) IN
        req' = [req EXCEPT ![r] =
                    [kind |-> a.kind, parallel |-> a.parallel, workers |-> a.workers,
                     size |-> Len(a.ids), runs |-> runs, answered |-> FALSE,
                     state |-> [i \in DOMAIN runs |-> "waiting"]]]
    /\ UNCHANGED <<rows, job, sendVars>>

\* create_job, start_job, create_task; the response does not wait.
AskJob(r) ==
    /\ LoopFree /\ req[r].kind = "none"
    /\ \E t \in JobTests :
        req' = [req EXCEPT ![r] = [Unsent EXCEPT !.kind = "job", !.runs = <<t>>,
                                                 !.state = <<"waiting">>, !.answered = TRUE]]
    /\ job' = [job EXCEPT ![r] = "RUNNING"]
    /\ UNCHANGED <<rows, sendVars>>

\* Mutant of HasWorker: the semaphore admits one run too many.
HasWorkerMore(r) == Cardinality(In(r, {"running"})) <= req[r].workers

\* Mutant of HasWorker: a send that fails keeps its permit.
HasWorkerLeaking(r) == Cardinality(In(r, {"running", "FAILED"})) < req[r].workers

\* asyncio.Semaphore(parallel_workers), for sends; it serves its waiters in order.
HasWorker(r) == Cardinality(In(r, {"running"})) < req[r].workers

\* In sequence a run begins when the one before has ended.
MayBegin(r, i) ==
    \/ ~req[r].parallel /\ \A j \in 1..(i - 1) : req[r].state[j] \in Ended
    \/ req[r].parallel /\ req[r].kind = "tests"
    \/ /\ req[r].parallel /\ req[r].kind = "sends" /\ HasWorker(r)
       /\ \A j \in 1..(i - 1) : /\ req[r].state[j] # "waiting"
                                /\ Iteration(r, j) # Iteration(r, i) => req[r].state[j] \in Ended

BeginRun(r, i) ==
    /\ LoopFree /\ req[r].state[i] = "waiting" /\ MayBegin(r, i)
    /\ req' = [req EXCEPT ![r].state[i] = "running"]
    /\ IF req[r].kind = "sends" THEN Begin(<<r, i>>, req[r].runs[i]) ELSE UNCHANGED sendVars
    /\ UNCHANGED <<rows, job>>

EndRun(r, i) ==
    /\ LoopFree /\ req[r].state[i] = "running"
    /\ \E outcome \in IF req[r].kind = "sends" THEN {send[<<r, i>>].status} \cap Ended
                      ELSE Ended \ {"COMPLETED"} :
        req' = [req EXCEPT ![r].state[i] = outcome]
    /\ UNCHANGED <<rows, job, sendVars>>

-----------------------------------------------------------------------------
Count(r, outcomes) == Cardinality(In(r, outcomes))

\* Mutant of RowOf: what was skipped is left out of the total.
RowOfRuns(r) ==
    [request |-> r, type |-> req[r].kind, total |-> Count(r, Ended \ {"SKIPPED"}),
     passed |-> Count(r, Passed), failed |-> Count(r, {"FAILED"}),
     skipped |-> Count(r, {"SKIPPED"}), success |-> Count(r, {"FAILED"}) = 0]

\* The record that is saved (passed stands for completed when it is of sends).
RowOf(r) ==
    [request |-> r, type |-> req[r].kind, total |-> Len(req[r].runs),
     passed |-> Count(r, Passed), failed |-> Count(r, {"FAILED"}),
     skipped |-> Count(r, {"SKIPPED"}), success |-> Count(r, {"FAILED"}) = 0]

\* Aggregation and response, with or without the row: a failed save is logged.
\* The coroutines of the request end with it.
Answer(r) ==
    /\ LoopFree /\ req[r].kind \in {"tests", "sends"} /\ ~req[r].answered
    /\ In(r, Ended) = DOMAIN req[r].runs
    /\ req' = [req EXCEPT ![r] = [Unsent EXCEPT !.kind = req[r].kind, !.answered = TRUE]]
    /\ rows' \in {rows, <<RowOf(r)>> \o rows}
    /\ Forget({x \in Runs : x[1] = r})
    /\ UNCHANGED job

\* complete_job, whatever the test's status.
FinishJob(r) ==
    /\ LoopFree /\ job[r] = "RUNNING" /\ In(r, Ended) = DOMAIN req[r].runs
    /\ job' = [job EXCEPT ![r] = "COMPLETED"]
    /\ UNCHANGED <<req, rows, sendVars>>

\* DELETE of one result, or of those before a date.
DeleteRows ==
    /\ LoopFree /\ rows # <<>>
    /\ \E i \in DOMAIN rows : rows' \in {RemoveAt(rows, i), SubSeq(rows, 1, i - 1)}
    /\ UNCHANGED <<req, job, sendVars>>

\* The rows of one type ("all" for any) among the n latest, by their place; n
\* stands for a date.
Selected(type, n) == {i \in 1..n : type \in {"all", rows[i].type}}

\* get_statistics since a date.
Statistics(type, n) ==
    LET Total(of) == SumFunctionOnSet(of, Selected(type, n))
    IN [executions |-> Cardinality(Selected(type, n)),
        items   |-> Total([i \in DOMAIN rows |-> rows[i].total]),
        passed  |-> Total([i \in DOMAIN rows |-> rows[i].passed]),
        failed  |-> Total([i \in DOMAIN rows |-> rows[i].failed]),
        skipped |-> Total([i \in DOMAIN rows |-> rows[i].skipped])]

\* list_results: of the selected rows, `limit` after the first `offset`.
Page(type, limit, offset) ==
    {i \in Selected(type, Len(rows)) :
        Cardinality(Selected(type, i)) \in (offset + 1)..(offset + limit)}

RunStep(r, i) == BeginRun(r, i) \/ EndRun(r, i) \/ (SendStep(<<r, i>>) /\ UNCHANGED <<req, rows, job>>)
Progress(r) == Answer(r) \/ FinishJob(r) \/ \E i \in DOMAIN req[r].runs : RunStep(r, i)
BulkNext == DeleteRows \/ \E r \in Requests : Ask(r) \/ AskJob(r) \/ Progress(r)

\* Requests end when their runs do, and the one loop always goes on.
BulkSpec == BulkInit /\ [][BulkNext]_bulkVars /\ \A r \in Requests : WF_bulkVars(Progress(r))

-----------------------------------------------------------------------------
\* Concurrent sends of a request keep to its parallel_workers, those of a
\* sequential request go one at a time, and no repetition overtakes another.
SendsKeepLimits ==
    \A r \in Requests : req[r].kind = "sends" =>
        /\ Cardinality(In(r, {"running"})) <= IF req[r].parallel THEN req[r].workers ELSE 1
        /\ \A i, j \in DOMAIN req[r].runs :
            req[r].state[i] # "waiting" /\ Iteration(r, j) < Iteration(r, i)
                => req[r].state[j] \in Ended

\* Whatever has been saved and deleted, the statistics of every period and
\* type account for every run, and the pages of a list show each row once.
StatisticsAddUp ==
    \A type \in {"all", "tests", "sends"} :
        /\ \A n \in 0..Len(rows) :
            LET s == Statistics(type, n) IN s.items = s.passed + s.failed + s.skipped
        /\ \A limit \in 1..3 :
            LET Shown(k) == Page(type, limit, k * limit)
            IN  /\ \A k \in 0..Len(rows) : Cardinality(Shown(k)) <= limit
                /\ \A i \in Selected(type, Len(rows)) :
                    Cardinality({k \in 0..Len(rows) : i \in Shown(k)}) = 1

\* Every request is answered, and a job leaves RUNNING: no run holds a worker
\* or the loop for ever.  Only a semaphore of no permits lets nobody pass.
Hopeless(r) == req[r].kind = "sends" /\ req[r].parallel /\ req[r].workers = 0
RequestsConclude ==
    \A r \in Requests :
        req[r].kind # "none" ~> \/ req[r].answered /\ job[r] # "RUNNING"
                                \/ Hopeless(r)
=============================================================================
