# kafka-wiremock in TLA+

kafka-wiremock stands in for the systems around a program that talks Kafka,
JMS, HTTP and SQL: it consumes messages, answers them by rules, and runs tests
that inject messages and wait for what the program makes of them. This
directory holds TLA+ modules of its core, the TLC configurations that check
them on small instances, and TLAPS proofs of the main theorems for every
instance. Paths below are relative to the repository; the Python package is
`src/`.

* [What there is in the code](#the-system)
* [The modules and how they follow the code](#the-modules)
* [What is checked](#runs), [with which bounds](#bounds), [under which fairness](#fairness)
* [What is proved](#proofs)
* [Where code and documentation disagree](#disagreements)
* [What is not modelled](#not-modelled), [the plan](#plan)

## The system

Everything lives in one process: the FastAPI event loop, in which tests run as
coroutines; one thread that consumes all Kafka topics; one that polls all JMS
queues; a clean-up thread of the cache; worker threads for waits and for load
tests. `src/main.py` (`lifespan`) creates the parts and gives each the others it
needs. All state but the brokers' and the result database is in memory.

| component | state | operations | what is hard |
|---|---|---|---|
| message cache, `test/cache.py` | lists of entries per topic or queue, a lock, a condition with a lock of its own | `add_message`, `get_messages`, `wait_for_new_message`, `mark_consumed_by_*`, two clean-ups | three writers and many readers; append and notify are separate; entries found again by key; eviction while a test waits |
| Kafka listener, `kafka/listener.py` | consumer, subscription, running flag, the locals of the message in hand | poll, cache, match, answer, mark; start, stop, `ensure_listening_to_topic` | consumer lost between commits; loop locals shared by outputs; first match versus skipped rules |
| Kafka client, `kafka/client.py`, `topic_metadata.py` | producer, known topics, times of the last checks | `produce`, topic checks | silent failures; negative answers that are cached and shared by all callers |
| JMS listener, `jms/listener.py` | polled and paused queues, the batch in hand | cycle, pause, resume, answer, cache the reply | check of the pause flag before the get; put and cache are two steps |
| JMS client and providers, `jms/client.py`, `jms/providers/` | one connection per queue manager, handles that share it, a cache of handles, three kinds of lock | `put_message`, `get_message`, reconnect | retry after a put of unknown outcome; several threads that find the same connection broken |
| rules, `config/loader.py`, `rules/matcher.py`, `fault/injector.py` | rule list, topic index, file hashes | load, reload, match, fault dice | reload beside readers; priorities |
| test executor, `test/suite.py` | per run: injections done, expectation in hand, seen keys, deadline | `run_test`: when phase, then phase | deadline against arrival; deduplication; concurrent tests on one cache |
| load runner, `test/load_runner.py`, `test/load_scenario.py`, `api/tests/load.py` | job, task, users, thread pool, metric buckets | submit, tick, record, cancel, report | cancellation at every await; threads that outlive their task; two clocks |
| bulk requests and jobs, `api/tests/bulk.py`, `api/send/bulk.py`, `test/jobs.py`, `test/results_db.py` | runs of a request, semaphore, saved rows | run in sequence or parallel, save, delete, statistics | limits under failures; requests that never end |
| sends, `send/executor.py` | item in hand, report | `run_send` | a failure or a fault between two effects of one item |
| HTTP stubs and mock servers, `http/` | stubs with their calls and waiters | register, dispatch, wait, clean up | clean-up by test id hits concurrent runs; blocking waits in the event loop |
| DB pool and registry, `db/pool.py`, `db/registry.py`, `db/executor.py` | idle and borrowed connections, lock, semaphore | acquire, release, close, status | permits on error paths; reconnect under the lock; shutdown under the borrowers |
| JMS pool, `jms/pool.py`, `jms/registry.py` | available and borrowed handles, their clients, one condition | get, return, invalidate, close | clean-up, reconnection and wait inside one call; a wake-up that meets a wait that is over |
| outbound HTTP, `http/executor.py`, `http/auth_config.py`, `http/tls_config.py` | profiles with the token each got last and when | execute, resolve, fetch a token | threads that share a profile without a lock |
| listener manager, `test/listener_manager.py`, `config/topic_config.py` | known topics | scan, ensure listening | topics that appear later; four parties with intervals of their own |
| templates, correlation, schema registry, settings, API, UI, result database | — | rendering, parsing, storage | data rather than control |

How they interact: the listeners write the cache, the tests read it and sleep on
its condition; rules make the listeners produce to topics and queues that the
listeners themselves read; the API pauses queues while the JMS thread works;
tests, rules and the API borrow database connections from one pool.

What makes each part correct: a verdict MATCHED rests on a real, recent message
of the right topic, and TIMEOUT is not given early (executor, cache); a record that
can be decoded is cached once and in order, and is not skipped after a commit (Kafka listener); what
the cache shows as sent has been sent (JMS listener); a message is answered by the
first live rule, a bounded number of times (rules); permits, sizes and
statistics are right on all paths, and a handle has one borrower (pools); a put that succeeds has put, and a
connection that works is left alone (JMS providers); stubs belong to runs and calls
to stubs (HTTP); each result is counted once and a job that is over is over (load
runner); the files and topics of today are in effect tomorrow (reload,
subscription); everything that has started concludes.

## The modules

| module | models | variables |
|---|---|---|
| `Common` | names of topics, queues and bodies; the clock all threads read | `clock` |
| `Brokers` | Kafka partitions and JMS queues as the program sees them (external), `produce`, `put_message` | `log`, `logEnd`, `queued` |
| `MessageCache` | `test/cache.py`, one operator per critical section | `messages`, `nextId`, `waiting` |
| `Rules` | rule records, first match, faults | — |
| `KafkaListener` | the unified listener thread and its consumer | `connected`, `position`, `polled`, `committed`, `losses`, `kl` |
| `JMSListener` | the JMS listener thread | `jl`, `paused` |
| `TestExecutor` | `TestExecutor.run_test` on messages | `run` |
| `MessageFlow` | the composition of the seven modules above | `external` |
| `TestContract` | what the verdict of a test promises, abstractly | |
| `DBConnectionPool` | `db/pool.py` and its callers | `permits`, `lock`, `idle`, `lent`, `up`, `pc`, `held`, `closer`, `doomed` |
| `BoundedLease` | what a pool promises its borrowers, abstractly | `loan` |
| `JMSPool` | `jms/pool.py`, `jms/registry.py` | `available`, `inUse`, `client`, `invalid`, `usable`, `place`, `borrowed`, `waiters`, `closing` |
| `HttpExecutor` | requests of `http/executor.py`, their profiles and tokens | `token`, `stamp`, `stage`, `job`, `asked`, `got`, `header`, `clock` |
| `JMSConnections` | `jms/providers/ibm_mq.py`: threads, handles and the one connection to a queue manager | `prov`, `cache`, `user`, `opLock`, `dialLock`, `live`, `tracked`, `links`, `up`, `breaks`, `outages`, `closed` |
| `HttpStubs` | `http/stub_cache.py` | `stubs`, `byTest`, `calls` |
| `MockDispatch` | `http/mock_dispatch.py`, `mock_server.py`: inbound requests | `req`, `tasks`, `fired` |
| `TestRuns` | whole runs of tests, composed with the two modules above | `run`, `stubId`, `history` |
| `LoadScenario` | phases and timeline, as functions | — |
| `LoadRunner` | a load job, its users, threads and buckets | `task`, `status`, `user`, `thread`, `open`, `flushed`, … |
| `SendExecutor` | `run_send`, on one event loop | `send`, `sent`, `holder` |
| `BulkRequests` | bulk tests, bulk sends, jobs and saved results, over `SendExecutor` | `req`, `rows`, `job` |
| `Matching` | documents, order of rules, conditions, the dry run, as functions | — |
| `RuleFiles` | hot reload of the rule files, over `Matching` | `disk`, `rules`, `hashes`, `reading`, `unread`, `edits` |
| `TopicSubscription` | which topics the Kafka listener hears, over `RuleFiles` | `known`, `asked`, `producing`, `listed`, `confirmed`, `missed`, `loop`, `subscription`, `scan`, … |
| `MCMessageFlow`, `MCConnections`, `MCJMSConnections`, `MCTestRuns`, `MCLoadRunner`, `MCBulkRequests`, `MCTopicSubscription` | instances for TLC | |
| `MessageFlowProofs`, `DeliveryProofs`, `ConnectionsProofs`, `JMSConnectionsProofs`, `DispatchProofs`, `LoadRunnerProofs`, `BulkProofs` | theorems | |
| `SumTheorems` | lemmas on least elements, finite sets and sums, for the two modules before | |

**Cache.** The lists are append-only up to eviction, so an entry carries the number
of its arrival and the cache is a set. `add_message` takes two locks one after the
other: `AddMessage` and `NotifyAll` are separate steps of whoever calls it. Each
access first evicts the expired entries of the topic (`Purge`), as the code does.

**Kafka listener.** `kl.pc` is the place in `_process_message` and `_execute_rule`:
poll → notify → match → output (→ duplicate) → … → mark. The Python locals
`rendered_destination` and `message_to_send` survive an iteration of the loop over
outputs, and so do `kl.dest` and `kl.payload`; the duplicate of a database output
therefore goes where an earlier output went. Headers and key are decoded before the record is cached:
bodies in `Undecodable` stand for records where that raises, which `CacheRecord` passes over while `Poll`
has moved the position already, so that the offset is committed all the same. The consumer commits in the
background (`AutoCommit`); `LoseConsumer` is the exception handler of the loop,
which closes the consumer with or without a last commit.

**JMS listener.** idle → get → take → notify → match → output → cache → notify → …
→ mark, then the next message of the batch. The flag `paused` is read when a queue
is chosen, and the messages are taken in a later step. Entries get timestamp,
partition and offset 0, the defaults of `add_message`, since the code passes none.

**Executor.** A run is idle → inject (→ resend) → collect → read → waiting → collect
… → done. `Collect` is one iteration of the loop up to the wait, one critical
section with the cache; `BeginWait` and `EndWait` are the wait in a thread of its
own, so a message may arrive between read and wait. Conditions and correlation
select messages by their content, so an expectation carries the set of bodies it
wants. `run[t].received` keeps, per expectation, what its last read found: MATCHED
when it is not empty, else TIMEOUT.

**DB pool.** A thread takes a permit, takes the lock, pops idle connections until one
is good, else asks the factory; `Return` and `ReturnPermit` are the two halves of
`release`. `Close`, `Disconnect` and `Forget` are the shutdown, which runs beside
borrowers. The factory may return any provider at any call. The one that `main.py` passes returns the same
provider each time (`src/main.py:287`): it is then in `idle` and in `lent` several times, and reconnects and
disconnects for all who have it.

**JMS pool.** A handle (`PooledConnection`) wraps a client. The condition's lock is held from the start of
`get_connection` to its end or wait, so a borrower inside excludes the others (`MonitorFree`), and the
steps of one visit are `Expire`, `Pop`, `Renew` or `RenewFails`, `Grow` and `Wait`. `waiters` is the
list of the condition: `notify` takes its head off, whether that thread still waits (it goes on) or its
timeout has come first (`late`: the wake-up is lost). The factory may return a client that it has returned
before, as that of the registry always does (`src/jms/registry.py:48`): a client may have several handles, and
whoever closes one closes it for all.

**Outbound HTTP.** `Resolve` is the choice of a profile: an explicit reference, else the first override in the file
that matches. A token is named by the moment it was issued; `Lookup` → `Issue` → `Store` → `Stamp` is
`_fetch_token`, whose two assignments other threads may come between.

**JMS connections.** A handle is a Python object, so it is `[conn, by]`: the connection
it stands for and the provider or thread that made it. Two threads may hold handles of
one connection. A thread in `put_message` or `get_message` goes idle → snap → queue and,
when the connection turns out broken, drop → hang up → evict → reconnect → dial →
publish → settle. Between `Publish` and `Settle` lie the assignments that `connect()` makes
without the lock that `_invalidate_connection` takes; `Settle` puts into the cache the handle that the provider
has by then, None when it was invalidated in between. `tracked` is what the MQ library
believes: with a connection it still knows, `connectTCPClient` gives a new object for it.

**Runs, stubs, mock servers.** `TestRuns` is `run_test` around the expectations that
`TestExecutor` models: registration of stubs (`MarkItem` writes the identity into the shared
definition, `RegisterStub` fills the cache), the when phase with its faults, the items of the
then phase, the verdict and the clean-up in the finally clause. `OnLoop` are the runs that share the main
event loop: a run that registers, waits for a stub or cleans up keeps it (`Holding`), the others stand
still. Runs of load tests have a thread each. `MockDispatch` has a loop per server: a request
is matched against a copy of the stubs, then rules, then defaults, and gives the loop away
only where an output waits. The event of a stub is set by the call that reaches `times`, so also for `times` 0
there must be one (`IsFulfilled`). `history` is auxiliary: which requests came when, and whether another run of the
test has written identities or cleaned up meanwhile (`disturbed`).

**Load runner.** `task` is the place of the job's coroutine: created → ticking → asleep →
ticking … → gathering → joining → finished. It holds the event loop while ticking and, because the exit of the `with`
block joins the threads, while joining. A cancellation is a flag seen at the next await. A test of
a cancelled user goes on in its thread, or is dropped when it is still queued.

**Sends and bulk requests.** `holder` is the run that has the event loop; it gives it away
when it awaits a latency, an answer or a delay. `told` is the report under construction, `sent` what the
clients have sent: `Produce` sends to Kafka or silently not at all, `Put` sends to a queue or raises. A request is a sequence of runs with a state each; `MayBegin` is what mode
and semaphore allow.

**Rules, files, subscription.** A document carries its conditions as records whose patterns and
values are model values; `Within` and `Found` say which text contains or matches which. `RuleThatRuns` is the
listener's choice, `RuleExplained` that of `/debug/match`. A reload is one step for the load and one for the hash of each
file, since editors do not wait; `unread` is auxiliary: the files whose kept hash is of contents that the rules in force
were not read from. In `TopicSubscription` intervals are actions that end them
(`UpdateIntervalEnds`, `RetryIntervalEnds`, `CheckIntervalEnds`), which covers any relation of their lengths. A producer asks the broker in a
thread of its own (`AskToProduce`, `AnswerToProduce`), and whoever asks in between is told no; the checks of the listener
and of the scanner are atomic, which leaves out only that each sees the other's question in flight.

## Runs

Definitions commented as mutants are bugs one might plausibly write in place of a mapped
definition (`PROJECT.json`, "mutants"). Every property of a passing run is violated
under at least one of them, which shows that the run reaches what the property is about.

| run | question | properties |
|---|---|---|
| `FlowDelivery` | Does the Kafka side lose, repeat, reorder or wrongly flag records when its consumer is lost or a record cannot be decoded? | `NothingSkippedOnceCommitted`, `InOrderWithoutLoss`, `ConsumedFlagSound`, `NoEarlyEviction` |
| `FlowVerdicts` | Are the verdicts of a test right, with two partitions and traffic from outside? | `MatchedSound`, `NoTopicMessagePassedOver`, `ImplementsContract` |
| `FlowQueues` | Does the JMS side show only replies it has put, with pauses and failing calls, and flag messages of queues with rules only? | `RepliesWerePut`, `ConsumedFlagSound`, `TypeOK` |
| `FlowProgress` | Does everything conclude, and is an order answered at most twice, under all faults and behind records that cannot be decoded? | `TestsConclude`, `RecordsReachCache`, `AtMostTwoAnswers` |
| `SharedConnections` | Do threads that share connections and tokens get them within the limits, in time and in the end, through failures and shutdown and with a provider or client shared by all? | `PermitsConserved`, `StatsExact`, `LockReleased` (DB pool); `ImplementsHandleLease`, `RequestsEnd` (JMS pool); `TokensInTime` (HTTP) |
| `JMSLinks` | Do threads that find a shared connection broken tell the truth, leave each other's new one alone and recover? | `PutsAreTrue`, `LiveLinksStay`, `Recovers` |
| `StubbedRuns` | Do concurrent runs of tests see their calls, leave nothing behind and end? | `NothingLeftBehind`, `MatchedWasCalled`, `CallsCount`, `OutputsOnce`, `EverythingEnds` |
| `LoadJob` | Does a load job count right, follow its scenario and end, however it is cancelled? | `NoRecordLost`, `BucketsCloseOnce`, `NothingRunsAfterwards`, `TimelineFollowsPhases`, `FinalIsFinal`, `TaskEnds`, `CancelledJobSaysSo` |
| `BulkAndSends` | Do bulk requests keep their limits and report what happened? | `SendsKeepLimits`, `StatisticsAddUp`, `ReportIsTrue`, `RequestsConclude` |
| `Listening` | Do files, topics and tests take effect in the end, whatever is edited, created or fails in between? | `ListedTopicsAreHeard`, `FilesTakeEffect` |
| `PausedQueue`, `FaultedTest` | see [Disagreements](#disagreements) | `PausedQueuesKeepMessages`, `SkippedCauseNoFailure` |

Some properties carry an exception that the code needs; each is part of their statement.

* `NothingSkippedOnceCommitted` speaks of partitions with a commit (a group that has committed nothing
  starts at the end of the log, the documented meaning of `latest`) and, like `RecordsReachCache`, of records that
  can be decoded.
* `ConsumedFlagSound` promises no more than the key by which the flag is placed: it says that the flagged
  message has topic and offset of one that a rule accepts, not that it is that one.
* `FilesTakeEffect` excepts files that cannot be sorted together, and a file that is taken for loaded
  ever after (`TakenForLoaded`): edited between load and hash, or noticed by a check whose reload then failed.
* `CallsCount` excepts runs that another run of their test has disturbed, and counts for a stub what no other
  stub took.
* `ReportIsTrue` lets messages for Kafka be reported that were not sent, `AtMostTwoAnswers` leaves out a kind of rule,
  `CancelledJobSaysSo` two moments of cancellation. All these are under [Disagreements](#disagreements).
* `RequestsConclude` is about semaphores with at least one permit.

### Bounds

*Message flow.* `MaxTime` stops the clock, `Epoch` is its start. Between the two lie one to three
units (one in `FlowQueues` and `FlowProgress`, whose properties do not compare times), with
`TTL` and `Wait` two units and `PollWait` one, so that entries expire, tests time out and a
wait ends before its test's deadline. An expectation that begins too late in the modelled
time has its deadline at `MaxTime`; `TestContract` has `Horizon` for it. `MaxLosses`
losses of the consumer and `MaxExternal` messages from outside (at most one and two) are enough for
a record between two commits, one before the first commit and one after the loss. Two bodies
suffice for matching rules, a third for poison or junk, a fourth for a record that cannot be decoded. One
partition makes the offset order total; two are used where identity is the question (`FlowDelivery`, `FlowVerdicts`). The
queues hold two requests against a batch of two. Two tests at once are covered by the theorem
on the contract, which is for any number of tests.

*Shared connections.* Each pool has three threads for two permits or handles and three connections, so one
thread waits and one connection must be created. The three modules have no variable in common; a behaviour
exercises one of them (`subject`), and the others stay where they begin. Two callers share a profile of type
`token_fetch` with a TTL of two on a clock of five (`MaxClock`), and two tokens expire. `FetchTime` bounds the time from
reading the clock to storing the token, whereas the code's timeout of ten seconds is for each read of the
answer: a token server that trickles its answer takes longer.

*JMS connections.* Two threads of one provider and one of another: a race inside a provider and one
between providers. `MaxBreaks` and `MaxOutages` are one each, `Retries` two; together they give a second break of
what was just repaired. With two breaks the run passes as well (660,000 states), in about the time that a run may take.

*Runs.* Two of three runs (`MaxRuns`): two runs of one test, one of them in a thread, or two tests, on the
same loop or not; two requests, of which a stub expects both, or, with `times` 0, none, and which stubs of both tests
accept; one server with rules and defaults, one without.

*Load.* Three seconds of timeline (`MaxDuration`), up to two users out of three identities (one is free while the
thread of a cancelled user still runs), buckets of two seconds, two cancellations, two records, four
seconds of clock (`MaxTime`): a bucket closes while another is filled, a ramp goes down while a
test runs, and a second cancellation hits the gathering.

*Bulk.* Two requests at a time with at most two runs each, from a list of seven kinds; sends with a delay, a drop or a
duplicate for Kafka and for a queue.

*Listening.* Two files with four contents, among them one that cannot be sorted with others and one that is not YAML, and
two topics of which one may be created late, in four scenarios (`McScenarios`): no edit, with two exceptions or failed
checks and two producers that ask; one edit of each file; three edits, through a broken file and back; and both files
there at the start with four edits, by which one changes or goes while the other makes the sort fail and is
mended. Edits come in any order and at any step of a reload. Both causes of the exception `TakenForLoaded` occur: without either
of them `FilesTakeEffect` is violated. Message and rule values are chosen so that each strategy decides one message.

No run uses symmetry. Deadlock is not checked where the clock stops, runs end, or the system is
closed: these systems really stop.

### Fairness

`MessageFlow!FairSpec` gives weak fairness to the clock, to each part of the two listener threads (a
thread that can run does) and to each test that has been started (its coroutine is
scheduled). Nothing is assumed of when a test starts, of the system under test, of the
consumer's losses or of clean-up. `GetMessages` may return nothing: no liveness is claimed
for queues. `DBConnectionPool!FairSpec` has the threads in `acquire` proceed, and says nothing of
who gets the lock or of how long a statement takes. `JMSPool!JMSFairness` has a thread inside
`get_connection` proceed, which is what the timeout of a wait and of the factory give; `RequestsEnd` excepts a thread
that others pass at the lock for ever.

`JMSConnections!FairSpec` gives strong fairness to each thread, because its locks are
released and taken again and again and a thread that waits for one gets it some time; the
listener polls for ever, so its thread is never done. Outages end. `TestRuns!FairSpec` has the
loops go on and the servers answer; nobody must begin a run or send a request, and which of the runs on a loop
goes on is open. `LoadRunner!FairSpec` has the job's coroutine run when it can, threads
finish their tests, and time pass; no user has to begin a test and no client to do anything. `BulkSpec`
has the coroutines of a request go on. `TopicSubscription!FairSpec` has the two threads run and the
intervals end; the reload gets strong fairness, since the loop comes by again and again and some of
those times the interval of the reload is over.

## Proofs

`tlapm` proves what follows for every value of the constants that satisfies the named assumptions
(`CommonAssumption`, `BrokersAssumption`, `CacheAssumption`, `RulesAssumption`,
`KafkaListenerAssumption`, `JMSListenerAssumption`, `TestExecutorAssumption`,
`MessageFlowAssumption`, `PoolAssumption`, `JMSPoolAssumption`, `HttpAssumption`, `ConnectionsAssumption`,
`DispatchAssumption`, `TestRunsAssumption`, `ScenarioAssumption`, `LoadAssumption`, `SendAssumption`,
`BulkAssumption`). They say what type a constant has; the two with more to them are
`TestRunsAssumption`, by which a test has at most three items (`StubIds` enumerates three), and
`TestExecutorAssumption`, by which the margin does not reach back before the epoch.

**Message flow** (`MessageFlowProofs`, `DeliveryProofs`)

* `TypeCorrect` — `Spec => []TypeOK`. `TypeOK` is not inductive: while outputs
  are sent, `kl.rule`, `kl.out` and their JMS counterparts must index the rule table
  (`KafkaRuleTyped`, `JMSRuleTyped`, the latter also with a nonempty batch when a message is
  taken), and a test's indices must point at an injection or an expectation according to where
  it is (`TestsTyped`). `Typed` is the conjunction; there is one lemma per thread.
* `MatchedIsSound` — `Spec => []MatchedSound`. The strengthening is `CacheFromLog`:
  every entry under a Kafka topic is a record of the log. Only `Poll` adds such entries, since
  the JMS thread caches under names of queues (`JMSRuleTyped` again: what it caches it has put),
  flagging an entry keeps its record, and the log only grows (`LogGrows`). A verdict is then
  sound when it is drawn (`ConcludedSound`) and stays so.
* `CacheKeepsLiveMessages` — `Spec => NoEarlyEviction`.
* Delivery rests on three facts about the log: records of a partition differ in their offsets, neither
  positions nor commits are beyond its end (`LogOrdered`), and a message is stamped before it is
  cached (`Stamped`). `StepKinds` says what any step may do to log, cache and consumer. From these follow
  `OrderIsKept` (until the first loss, whatever is cached lies below the position: `Arrived`),
  `CommittedSkipsNothing`, for any number of losses, commits and records that cannot be decoded, and
  `NothingIsPassedOver`, whose strengthening (`LooksWell`) says that the keys a test has seen name records of the
  log, none of them wanted. `FlagIsSound` is for any partitions and queues: the flag goes to the oldest entry with its key
  and, since later arrivals have higher numbers and eviction keeps the order, that entry stays the oldest.
* `FlowImplementsContract` — `Spec => ImplementsContract` when expectations are on topics
  only: initial states map to initial states and every step to a step of `TestContract` or a
  stutter. It needs that deadlines lie `Wait` after the start, or at the end of the modelled
  time (`Timely`), and the soundness of verdicts above.
* `AnswersAreAtMostTwo` — `Spec => []AtMostTwoAnswers`. The property is about every topic to which only rules
  for topics write, each by one output (`OnlyAnswers`, computed from rules and injections), until a loss of
  the consumer delivers records again. The balance (`Balanced`) charges two answers when a record is delivered and says, by the place in
  `_execute_rule`, how many are still to come (`Due`): two up to the output that answers, one before its duplicate,
  then none. That the shared local names the topic only then is `DestAnswers`. It fails, as the property
  does, for a rule in which a database output with the fault `duplicate` follows the answer: the
  duplicate goes where the answer went (`src/kafka/listener.py:837`), so `OneAnswer` leaves such rules out.
  Deliveries are not repeated since the position of a partition only grows until a loss (`NeverConnected`).
* `CachedRepliesWerePut` — `Spec => []RepliesWerePut`. Between the put of a reply and its entry in the cache the
  queue is one ahead, which `Owed` charges: per queue that is not polled and per body, entries in the
  cache plus the reply owed are at most the messages put (`AllCovered`). The cache is finite, and what the JMS thread
  consumes comes from polled queues (`ReadsPolled`), so that it neither takes such replies away nor caches them as input.

**Shared connections** (`ConnectionsProofs`, `JMSConnectionsProofs`)

* DB pool: `TypeCorrect`, `PermitsAreConserved`, `SizeIsBounded` and `StatisticsAreExact`, with any factory: nothing is
  assumed of which providers it returns, so they hold for the one that `main.py` shares among all borrowers. Their base is
  `WellFormed`: what a thread holds, and whether it has the lock, follows from where it is. Sizes need
  `PermitBound`: borrowed connections, idle ones and permits add up.
* JMS pool: `JMSPoolTypes`, `PoolLendsHandlesOnce`, with any factory, so also with the registry's one client. The invariant is
  `JMSFormed` (the set in use is what the borrowers have, one thread at most is inside), `JMSOwned` (no handle is listed
  twice, lent twice, or both; a handle exists when it is listed or held) and `JMSBounded`:
  handles listed and handles held, the one under reconnection included, are at most the limit. That a handle has one
  borrower does not say that a connection has: see [Disagreements](#disagreements).
* `TokensAreInTime` — `HttpSpec => []TokensInTime`. `TokenInv` relates the stored token, the stored time and what each
  caller has in hand: the time stored with a token is at most `FetchTime` after its issue, whoever stored
  either, and a thread that has found the token fresh takes one that is so by its own reading of the clock.
* JMS links: `TypeCorrect`, `PutsAreTrueAlways` and `LiveLinksAreKept`. The last one rests on an
  invariant about the handles that are about to be dropped: such a handle is of a connection that does not
  work. It holds because a thread drops only what it has found broken and still finds in its provider, and because
  numbers of connections are never used again, so that what is broken stays so.

**Runs, stubs, mock servers** (`DispatchProofs`)

* `OutputsHappenOnce` — `Spec => []OutputsOnce`. The strengthening (`InTurn`) says for each
  request which outputs have been tried, which are tasks and which lie ahead: before the reply
  exactly those below `out`, in order; after it those and, above `out`, each that is not a task any more.
* `NothingIsLeftBehind` — `Spec => []NothingLeftBehind`, from `RunsFormed` (where a run is fixes which item it is at) and
  `StubsFormed` (table and index by test agree, so that the clean-up of a test reaches every stub of it).
* `MatchedStubsWereCalled` — `Spec => []MatchedWasCalled`. `CallsFormed`: what a stub has recorded is answered and of a
  kind it accepts, and a stub of a run that has not come to the item has neither calls nor a place in any copy of the table.
  `IdentitiesFormed`: the identity that a run waits on is of the same item of a run of the same test,
  though perhaps of another run, and has recorded nothing from before this run began (`Theirs`). `Sufficient` counts.
* `CallsAreCounted` — `Spec => []CallsCount`, for any tests, also ones whose stubs accept the same requests. While no other
  run of its test writes identities or cleans up, a run's identities are of its own stubs, which stay in the table (`OwnStubs`). Each
  request dispatched from its when phase on was therefore matched with a table that holds its
  stub, so that a stub took it, and it is recorded there unless another that accepts it was registered first (`NoneMissed`). `NotesFormed`
  says what the auxiliary `history` has noted of that. Of the four ways to NO_MATCH only the timeout is then left,
  and it finds too few calls.

**Load runner** (`LoadRunnerProofs`)

* `LoadLeavesNothing` (`NothingRunsAfterwards`) and `LoadEndIsFinal` (`FinalIsFinal`), both from
  `LoadInv`: each user that lives has its coroutine in `active_tasks` (`LiveAreActive`), so that the finally clause
  reaches all of them; users live, and tests are pending, only in their part of the job (`UsersInTheirTime`); a final
  status is written with the last step of the task (`StatusFollowsTask`). The number of users to add or to drop
  is a natural number because a timeline is a sequence of such (`TimelineType`).
* `BucketsAreClosedOnce` — `Spec => []BucketsCloseOnce`. The collector's clock starts no later than the
  timeline's (`ClocksInOrder`), so a record goes to a bucket not before the one by which buckets are closed, and all that
  is closed lies before that one (`FlushedInThePast`).
* `RecordsAreNeverLost` — `Spec => []NoRecordLost`. The invariant (`RecordsInBuckets`) splits what is recorded into the
  sums over flushed and over open buckets. A record adds to one open bucket, a flush moves one bucket from one sum to the other; the
  report takes what is left at the end of the job. What the proof needs to know about sums is in `SumTheorems`.
* `TimelineIsFaithful` — `Spec => []TimelineFollowsPhases`, a fact about the functions of `LoadScenario`, for every valid
  scenario: rounding half to even ascends and keeps whole numbers (`RoundAscends`, `RoundExact`), so a ramp moves one
  way (`RampMovesOneWay`); flattening puts the seconds of phase k after those of the phases before it (`FlattenPlaces`).

**Sends and bulk requests** (`BulkProofs`)

* `CompletedSendsReportTrue` — `BulkSpec => []ReportIsTrue`. `Truth` says, by where the coroutine of a send is, how the
  messages it reports and those its clients have sent relate: the same below the item in hand, but for the reported ones for
  Kafka, through it while it is delayed, one apart while an answer is awaited.
* `SendsAreLimited` — `BulkSpec => []SendsKeepLimits`. `LimitsKept`: at most `workers` sends of a parallel request run; in a
  sequential one nothing begins before its predecessors have ended; and no repetition begins before the earlier
  ones have ended.
* `SavedRowsAddUp` — in every saved row the total is what passed, failed and was skipped. With it
  `StatisticsBalanceAlways` — `BulkSpec => []StatisticsAddUp`: the sums over any period and type balance
  (`StatisticsBalance`), and as the page of a row is a matter of its rank among the selected rows, every row is on one page and no page has
  more rows than asked for (`PagesShowEachRow`).

**Sums** (`SumTheorems`). The folds of the community modules are recursive functions chosen by CHOOSE, so that they
exist must be shown before anything about them. `GrowingSets` is induction on the subsets of a finite set, stated with a set of good sets
where the library has an operator; from it follow that the recursion defines a function (`SumsExist`), and what
a sum becomes when one index is taken away, added or changed, or two functions are added (`SumTaken`, `SumGrows`, `SumSame`, `SumPlus`,
`SumDisjoint`, `SumImage`).

The proofs change when the code does: dropping a guard that matters (the mutants in `PROJECT.json` do) makes a step of
the inductive invariant fail, and where.

Every safety property that a run checks, invariant or action property, is also proved. Only model-checked are the
liveness properties, since fairness and ENABLED are out of the prover's reach: `TestsConclude`, `RecordsReachCache`,
`LockReleased`, `RequestsEnd`, `Recovers`, `EverythingEnds`, `TaskEnds`, `CancelledJobSaysSo`, `RequestsConclude`,
`ListedTopicsAreHeard`, `FilesTakeEffect`.

## Disagreements

Two are runs in which TLC reaches a state that a document excludes.

* `PausedQueue`: a queue paused after the listener's check is drained while it is paused
  (`src/jms/listener.py:196` against `src/jms/listener.py:115` and `src/api/jms.py:111`).
* `FaultedTest`: an expectation skipped because of a fault makes the run FAILED
  (`src/test/suite.py:316` against `docs/TEST_SUITE.md:243`).

The others were met while modelling; the models have them, no run is spent on them.

* The executor takes two messages with the same partition and offset for one, and cached JMS
  messages all have 0 and 0 (and timestamp 0); of a queue's messages at most the first is
  evaluated (`src/test/suite.py:1391`, `src/jms/listener.py:269`).
* `mark_consumed_by_rules` looks an entry up by topic and offset (`src/test/cache.py:222`), so with two partitions the flag
  can land on a message that no rule accepts; in a queue, where every offset is 0, always on the oldest.
* A record whose headers or key are not UTF-8 makes `_process_message` raise before the record is cached
  (`src/kafka/listener.py:340`, 347). The exception is logged (line 401), no rule and no test ever sees the record, and its offset
  is committed with the others.
* A rule with `skip` still wins the match and keeps later rules from running
  (`src/kafka/listener.py:387`).
* The duplicate of a database output is produced to Kafka, where the output before it went, with the payload of the
  database output (`src/kafka/listener.py:837`): a topic may then get three messages for one record. `AtMostTwoAnswers`
  excludes such rules by name (`OneAnswer`); TLC finds the third message when the exclusion is taken out.
* `main.py` gives the DB pool a factory that returns the same provider each time, so borrowers
  share it, and a reconnect of one disconnects the others (`src/main.py:287`, `src/db/pool.py:96`). The pool bounds borrowers, not connections.
* "Expected number of times the stub should be called. Assertion fails if actual count differs."
  (`json-schema/test-suite-schema.json:861`, which allows 0): a stub with `times` 0 waits for a call all the same, since only
  a call sets its event (`src/http/stub_cache.py:114`), and ends in NO_MATCH when none comes; and more calls than `times` match.
* `produce` returns None when the topic is unknown, the client not connected or the delivery failed
  (`src/kafka/client.py:220`), and nobody looks: `/send` reports the message as injected with the status ok
  (`src/send/executor.py:243`).
* The reload of the rule files can take a file for loaded that is not, against "Configuration updates every 30 seconds"
  (`README.md:27`), in two ways. An edit between the load of the file and the reading of its hash is never loaded
  (`src/config/loader.py:141`). And the hash that a check has noted (line 98) stays when the reload fails over another
  file: edit the first file, make the second one unsortable, and mend it before the next check; the first file's
  edit does not take effect until it is edited again.
* Priorities of which one is a word make the sort raise; the listener's loop then fails, closes its consumer and
  starts over for as long as the files stay that way (`src/config/loader.py:144`).
* Topics of rules in the old format are not found by the scanner of `topic_metadata.py`, so nobody subscribes to
  them; their conditions other than JSONPath ones never hold.
* `/debug/match` reads `o.topic`, which `Output` lacks, when it lists the outputs of a rule
  (`src/api/debug/match.py:138`), and ignores header and key.
* A load job cancelled before its first step stays PENDING; cancelled again while it gathers its users,
  RUNNING (`src/api/tests/load.py:241`, `src/test/load_runner.py:280`): `CancelledJobSaysSo` is about the
  other cancellations. The join of the pool's threads blocks the event loop, against "poll requests are never
  queued behind test work" (`src/test/load_runner.py:167`).
* Nothing outside `tests/test_connection_pool.py` takes a connection from the JMS pool; the registry creates its idle
  handles and closes them. The registry's factory returns one shared client each time, so closing an
  expired handle closes the client of all (`src/jms/registry.py:48`), and `_is_connection_valid` asks for an
  attribute `hconn`, which the providers lack (`src/jms/pool.py:230`). A wake-up may go to a waiter whose timeout has come, which raises without looking
  again (`src/jms/pool.py:174`, 198); the client of an invalidated handle is never closed (line 196); `_closed` is
  set and never looked at (line 284).
* `tls_config.py` announces "Host matching order (highest to lowest priority)" from exact to glob
  (`src/http/tls_config.py:30`); the first override of the file that matches wins. A token is fetched with the TLS profile of
  the request it is for, not of the token server (`src/http/auth_config.py:140`).
  `invalidate_token_cache` and the executor's `reload` have no caller, so edited profiles take effect at a restart.
* Bulk tests ignore `parallel_workers` (`docs/API.md:313`); bulk sends with 0 workers wait for ever.

## Not modelled

Text: templates, JSONPath, regular expressions, correlation by content; they enter as sets,
functions and relations of bodies. Conversions through the schema registry, YAML parsing, log files,
drivers, the UI and the example application. `clear` of the cache and its
test-side consumption marks, which nothing in the flow calls. Start and stop: `lifespan` starts and stops each part once; only the JMS listener has both
in the API, and its race (a thread that outlives the five seconds of the join) needs a second thread, which
`JMSListener` does not have. Certificates and the answers of outbound HTTP requests. Latencies and percentiles of load tests: numbers
computed from a list. Producers are assumed to have
synchronised clocks; skew is what the executor's margin is for. Kafka rebalances between several
instances of kafka-wiremock are left out: one consumer has all partitions.

## Plan

What would come next, in this order:

1. Start and stop of the JMS listener from the API, with two generations of its thread.
2. The ActiveMQ and RabbitMQ providers in `JMSConnections`, which have one connection per provider.
