---------------------------- MODULE TestExecutor ----------------------------
(***************************************************************************)
(* test/suite.py: TestExecutor.run_test.  A test injects its messages one  *)
(* after the other (_execute_when) and then checks its expectations one    *)
(* after the other (_execute_then); tests run concurrently.                *)
(*                                                                         *)
(* _collect_expectation_messages reads the cache in a loop until a message *)
(* matches or wait_ms have passed, and between two reads it blocks, for at *)
(* most 50 ms, on the cache's condition variable.  The read and the wait   *)
(* are two critical sections of different locks.                           *)
(*                                                                         *)
(* run[t].received holds, per expectation finished, what its last read     *)
(* found: MATCHED when that is not empty, else TIMEOUT.                    *)
(***************************************************************************)
EXTENDS Brokers, MessageCache, Rules

CONSTANTS Tests,
          Injections,    \* [Tests -> sequence of [dest, payload, fault]]
          Expectations,  \* [Tests -> sequence of [dest, wanted]]: the payloads
                         \* that satisfy its conditions and correlation
          Wait,          \* wait_ms
          PollWait,      \* the cap of one wait, 50 ms
          Margin         \* the safety margin, 1 s

ASSUME TestExecutorAssumption ==
    /\ Waiters = Tests
    /\ Wait \in Nat \ {0} /\ PollWait \in Nat \ {0}
    /\ Margin \in Nat /\ Margin <= Epoch
    /\ Injections \in [Tests -> Seq([dest: Destinations, payload: Payloads,
                                     fault: SUBSET Faults])]
    /\ Expectations \in [Tests -> Seq([dest: Destinations, wanted: SUBSET Payloads])]
    /\ \A t \in Tests : Expectations[t] # <<>>

VARIABLE run

\* Mutant of Key: messages are told apart by their offset.
OffsetOnly(m) == <<0, m.offset>>

\* What the loop knows of a message: partition and offset are its identity.
Key(m) == <<m.partition, m.offset>>
RecordOf(m) == [topic |-> m.topic, partition |-> m.partition, offset |-> m.offset,
                payload |-> m.payload, timestamp |-> m.timestamp]

NotStarted == [pc |-> "idle", inj |-> 1, exp |-> 1, start |-> 0, deadline |-> 0,
               until |-> 0, seen |-> {}, seenId |-> 0, received |-> <<>>,
               resend |-> Poison]

Message == [topic: Destinations, partition: Nat, offset: Nat, payload: Payloads,
            timestamp: Nat]
RunType == [pc: {"idle", "inject", "resend", "collect", "read", "waiting", "done"},
            inj: Nat, exp: Nat, start: Nat, deadline: Nat, until: Nat,
            seen: SUBSET (Nat \X Nat), seenId: Nat,
            received: Seq(SUBSET Message), resend: Payloads]
TestExecutorTypeOK ==
    /\ run \in [Tests -> RunType]
    /\ \A t \in Tests :
          /\ run[t].inj \in 1..(Len(Injections[t]) + 1)
          /\ run[t].exp \in 1..(Len(Expectations[t]) + 1)
          /\ Len(run[t].received) = run[t].exp - 1

TestExecutorInit == run = [t \in Tests |-> NotStarted]

\* end_time of an expectation that starts now.  (Bound: near the end of the
\* modelled time wait_ms is shorter.)
EndTime == Min2(clock + Wait, MaxTime)

\* The loop over expectations reaches number n, or the test ends.
Expecting(r, t, n) ==
    IF n <= Len(Expectations[t])
    THEN [r EXCEPT !.pc = "collect", !.exp = n, !.deadline = EndTime,
                   !.seen = {}, !.seenId = 0, !.until = 0]
    ELSE [r EXCEPT !.pc = "done", !.exp = n, !.deadline = 0,
                   !.seen = {}, !.seenId = 0, !.until = 0]
\* The loop over injections reaches number n, or the then phase starts.
Injecting(r, t, n) ==
    IF n <= Len(Injections[t]) THEN [r EXCEPT !.pc = "inject", !.inj = n]
    ELSE Expecting([r EXCEPT !.inj = n], t, 1)

Expected(t) == Expectations[t][run[t].exp]

-----------------------------------------------------------------------------
\* run_test: start_time is read here.
StartTest(t) ==
    /\ run[t].pc = "idle"
    /\ run' = [run EXCEPT ![t] = Injecting([@ EXCEPT !.start = clock], t, 1)]
    /\ UNCHANGED <<brokerVars, cacheVars>>

\* One injection: to a queue when there is one of that name, else to Kafka.
\* A dropped one is skipped, a duplicated one is sent again.
ThisInjection(t) == Injections[t][run[t].inj]
Injected(t)  == [run EXCEPT ![t] = Injecting([@ EXCEPT !.resend = Poison], t, @.inj + 1)]
SendInjection(i, payload) ==
    IF i.dest \in Queues THEN Put(i.dest, payload) ELSE Produce(i.dest, payload)

DropInjection(t) ==
    /\ run[t].pc = "inject" /\ "drop" \in ThisInjection(t).fault
    /\ run' = Injected(t)
    /\ UNCHANGED <<brokerVars, cacheVars>>
Inject(t) ==
    /\ run[t].pc = "inject"
    /\ \E payload \in Sendable(ThisInjection(t).payload, ThisInjection(t).fault) :
          /\ SendInjection(ThisInjection(t), payload)
          /\ \/ run' = Injected(t)
             \/ /\ "duplicate" \in ThisInjection(t).fault
                /\ run' = [run EXCEPT ![t].pc = "resend", ![t].resend = payload]
    /\ UNCHANGED cacheVars
ResendInjection(t) ==
    /\ run[t].pc = "resend"
    /\ SendInjection(ThisInjection(t), run[t].resend)
    /\ run' = Injected(t)
    /\ UNCHANGED cacheVars

\* put_message raises: script_error, the test has FAILED without then phase.
InjectFails(t) ==
    /\ run[t].pc \in {"inject", "resend"} /\ ThisInjection(t).dest \in Queues
    /\ run' = [run EXCEPT ![t].pc = "done", ![t].resend = Poison]
    /\ UNCHANGED <<brokerVars, cacheVars>>

-----------------------------------------------------------------------------
\* get_messages(topic, since = test_start_time - 1.0).
Since(t) == run[t].start - Margin
Batch(t) == Cached(Expected(t).dest, Since(t))

\* The messages of the batch that are evaluated: not seen by key, neither in
\* an earlier read nor earlier in this one.
Evaluated(t) ==
    {m \in Batch(t) : /\ Key(m) \notin run[t].seen
                      /\ \A n \in Batch(t) : Key(n) = Key(m) => m.id <= n.id}

\* Mutant of Hits: messages of any age are accepted.
HitsOfAnyAge(t) == {m \in Evaluated(t) : m.payload \in Expected(t).wanted}

\* Of those, the ones that are recent enough and satisfy the conditions.
Hits(t) == {m \in Evaluated(t) : m.timestamp >= Since(t) /\ m.payload \in Expected(t).wanted}

Concluded(t, hits) ==
    Expecting([run[t] EXCEPT !.received = Append(@, {RecordOf(m) : m \in hits})],
              t, run[t].exp + 1)

\* One iteration of `while time.time() < end_time` up to the wait.
Collect(t) ==
    /\ run[t].pc = "collect" /\ clock < run[t].deadline
    /\ PurgeTopic(Expected(t).dest)
    /\ run' = [run EXCEPT ![t] =
          IF Hits(t) # {} THEN Concluded(t, Hits(t))
          ELSE [run[t] EXCEPT !.pc = "read", !.seenId = nextId,
                              !.seen = @ \cup {Key(m) : m \in Batch(t)}]]
    /\ UNCHANGED brokerVars

\* Mutant of GiveUp: one read without a match is enough.
GiveUpAtOnce(t) ==
    /\ run[t].pc = "read"
    /\ run' = [run EXCEPT ![t] = Concluded(t, {})]
    /\ UNCHANGED <<brokerVars, cacheVars>>

\* end_time has passed, seen by the while condition or before the wait.
GiveUp(t) ==
    /\ run[t].pc \in {"collect", "read"} /\ clock >= run[t].deadline
    /\ run' = [run EXCEPT ![t] = Concluded(t, {})]
    /\ UNCHANGED <<brokerVars, cacheVars>>

\* wait_for_new_message(min(0.05, remaining)) in a thread of its own.
BeginWait(t) ==
    /\ run[t].pc = "read" /\ clock < run[t].deadline
    /\ BeginWaiting(t)
    /\ run' = [run EXCEPT ![t].pc = "waiting",
                          ![t].until = Min2(clock + PollWait, run[t].deadline)]
    /\ UNCHANGED brokerVars

\* Mutant of EndWait: the wait has no timeout.
EndWaitNotified(t) ==
    /\ run[t].pc = "waiting" /\ t \notin waiting
    /\ EndWaiting(t)
    /\ run' = [run EXCEPT ![t].pc = "collect", ![t].until = 0]
    /\ UNCHANGED brokerVars

\* The wait returns: notified, or timed out.
EndWait(t) ==
    /\ run[t].pc = "waiting"
    /\ t \notin waiting \/ clock >= run[t].until
    /\ EndWaiting(t)
    /\ run' = [run EXCEPT ![t].pc = "collect", ![t].until = 0]
    /\ UNCHANGED brokerVars

TestStep(t) ==
    \/ DropInjection(t) \/ Inject(t) \/ ResendInjection(t) \/ InjectFails(t)
    \/ Collect(t) \/ GiveUp(t) \/ BeginWait(t) \/ EndWait(t)
=============================================================================
