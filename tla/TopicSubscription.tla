-------------------------- MODULE TopicSubscription --------------------------
(***************************************************************************)
(* Which topics the Kafka listener hears.  The metadata manager             *)
(* (kafka/topic_metadata.py) scans the files for topics; the listener's     *)
(* loop (kafka/listener.py) checks which exist and subscribes to them,      *)
(* every 30 seconds or when asked; the test listener manager                *)
(* (test/listener_manager.py) asks for the topics of tests.  Checks go      *)
(* through the client (kafka/client.py), which asks the broker at most once *)
(* in five seconds for each topic, whoever calls.                           *)
(*                                                                         *)
(* The intervals are actions that end them, so that any relation of their   *)
(* lengths is covered.                                                     *)
(***************************************************************************)
EXTENDS RuleFiles

CONSTANTS Topics, TestTopics,  \* all topics, and those that tests expect on
          Messages,            \* the messages to run rules on
          Scenarios            \* bounds: the topics and files at the start, the edits, how
                               \* many exceptions and failed checks, how many sends

ASSUME TopicsAssumption ==
    /\ TestTopics \subseteq Topics
    /\ Scenarios \subseteq [exists: SUBSET Topics, files: [Files -> Contents \cup {Absent}],
                            edits: SUBSET (Files \X (Contents \cup {Absent})), failures: Nat, sends: Nat]

VARIABLES exists,     \* the broker's topics
          known, asked,              \* the client: _known_topics, asked less than 5 s ago,
          producing,                 \* and asked by a producer that has no answer yet
          listed, confirmed, missed, \* the manager: topics, topic_existence,
                                     \* checked in vain less than 10 s ago
          loop,       \* the listener's thread
          open, subscription,        \* its consumer
          request, due,              \* the update event, and 30 s are over
          scan, heard,               \* the test listener manager, its _known_topics
          failures,   \* bound: exceptions and failed checks still to come
          sends       \* bound: messages that are still produced to a topic not yet known

clientVars == <<known, asked, producing>>
metaVars   == <<listed, confirmed, missed>>
loopVars   == <<loop, open, subscription>>
signals    == <<request, due>>
scanVars   == <<scan, heard>>
bounds   == <<failures, sends>>
vars == <<fileVars, exists, clientVars, metaVars, loopVars, signals, scanVars, bounds>>

\* Rules of the new format name topics with their inputs and outputs, whatever
\* their type; the scanner does not look into the old format.
TopicsOf(docs) ==
    UNION {({d.topic} \cup {o.dest : o \in d.outputs}) \ {None} : d \in {x \in docs : x.format = "when"}}
Named == TestTopics \cup UNION {TopicsOf(disk[f]) : f \in {g \in Files : Loadable(disk[g])}}

Init ==
    /\ \E s \in Scenarios :
        exists = s.exists /\ disk = s.files /\ edits = s.edits /\ failures = s.failures /\ sends = s.sends
    /\ FilesInit
    /\ known = {} /\ asked = {} /\ producing = {}
    /\ listed = Named /\ confirmed = {} /\ missed = {}
    /\ loop = [pc |-> "top", todo |-> {}, found |-> {}] /\ open = FALSE /\ subscription = {}
    /\ request = FALSE /\ due = TRUE
    /\ scan = [pc |-> "sleep", todo |-> {}] /\ heard = {}

-----------------------------------------------------------------------------
\* The broker's metadata, or asking for it fails.
Answer(t) ==
    \/ known' = known \cup ({t} \cap exists) /\ UNCHANGED failures
    \/ failures > 0 /\ failures' = failures - 1 /\ UNCHANGED known

\* _verify_topic_exists: its result is whether the topic is known after it, which
\* is no while somebody else still waits for the answer.
Verify(t) ==
    \/ t \in known \cup asked /\ UNCHANGED <<clientVars, failures>>
    \/ /\ t \notin known \cup asked
       /\ asked' = asked \cup {t} /\ Answer(t) /\ UNCHANGED producing

Goes(pc) == loop' = [loop EXCEPT !.pc = pc]

\* The consumer is made anew after an exception, with no subscription.
OpenConsumer ==
    /\ loop.pc = "top" /\ ~open
    /\ open' = TRUE /\ subscription' = {}
    /\ UNCHANGED <<fileVars, exists, clientVars, metaVars, loop, signals, scanVars, bounds>>

\* Mutant of UpdateDue: only on request.
UpdateRequested == request

UpdateDue == request \/ due
BeginUpdate ==
    /\ loop.pc = "top" /\ open /\ UpdateDue
    /\ request' = FALSE /\ loop' = [loop EXCEPT !.pc = "check", !.todo = listed, !.found = {}]
    /\ UNCHANGED <<fileVars, exists, clientVars, metaVars, open, subscription, due, scanVars, bounds>>
SkipUpdate ==
    /\ loop.pc = "top" /\ open /\ ~UpdateDue /\ Goes("files")
    /\ UNCHANGED <<fileVars, exists, clientVars, metaVars, open, subscription, signals, scanVars, bounds>>

\* check_topic_exists, for one topic after the other.
CheckTopic(t) ==
    /\ loop.pc = "check" /\ t \in loop.todo
    /\ IF t \in confirmed \cup missed
       THEN UNCHANGED <<clientVars, confirmed, missed, failures>>
       ELSE /\ Verify(t)
            /\ confirmed' = confirmed \cup ({t} \cap known') /\ missed' = missed \cup ({t} \ known')
    /\ loop' = [loop EXCEPT !.todo = @ \ {t}, !.found = @ \cup ({t} \cap confirmed')]
    /\ UNCHANGED <<fileVars, exists, listed, open, subscription, signals, scanVars, sends>>
Subscribe ==
    /\ loop.pc = "check" /\ loop.todo = {}
    /\ subscription' = IF loop.found # {} THEN loop.found ELSE subscription
    /\ due' = FALSE /\ loop' = [loop EXCEPT !.pc = "files", !.found = {}]
    /\ UNCHANGED <<fileVars, exists, clientVars, metaVars, open, request, scanVars, bounds>>

\* check_and_reload, at most every 30 seconds.
CheckFiles ==
    /\ loop.pc = "files"
    /\ \/ FindChange /\ Goes("reload")
       \/ ~FilesChanged /\ Goes("poll") /\ UNCHANGED fileVars
    /\ UNCHANGED <<exists, clientVars, metaVars, open, subscription, signals, scanVars, bounds>>
TooEarly ==
    /\ loop.pc = "files" /\ Goes("poll")
    /\ UNCHANGED <<fileVars, exists, clientVars, metaVars, open, subscription, signals, scanVars, bounds>>
Reload ==
    /\ loop.pc = "reload"
    /\ \/ ((\E f \in Files : Load(f)) \/ Hash) /\ UNCHANGED loop
       \/ Install /\ Goes("poll")
    /\ UNCHANGED <<exists, clientVars, metaVars, open, subscription, signals, scanVars, bounds>>

\* poll() and the processing of what it returns.
Poll ==
    /\ loop.pc = "poll" /\ Goes("top")
    /\ UNCHANGED <<fileVars, exists, clientVars, metaVars, open, subscription, signals, scanVars, bounds>>

\* An exception closes the consumer; the time of the last update stays.
CloseConsumer == open' = FALSE /\ subscription' = {} /\ Goes("top")
LoopFails ==
    /\ CloseConsumer
    /\ \/ loop.pc = "poll" /\ failures > 0 /\ failures' = failures - 1 /\ UNCHANGED fileVars
       \/ loop.pc = "reload" /\ CannotSort /\ UNCHANGED failures
    /\ UNCHANGED <<exists, clientVars, metaVars, signals, scanVars, sends>>

-----------------------------------------------------------------------------
\* _scan_all_files of the metadata manager.
Rescan ==
    /\ listed' = Named
    /\ UNCHANGED <<fileVars, exists, clientVars, confirmed, missed, loopVars, signals, scanVars, bounds>>

\* _scan_test_files: new topics are verified one by one; for one that exists
\* the listener is asked for an update, and the manager waits some seconds.
\* All of them are known afterwards.
BeginScan ==
    /\ scan.pc = "sleep" /\ TestTopics \ heard # {}
    /\ scan' = [pc |-> "verify", todo |-> TestTopics \ heard]
    /\ UNCHANGED <<fileVars, exists, clientVars, metaVars, loopVars, signals, heard, bounds>>
EnsureListening(t) ==
    /\ scan.pc = "verify" /\ t \in scan.todo
    /\ Verify(t)
    /\ request' = (request \/ t \in known') /\ due' = (due \/ t \in known')
    /\ scan' = [scan EXCEPT !.todo = @ \ {t}]
    /\ UNCHANGED <<fileVars, exists, metaVars, loopVars, heard, sends>>
EndScan ==
    /\ scan.pc = "verify" /\ scan.todo = {}
    /\ heard' = TestTopics /\ scan' = [scan EXCEPT !.pc = "sleep"]
    /\ UNCHANGED <<fileVars, exists, clientVars, metaVars, loopVars, signals, bounds>>

\* Somebody produces to the topic: a thread of its own asks, and has the answer
\* later.
AskToProduce(t) ==
    /\ t \notin known \cup asked \cup producing /\ sends > 0 /\ sends' = sends - 1
    /\ asked' = asked \cup {t} /\ producing' = producing \cup {t}
    /\ UNCHANGED <<fileVars, exists, known, metaVars, loopVars, signals, scanVars, failures>>
AnswerToProduce(t) ==
    /\ t \in producing /\ producing' = producing \ {t} /\ Answer(t)
    /\ UNCHANGED <<fileVars, exists, asked, metaVars, loopVars, signals, scanVars, sends>>

\* The world: files are edited, topics are created, intervals end.
EditFile ==
    /\ \E f \in Files : Edit(f)
    /\ UNCHANGED <<exists, clientVars, metaVars, loopVars, signals, scanVars, bounds>>
CreateTopic(t) ==
    /\ t \notin exists /\ exists' = exists \cup {t}
    /\ UNCHANGED <<fileVars, clientVars, metaVars, loopVars, signals, scanVars, bounds>>
UpdateIntervalEnds ==
    /\ ~due /\ due' = TRUE
    /\ UNCHANGED <<fileVars, exists, clientVars, metaVars, loopVars, request, scanVars, bounds>>
RetryIntervalEnds(t) ==
    /\ t \in missed /\ missed' = missed \ {t}
    /\ UNCHANGED <<fileVars, exists, clientVars, listed, confirmed, loopVars, signals, scanVars, bounds>>
CheckIntervalEnds(t) ==
    /\ t \in asked /\ asked' = asked \ {t}
    /\ UNCHANGED <<fileVars, exists, known, producing, metaVars, loopVars, signals, scanVars, bounds>>

LoopStep ==
    \/ OpenConsumer \/ BeginUpdate \/ SkipUpdate \/ (\E t \in Topics : CheckTopic(t)) \/ Subscribe
    \/ CheckFiles \/ TooEarly \/ Reload \/ Poll \/ LoopFails
ScanStep == BeginScan \/ (\E t \in Topics : EnsureListening(t)) \/ EndScan
Next ==
    \/ LoopStep \/ ScanStep \/ Rescan \/ EditFile \/ UpdateIntervalEnds
    \/ \E t \in Topics : \/ AskToProduce(t) \/ AnswerToProduce(t) \/ CreateTopic(t)
                         \/ RetryIntervalEnds(t) \/ CheckIntervalEnds(t)
Spec == Init /\ [][Next]_vars

\* The two threads run, time passes, and the listener's loop finds the reload
\* interval over again and again.
Fairness ==
    /\ WF_vars(LoopStep) /\ WF_vars(ScanStep) /\ WF_vars(Rescan) /\ WF_vars(UpdateIntervalEnds)
    /\ SF_vars(CheckFiles)
    /\ \A t \in Topics : WF_vars(RetryIntervalEnds(t)) /\ WF_vars(CheckIntervalEnds(t))
FairSpec == Spec /\ Fairness

-----------------------------------------------------------------------------
\* In the end the listener hears every topic that exists and that the files
\* name, whenever it was created and whoever asked for it when it was not there
\* yet (listener_manager.py:110 never asks again), also after its consumer was
\* replaced.  It takes files that can be loaded together: with a priority that
\* is a word the loop may fail over and over.
ListedTopicsAreHeard ==
    \/ []<>~Sortable(OnDisk)
    \/ \A t \in Topics :
        <>[](t \in exists \cap Named) => <>[](open /\ t \in subscription)

\* "Configuration updates every 30 seconds (no restart needed)"
\* (README.md:27): once nobody edits the files any more, the listener runs,
\* and the dry run names, the rule that the files ask for, whatever reloads had
\* failed before.  Two ends are excepted: the files cannot be sorted together, or
\* one of them is taken for loaded ever after.  The dry run needs the payload as the
\* listener sees it.
FilesTakeEffect ==
    \/ <>[]TakenForLoaded \/ []<>~Sortable(OnDisk)
    \/ <>[](Sortable(OnDisk) /\ \A m \in Messages :
                /\ RuleThatRuns(rules, m) = RuleThatRuns(OnDisk, m)
                /\ m.given = "object" \/ m.raw = m.text
                       => RuleExplained(rules, m) = RuleThatRuns(OnDisk, m))
=============================================================================
