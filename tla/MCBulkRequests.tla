--------------------------- MODULE MCBulkRequests ---------------------------
(***************************************************************************)
(* Small instances of BulkRequests for TLC.                                *)
(***************************************************************************)
EXTENDS BulkRequests

CONSTANTS r1, r2

AllRuns == Requests \X (1..4)

Plain(type)   == [type |-> type, drop |-> FALSE, latency |-> FALSE, duplicate |-> FALSE, delay |-> FALSE]
Delayed(type) == [Plain(type) EXCEPT !.delay = TRUE]

\* A delayed message that may be sent twice, then one that may be dropped as well; HTTP
\* after a latency; a send that is switched off; a script and a delayed
\* database action.
Four == <<
    [skip |-> FALSE, items |-> <<[Delayed("kafka") EXCEPT !.duplicate = TRUE],
                               [Plain("jms") EXCEPT !.drop = TRUE, !.duplicate = TRUE]>>],
    [skip |-> FALSE, items |-> <<[Plain("http") EXCEPT !.latency = TRUE]>>],
    [skip |-> TRUE, items |-> <<>>],
    [skip |-> FALSE, items |-> <<Plain("script"), Delayed("db")>>] >>

Bulk(kind, parallel, workers, repeat, ids) ==
    [kind |-> kind, parallel |-> parallel, workers |-> workers, repeat |-> repeat, ids |-> ids]
ManyAsks == {
    Bulk("tests", TRUE, 1, 2, <<1>>), Bulk("tests", FALSE, 4, 1, <<1, 2>>), Bulk("tests", TRUE, 4, 0, <<1>>),
    Bulk("sends", TRUE, 1, 2, <<2, 3>>), Bulk("sends", TRUE, 2, 1, <<2, 1>>),
    Bulk("sends", FALSE, 4, 1, <<2, 4>>), Bulk("sends", TRUE, 0, 1, <<1>>)}
=============================================================================
