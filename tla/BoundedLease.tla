---------------------------- MODULE BoundedLease ----------------------------
(***************************************************************************)
(* What a pool promises its borrowers: a thing is lent to one of them at a *)
(* time, and no more than Limit things are lent at once.                   *)
(***************************************************************************)
EXTENDS Naturals, FiniteSets

CONSTANTS Borrowers, Things, Limit, Nothing

VARIABLE loan  \* per borrower, the thing it has

Loaned == {b \in Borrowers : loan[b] # Nothing}

Init == loan = [b \in Borrowers |-> Nothing]

Lend(b, x) ==
    /\ loan[b] = Nothing
    /\ \A other \in Borrowers : loan[other] # x
    /\ Cardinality(Loaned) < Limit
    /\ loan' = [loan EXCEPT ![b] = x]

Return(b) ==
    /\ loan[b] # Nothing
    /\ loan' = [loan EXCEPT ![b] = Nothing]

Next == \E b \in Borrowers : Return(b) \/ \E x \in Things : Lend(b, x)
Spec == Init /\ [][Next]_loan
=============================================================================
