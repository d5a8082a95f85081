-------------------------- MODULE MCJMSConnections --------------------------
(***************************************************************************)
(* A small instance of JMSConnections for TLC.                             *)
(***************************************************************************)
EXTENDS JMSConnections

CONSTANTS p1, p2, listener, sender, other

\* Two threads of one provider, one of another on the same queue manager.
TwoAndOne == [u \in Users |-> IF u = other THEN p2 ELSE p1]
PutOrGet  == [u \in Users |-> IF u = sender THEN {"put"} ELSE {"get"}]
=============================================================================
