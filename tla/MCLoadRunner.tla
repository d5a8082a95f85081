------------------------------- MODULE MCLoadRunner -------------------------------
(***************************************************************************)
(* Small instances of LoadRunner for TLC.                              *)
(***************************************************************************)
EXTENDS LoadRunner

CONSTANTS u1, u2, u3

Steady(n, d)  == [type |-> "steady", duration |-> d, from |-> 0, to |-> n]
Ramp(a, b, d) == [type |-> "ramp", duration |-> d, from |-> a, to |-> b]

\* Up and down again; from one user to two and none; a ramp of one second,
\* then nobody and one user again.
UpAndDown == {<<Ramp(0, 2, 2)>>, <<Steady(1, 1), Ramp(2, 0, 2)>>, <<Ramp(1, 2, 1), Steady(0, 1), Steady(1, 1)>>}
=============================================================================
