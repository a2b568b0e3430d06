----------------------------- MODULE MCDispatch -----------------------------
(* Values of the constants of Dispatch for TLC. *)
EXTENDS Dispatch

CONSTANTS m1, m2, m3
Messages == {m1, m2, m3}
\* Two urgent messages and a less urgent one.
Priorities == [m \in Messages |-> IF m \in {m1, m2} THEN 0 ELSE 1]
=============================================================================
