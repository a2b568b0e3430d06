----------------------------- MODULE MCListing -----------------------------
(* Values of the constants of Intake and Listing for TLC. *)
EXTENDS Listing

CONSTANTS r1, r2, r3, i1, i2, k1, t1, e1

\* A request and the client's retry of it with the same key, and one that
\* uses a template.
Singles == {r1, r2, r3}
\* One item has the key of the request, too.
Items == {i1, i2}
Keys == [r \in Request |-> IF r \in {r1, r2, i1} THEN k1 ELSE NoKey]
Templates == {t1}
Names == [r \in Request |-> IF r \in {r3, i2} THEN t1 ELSE NoTemplate]
Editors == {e1}
=============================================================================
