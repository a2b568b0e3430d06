----------------------------- MODULE MCPipeline -----------------------------
(* Values of the constants of Pipeline for TLC. *)
EXTENDS Pipeline

CONSTANTS n1, n2, w1, h1

TwoNotifications == {n1, n2}
OneWorker == {w1}
OneProcess == [w \in Worker |-> h1]
=============================================================================
