-------------------------- MODULE MCCircuitBreaker --------------------------
(* Values of the constants of CircuitBreaker for TLC. *)
EXTENDS CircuitBreaker

CONSTANTS c1, c2, c3, c4, c5
FiveCalls == {c1, c2, c3, c4, c5}

ASSUME BreakerAssumption == Parameters
=============================================================================
