----------------------------- MODULE MCDelivery -----------------------------
(* Values of the constants of Delivery for TLC. *)
EXTENDS Delivery, TLC

CONSTANTS n1, n2, w1, w2, w3, h1, h2

OneNotification == {n1}
TwoNotifications == {n1, n2}
OneWorker == {w1}
TwoWorkers == {w1, w2}

ThreeWorkers == {w1, w2, w3}

\* Two replicas of the worker process, one with two goroutines ...
Replicas == [w \in Worker |-> IF w = w1 THEN h1 ELSE h2]
\* ... or one process with all the goroutines.
OneProcess == [w \in Worker |-> h1]

NoFaults == {}
OnlyThrottling == {"throttle"}
OnlyCrashes == {"crash"}
\* Everything but a Redis client that retransmits its writes.
AllButResend == FaultKind \ {"resend"}
=============================================================================
