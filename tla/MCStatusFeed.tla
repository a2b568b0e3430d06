---------------------------- MODULE MCStatusFeed ----------------------------
(* Values of the constants of StatusFeed for TLC. *)
EXTENDS StatusFeed

CONSTANTS api, worker, request, delivery, b1, c1, c2

Processes == {api, worker}
Sources == {request, delivery}
\* The API publishes about a notification it created or cancelled; a worker
\* about one that belongs to a batch.
Hubs == [s \in Sources |-> IF s = request THEN api ELSE worker]
Batches == [s \in Sources |-> IF s = request THEN NoBatch ELSE b1]

\* As many as one request and one delivery have to tell.
Numbers == [s \in Sources |-> IF s = request THEN 1 ELSE 2]

\* One client sees everything, the other only the batch.
OneClient == {c1}
TwoClients == {c1, c2}
Filters == [c \in Client |-> IF c = c1 THEN NoBatch ELSE b1]
=============================================================================
