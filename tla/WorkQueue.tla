----------------------------- MODULE WorkQueue -----------------------------
(***************************************************************************)
(* The order of the work queue: the scores that calcScore gives the        *)
(* members of the sorted set, and the script that pops the lowest.  What   *)
(* Redis does with the set is atomic; the score's time is the caller's.    *)
(***************************************************************************)
EXTENDS Naturals

CONSTANTS
    Message,
    PriorityOf,  \* 0 (high), 1 (normal) or 2 (low)
    Weight       \* 10^13 in the code, in milliseconds: more than any clock shows

ASSUME QueueAssumption ==
    /\ PriorityOf \in [Message -> Nat]
    /\ Weight \in Nat

VARIABLES
    waiting,  \* members of the sorted set
    score     \* their scores; 0 for what is not in the set

QueueTypeOK ==
    /\ waiting \in SUBSET Message
    /\ score \in [Message -> Nat]

QueueInit == waiting = {} /\ score = [m \in Message |-> 0]

\* A slip: the order of arrival alone.
calcScoreByAge(m, now) == now

calcScore(m, now) == PriorityOf[m] * Weight + now

\* ZADD moves a member that is there already.
Enqueue(m, now) ==
    /\ waiting' = waiting \cup {m}
    /\ score' = [score EXCEPT ![m] = calcScore(m, now)]

\* ZRANGEBYSCORE -inf +inf LIMIT 0 1, ZREM.  Of equal scores the member that
\* comes first as a string is popped, which is any of them.
Dequeue(m) ==
    /\ m \in waiting
    /\ \A n \in waiting : score[m] <= score[n]
    /\ waiting' = waiting \ {m}
    /\ score' = [score EXCEPT ![m] = 0]
=============================================================================
