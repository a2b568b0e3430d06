------------------------------ MODULE Dispatch ------------------------------
(***************************************************************************)
(* The queue and the rate limiter together, as Process uses them: a worker *)
(* pops a message, asks the limiter, and either goes on to the provider or *)
(* puts the message back with a new score.  Every call carries the time of *)
(* the process that makes it.  (Delivery has the rest of Process.)         *)
(***************************************************************************)
EXTENDS RateLimiter, WorkQueue

CONSTANT MaxTime    \* bound on time

VARIABLES
    since,           \* (history) when, by Redis's clock, a message was last enqueued
    held,            \* messages popped and not yet decided about
    refused,         \* messages the limiter turned away, to be put back
    sent             \* messages that went on to the provider

queue == <<waiting, score, since>>
messages == <<held, refused, sent>>
vars == <<limiterVars, queue, messages>>

ASSUME DispatchAssumption ==
    /\ MaxTime \in Nat
    /\ Weight > MaxTime + Lead   \* the clocks' range does not reach into the priority

\* What Redis and the workers have of a message: it is in one place.
TypeOK ==
    /\ LimiterTypeOK /\ QueueTypeOK
    /\ since \in [Message -> Nat]
    /\ held \in SUBSET Message /\ refused \in SUBSET Message /\ sent \in SUBSET Message
    /\ waiting \cap (held \cup refused \cup sent) = {}
    /\ held \cap (refused \cup sent) = {}
    /\ refused \cap sent = {}

Init ==
    /\ LimiterInit
    /\ QueueInit
    /\ since = [m \in Message |-> 0]
    /\ held = {} /\ refused = {} /\ sent = {}

Push(m) ==
    /\ \E now \in Stamps : Enqueue(m, now)
    /\ since' = [since EXCEPT ![m] = time]

\* A message comes from the API or from a poller.
Arrive(m) ==
    /\ m \notin waiting \cup held \cup refused \cup sent
    /\ Push(m)
    /\ UNCHANGED <<limiterVars, messages>>

Pop(m) ==
    /\ Dequeue(m)
    /\ held' = held \cup {m}
    /\ UNCHANGED <<limiterVars, since, refused, sent>>

GoAhead(m) ==
    /\ m \in held
    /\ \E now \in Stamps : Admit(now)
    /\ held' = held \ {m} /\ sent' = sent \cup {m}
    /\ UNCHANGED <<time, queue, refused>>

TurnAway(m) ==
    /\ m \in held
    /\ \E now \in Stamps : Refuse(now)
    /\ held' = held \ {m} /\ refused' = refused \cup {m}
    /\ UNCHANGED <<time, queue, sent>>

\* A slip: forgetting to stop after the message is back in the queue.
PutBackAndKeep(m) ==
    /\ m \in refused
    /\ Push(m)
    /\ UNCHANGED <<limiterVars, held, refused, sent>>

\* Flow control, not an error: back to the end of its priority.
PutBack(m) ==
    /\ m \in refused
    /\ Push(m)
    /\ refused' = refused \ {m}
    /\ UNCHANGED <<limiterVars, held, sent>>

TimePasses == time < MaxTime /\ Tick /\ UNCHANGED <<queue, messages>>

Next ==
    \/ \E m \in Message : Arrive(m) \/ Pop(m) \/ GoAhead(m) \/ TurnAway(m) \/ PutBack(m)
    \/ TimePasses

Spec == Init /\ [][Next]_vars

-----------------------------------------------------------------------------
(***************************************************************************)
(* A message is popped before every less urgent one that waits, and before *)
(* those of its own priority that were enqueued later by more than the     *)
(* clocks may be off.  Retries and throttled messages, put back with a new *)
(* score, go to the end of their own priority and no further.              *)
(***************************************************************************)
ServedInOrder ==
    [][\A m, n \in waiting :
          m \notin waiting' /\ n \in waiting' =>
             \/ PriorityOf[m] < PriorityOf[n]
             \/ PriorityOf[m] = PriorityOf[n] /\ since[m] <= since[n] + Lag + Lead]_vars
=============================================================================
