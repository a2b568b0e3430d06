------------------------------ MODULE Pipeline ------------------------------
(***************************************************************************)
(* Delivery and CircuitBreaker together, for one worker process: the       *)
(* answers that Delivery leaves open at the gate are those of the breaker  *)
(* the process's workers share, and each worker is a caller of it.         *)
(***************************************************************************)
EXTENDS Delivery

CONSTANTS FailureThreshold, SuccessThreshold, HalfOpenMax

VARIABLES state, failureCount, successCount, halfOpenCount,
          cooled, probes, calls, leaked, healthy

circuit == <<state, failureCount, successCount, halfOpenCount,
             cooled, probes, calls, leaked, healthy>>

Breaker == INSTANCE CircuitBreaker WITH Call <- Worker

\* There is one process, and one breaker in it.
OneBreaker ==
    /\ \A w \in Worker, h \in Host : HostOf[w] = h
    /\ Breaker!Parameters

PipelineInit == Init /\ Breaker!Init

-----------------------------------------------------------------------------
\* Allow's negative answers; they change nothing.
Refuses ==
    \/ state = "open" /\ ~cooled
    \/ state = "halfOpen" /\ halfOpenCount >= HalfOpenMax

AskBreaker(w) ==
    /\ Gate(w)
    /\ \/ pc'[w] = "limit" /\ Breaker!Allow(w)
       \/ pc'[w] = "retry" /\ Refuses /\ UNCHANGED circuit

\* The breaker hears nothing of a call that the limiter refuses or fails.
AskLimiter(w) ==
    /\ Limit(w)
    /\ \/ pc'[w] = "send" /\ UNCHANGED circuit
       \/ pc'[w] # "send" /\ Breaker!Abandon(w)

Failed(w) == LogFailure(w) /\ Breaker!RecordFailure(w)
Succeeded(w) == LogSuccess(w) /\ Breaker!RecordSuccess(w)

\* Everything that does not touch the breaker.
Elsewhere ==
    /\ \/ \E n \in Notification : Create(n) \/ CreatorStep(n) \/ Cancel(n)
       \/ CreateBatch \/ CancelBatch \/ ApiCrash
       \/ \E p \in Poller : PollerStep(p)
       \/ \E w \in Worker :
            \/ Dequeue(w) \/ Load(w) \/ Claim(w) \/ Requeue(w) \/ Unclaim(w)
            \/ Send(w) \/ HandleRetry(w) \/ DeadLetter(w) \/ Settle(w) \/ Ack(w)
    /\ UNCHANGED circuit

\* The breaker lives in the process's memory and starts anew with it.
Restart(h) ==
    /\ Crash(h)
    /\ state' = "closed" /\ cooled' = TRUE
    /\ failureCount' = 0 /\ successCount' = 0 /\ halfOpenCount' = 0
    /\ probes' = {} /\ calls' = {} /\ leaked' = FALSE /\ UNCHANGED healthy

ResetTimeout == Breaker!Cool /\ UNCHANGED vars

PipelineNext ==
    \/ \E w \in Worker : AskBreaker(w) \/ AskLimiter(w) \/ Failed(w) \/ Succeeded(w)
    \/ \E h \in Host : Restart(h)
    \/ ResetTimeout
    \/ Elsewhere

PipelineSpec == PipelineInit /\ [][PipelineNext]_<<vars, circuit>>

-----------------------------------------------------------------------------
\* Between Allow's yes and the report Process owes for it.
Calling == {"limit", "send", "logFailure", "logSuccess"}
Admitted == {w \in Worker : pc[w] \in Calling}

(***************************************************************************)
(* A half-open breaker that has no slot left for anybody is waiting for    *)
(* one of its own process's workers, which has passed Allow and is on its  *)
(* way to report; so the refusals end when that worker returns.  The       *)
(* exception is an episode one of whose test calls the limiter turned away *)
(* (leaked).  A restart of the process does not change this.               *)
(***************************************************************************)
SomebodyWillReport ==
    state = "halfOpen" /\ halfOpenCount >= HalfOpenMax /\ ~leaked => Admitted # {}

(***************************************************************************)
(* README.md:243: "Notifications blocked by an OPEN circuit are simply     *)
(* scheduled for retry and re-enqueued once the provider recovers."  So    *)
(* without failures of the stores a dead-lettered notification has been    *)
(* sent to the provider as often as the retry budget says.                 *)
(***************************************************************************)
BlockedIsRetried ==
    \A n \in Notification : dlq[n] > 0 => Cardinality(attempts[n]) = MaxRetries
=============================================================================
