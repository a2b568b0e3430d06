------------------------------ MODULE Delivery ------------------------------
(***************************************************************************)
(* The life of the notifications of one channel, from POST /notifications  *)
(* to the provider or the dead-letter table.  The actors are the API's     *)
(* create and cancel handlers, the workers of the channel (several         *)
(* goroutines in several processes), and in every worker process a         *)
(* scheduler and a retry poller.  They share two stores and no lock: the   *)
(* notifications table in Postgres, and the sorted set (queue) and set     *)
(* (processing) in Redis.  A step is one round trip to a store or to the   *)
(* provider; anything can happen between two of them.                      *)
(*                                                                         *)
(* Time is abstracted: a row whose next_retry_at or scheduled_at is set    *)
(* may be found due by any poll.  The order in which the queue serves its  *)
(* members is left open here, and so are the answers of the circuit        *)
(* breaker (see CircuitBreaker) and of the rate limiter.                   *)
(***************************************************************************)
EXTENDS Naturals, FiniteSets

CONSTANTS
    Notification,   \* the notifications that may be created
    Batched,        \* those of them that arrive in one POST /batch
    Worker,         \* worker goroutines of the channel
    Host,           \* worker processes
    HostOf,         \* the process each worker runs in
    MaxRetries,     \* worker.max_retries of the configuration
    RowMaxRetries,  \* notifications.max_retries, fixed to 3 by NewNotification
    Faults,         \* the kinds of failure that may happen
    NoMsg           \* "this worker has no message"

FaultKind == {"db",        \* a database call fails, before or after it took effect
              "redis",     \* a Redis call fails and has no effect, or its reply is lost
              "resend",    \* the Redis client retransmits a write it saw no reply to
              "limiter",   \* the rate-limit script fails
              "throttle",  \* the rate limiter says no (not a failure, but optional)
              "crash"}     \* a process stops

ASSUME DeliveryAssumption ==
    /\ Batched \subseteq Notification
    /\ HostOf \in [Worker -> Host]
    /\ MaxRetries \in Nat \ {0}
    /\ RowMaxRetries \in Nat \ {0}
    /\ Faults \subseteq FaultKind
    /\ NoMsg \notin Notification

VARIABLES
    row,         \* the notifications table
    attempts,    \* the delivery_attempts table
    dlq,         \* how many dead_letter_queue entries a notification has
    queue,       \* queue:notifications:<channel>
    processing,  \* processing:notifications:<channel>
    creator,     \* what the API's Create/CreateBatch still has to do for it
    batch,       \* rows a poller has taken from the table and not yet enqueued
    pc,          \* where each worker is in runWorker and Process
    msg,         \* the message each worker works on
    copy,        \* the row as Process loaded and changed it in memory
    accepted     \* (history) how often the provider answered 2xx

vars == <<row, attempts, dlq, queue, processing, creator, batch, pc, msg, copy, accepted>>
stores == <<attempts, dlq, queue, processing>>
workers == <<pc, msg, copy, accepted>>

-----------------------------------------------------------------------------
Poller == Host \X {"retry", "schedule"}

Status == {"absent", "pending", "scheduled", "queued", "processing",
           "delivered", "failed", "cancelled"}
IsFinal(s) == s \in {"delivered", "failed", "cancelled"}
CanCancel(s) == s \in {"pending", "scheduled", "queued"}

Row == [status : Status, retryCount : Nat, nextRetry : BOOLEAN]
NewRow(s) == [status |-> s, retryCount |-> 0, nextRetry |-> FALSE]
Blank == NewRow("absent")

Attempt == [number : Nat \ {0}, ok : BOOLEAN]

Label == {"idle", "load", "claim", "gate", "limit", "requeue", "unclaim", "send",
          "logFailure", "retry", "deadletter", "logSuccess", "settle", "ack"}

\* What the tables, the Redis keys and the workers hold.  A worker has a
\* message exactly while it is inside the loop body of runWorker.
TypeOK ==
    /\ row \in [Notification -> Row]
    /\ attempts \in [Notification -> SUBSET Attempt]
    /\ dlq \in [Notification -> Nat]
    /\ queue \in SUBSET Notification
    /\ processing \in SUBSET Notification
    /\ creator \in [Notification -> {"none", "mark", "enqueue"}]
    /\ batch \in [Poller -> SUBSET Notification]
    /\ pc \in [Worker -> Label]
    /\ msg \in [Worker -> Notification \cup {NoMsg}]
    /\ \A w \in Worker : msg[w] = NoMsg <=> pc[w] = "idle"
    /\ copy \in [Worker -> Row]
    /\ accepted \in [Notification -> Nat]

Init ==
    /\ row = [n \in Notification |-> Blank]
    /\ attempts = [n \in Notification |-> {}]
    /\ dlq = [n \in Notification |-> 0]
    /\ queue = {}
    /\ processing = {}
    /\ creator = [n \in Notification |-> "none"]
    /\ batch = [p \in Poller |-> {}]
    /\ pc = [w \in Worker |-> "idle"]
    /\ msg = [w \in Worker |-> NoMsg]
    /\ copy = [w \in Worker |-> Blank]
    /\ accepted = [n \in Notification |-> 0]

-----------------------------------------------------------------------------
(* Calls on the stores that the code makes and whose error it ignores.     *)

\* NotificationRepo.Update and UpdateStatus: an unconditional overwrite.
Save(n, r) ==
    \/ row' = [row EXCEPT ![n] = r]
    \/ "db" \in Faults /\ UNCHANGED row

\* RedisPublisher.Enqueue: the member is the same JSON every time, so a set.
Push(n) ==
    \/ queue' = queue \cup {n}
    \/ "redis" \in Faults /\ UNCHANGED queue

\* DeliveryAttemptRepo.Create.
Record(n, a) ==
    \/ attempts' = [attempts EXCEPT ![n] = @ \cup {a}]
    \/ "db" \in Faults /\ UNCHANGED attempts

WithStatus(r, s) == [r EXCEPT !.status = s]
FailedOnce(r, retry) ==
    [status |-> "failed", retryCount |-> r.retryCount + 1, nextRetry |-> retry]
SetStatus(S, s) ==
    [n \in Notification |-> IF n \in S THEN WithStatus(row[n], s) ELSE row[n]]

Goto(w, l) == pc' = [pc EXCEPT ![w] = l]
Hold(w, r) == copy' = [copy EXCEPT ![w] = r]

\* Process returns, with or without an error: runWorker acknowledges.
Return(w) == Goto(w, "ack") /\ Hold(w, Blank)

-----------------------------------------------------------------------------
(* Slips the code might contain: each property below fails with one of     *)
(* them in place of the action or operator it varies.                      *)

\* Peeking at the queue instead of popping from it.
DequeueWithoutRemoving(w) ==
    /\ pc[w] = "idle"
    /\ \E n \in queue :
         /\ processing' = processing \cup {n}
         /\ Goto(w, "load") /\ msg' = [msg EXCEPT ![w] = n]
    /\ UNCHANGED <<row, attempts, dlq, queue, creator, batch, copy, accepted>>

\* retry_count <= max_retries in the poller's query.
RetryReadyOnceMore(n) ==
    /\ row[n].status = "failed"
    /\ row[n].retryCount <= RowMaxRetries
    /\ row[n].nextRetry

\* Cancel without the condition on the status.
CancelAnyway(n) ==
    /\ row[n].status # "absent"
    /\ row' = SetStatus({n}, "cancelled")
    /\ UNCHANGED <<stores, creator, batch, workers>>

\* A poller that selects retries without setting them to queued.
PollWithoutClaiming(p) ==
    /\ batch[p] = {}
    /\ \E n \in Notification :
         /\ row[n].status = "failed" /\ row[n].retryCount < RowMaxRetries /\ row[n].nextRetry
         /\ batch' = [batch EXCEPT ![p] = {n}]
    /\ UNCHANGED <<row, stores, creator, workers>>

\* Giving up without writing the dead-letter entry.
DeadLetterForgotten(w) ==
    /\ pc[w] = "deadletter"
    /\ Goto(w, "ack")
    /\ UNCHANGED <<row, stores, creator, batch, msg, copy, accepted>>

\* handleRetry without RetryCount++.
HandleRetryUncounted(w) ==
    /\ pc[w] = "retry"
    /\ row' = [row EXCEPT ![msg[w]] = [copy[w] EXCEPT !.status = "failed", !.nextRetry = TRUE]]
    /\ Return(w)
    /\ UNCHANGED <<stores, creator, batch, msg, accepted>>

\* handleRetry without setting NextRetryAt.
HandleRetryUnscheduled(w) ==
    /\ pc[w] = "retry"
    /\ row' = [row EXCEPT ![msg[w]] = FailedOnce(copy[w], copy[w].nextRetry)]
    /\ Return(w)
    /\ UNCHANGED <<stores, creator, batch, msg, accepted>>

\* runWorker acknowledging only what was delivered.
AckIfDelivered(w) ==
    /\ pc[w] = "ack"
    /\ processing' = IF row[msg[w]].status = "delivered" THEN processing \ {msg[w]} ELSE processing
    /\ Goto(w, "idle")
    /\ msg' = [msg EXCEPT ![w] = NoMsg]
    /\ UNCHANGED <<row, attempts, dlq, queue, creator, batch, copy, accepted>>

\* A worker that goes on before it has cleared its message.
AckKeepingMessage(w) ==
    /\ pc[w] = "ack"
    /\ processing' = processing \ {msg[w]}
    /\ Goto(w, "idle")
    /\ UNCHANGED <<row, attempts, dlq, queue, creator, batch, msg, copy, accepted>>

-----------------------------------------------------------------------------
(* The API process.                                                        *)

\* NotificationService.Create up to the insert: a scheduled notification is
\* left to the scheduler, any other is marked queued and enqueued afterwards.
\* When the insert's reply is lost the row exists and nobody goes on with it.
Create(n) ==
    /\ n \notin Batched
    /\ row[n].status = "absent"
    /\ \E s \in {"pending", "scheduled"} :
         /\ row' = [row EXCEPT ![n] = NewRow(s)]
         /\ \/ creator' = [creator EXCEPT ![n] = IF s = "pending" THEN "mark" ELSE "none"]
            \/ "db" \in Faults /\ UNCHANGED creator
    /\ UNCHANGED <<stores, batch, workers>>

\* UpdateStatus(queued), whatever the row has become since it was inserted.
MarkQueued(n) ==
    /\ creator[n] = "mark"
    /\ Save(n, WithStatus(row[n], "queued"))
    /\ creator' = [creator EXCEPT ![n] = "enqueue"]
    /\ UNCHANGED <<stores, batch, workers>>

EnqueueCreated(n) ==
    /\ creator[n] = "enqueue"
    /\ Push(n)
    /\ \/ creator' = [creator EXCEPT ![n] = "none"]
       \/ "resend" \in Faults /\ UNCHANGED creator
    /\ UNCHANGED <<row, attempts, dlq, processing, batch, workers>>

\* NotificationService.CreateBatch: one transaction inserts every row, then
\* the messages of the rows that are due go out one by one in a pipeline.
CreateBatch ==
    /\ Batched # {}
    /\ \A n \in Batched : row[n].status = "absent"
    /\ \E later \in SUBSET Batched :
         /\ row' = [n \in Notification |->
                      IF n \notin Batched THEN row[n]
                      ELSE NewRow(IF n \in later THEN "scheduled" ELSE "queued")]
         /\ \/ creator' = [n \in Notification |->
                              IF n \in Batched \ later THEN "enqueue" ELSE creator[n]]
            \/ "db" \in Faults /\ UNCHANGED creator
    /\ UNCHANGED <<stores, batch, workers>>

\* NotificationService.Cancel: a conditional update, atomic in the database.
Cancel(n) ==
    /\ CanCancel(row[n].status)
    /\ row' = SetStatus({n}, "cancelled")
    /\ UNCHANGED <<stores, creator, batch, workers>>

\* NotificationService.CancelBatch.
CancelBatch ==
    LET live == {n \in Batched : CanCancel(row[n].status)}
    IN  /\ live # {}
        /\ row' = SetStatus(live, "cancelled")
        /\ UNCHANGED <<stores, creator, batch, workers>>

-----------------------------------------------------------------------------
(* A worker: runWorker around DeliveryService.Process.                     *)

\* The Lua script moves a member from the queue to the processing set.  An
\* error on the way back looks like an empty queue and the member is lost.
Dequeue(w) ==
    /\ pc[w] = "idle"
    /\ \E n \in queue :
         /\ queue' = queue \ {n}
         /\ processing' = processing \cup {n}
         /\ \/ Goto(w, "load") /\ msg' = [msg EXCEPT ![w] = n]
            \/ "redis" \in Faults /\ UNCHANGED <<pc, msg>>
    /\ UNCHANGED <<row, attempts, dlq, creator, batch, copy, accepted>>

\* GetByID and the IsFinal test.
Load(w) ==
    /\ pc[w] = "load"
    /\ LET r == row[msg[w]]
       IN  \/ /\ r.status # "absent" /\ ~IsFinal(r.status)
              /\ Goto(w, "claim") /\ Hold(w, WithStatus(r, "processing"))
           \/ /\ r.status = "absent" \/ IsFinal(r.status) \/ "db" \in Faults
              /\ Return(w)
    /\ UNCHANGED <<row, stores, creator, batch, msg, accepted>>

\* Update(processing); an error, which may come after the write, ends Process.
Claim(w) ==
    /\ pc[w] = "claim"
    /\ \/ /\ row' = [row EXCEPT ![msg[w]] = copy[w]]
          /\ Goto(w, "gate") /\ UNCHANGED copy
       \/ "db" \in Faults /\ Save(msg[w], copy[w]) /\ Return(w)
    /\ UNCHANGED <<stores, creator, batch, msg, accepted>>

\* breaker.Allow: yes, or no and straight to handleRetry.
Gate(w) ==
    /\ pc[w] = "gate"
    /\ Goto(w, "limit") \/ Goto(w, "retry")
    /\ UNCHANGED <<row, stores, creator, batch, msg, copy, accepted>>

\* limiter.Allow: yes, no, or an error that ends Process.
Limit(w) ==
    /\ pc[w] = "limit"
    /\ \/ Goto(w, "send") /\ UNCHANGED copy
       \/ "throttle" \in Faults /\ Goto(w, "requeue") /\ UNCHANGED copy
       \/ "limiter" \in Faults /\ Return(w)
    /\ UNCHANGED <<row, stores, creator, batch, msg, accepted>>

\* A throttled message first goes back to the queue ...
Requeue(w) ==
    /\ pc[w] = "requeue"
    /\ Push(msg[w])
    /\ \/ Goto(w, "unclaim")
       \/ "resend" \in Faults /\ UNCHANGED pc
    /\ UNCHANGED <<row, attempts, dlq, processing, creator, batch, msg, copy, accepted>>

\* ... and only then is its row overwritten with what Process loaded.
Unclaim(w) ==
    /\ pc[w] = "unclaim"
    /\ Save(msg[w], WithStatus(copy[w], "queued"))
    /\ Return(w)
    /\ UNCHANGED <<stores, creator, batch, msg, accepted>>

\* provider.Send.
Send(w) ==
    /\ pc[w] = "send"
    /\ \/ Goto(w, "logSuccess") /\ accepted' = [accepted EXCEPT ![msg[w]] = @ + 1]
       \/ Goto(w, "logFailure") /\ UNCHANGED accepted
    /\ UNCHANGED <<row, stores, creator, batch, msg, copy>>

LogFailure(w) ==
    /\ pc[w] = "logFailure"
    /\ Record(msg[w], [number |-> copy[w].retryCount + 1, ok |-> FALSE])
    /\ Goto(w, "retry")
    /\ UNCHANGED <<row, dlq, queue, processing, creator, batch, msg, copy, accepted>>

\* handleRetry: give up on the row, or park it until next_retry_at.
HandleRetry(w) ==
    /\ pc[w] = "retry"
    /\ IF copy[w].retryCount + 1 >= MaxRetries
       THEN /\ Save(msg[w], FailedOnce(copy[w], copy[w].nextRetry))
            /\ Goto(w, "deadletter") /\ Hold(w, Blank)
       ELSE /\ Save(msg[w], FailedOnce(copy[w], TRUE))
            /\ Return(w)
    /\ UNCHANGED <<stores, creator, batch, msg, accepted>>

\* dlqRepo.Create, whose error is only logged.
DeadLetter(w) ==
    /\ pc[w] = "deadletter"
    /\ \/ dlq' = [dlq EXCEPT ![msg[w]] = @ + 1]
       \/ "db" \in Faults /\ UNCHANGED dlq
    /\ Goto(w, "ack")
    /\ UNCHANGED <<row, attempts, queue, processing, creator, batch, msg, copy, accepted>>

LogSuccess(w) ==
    /\ pc[w] = "logSuccess"
    /\ Record(msg[w], [number |-> copy[w].retryCount + 1, ok |-> TRUE])
    /\ Goto(w, "settle")
    /\ UNCHANGED <<row, dlq, queue, processing, creator, batch, msg, copy, accepted>>

Settle(w) ==
    /\ pc[w] = "settle"
    /\ Save(msg[w], WithStatus(copy[w], "delivered"))
    /\ Return(w)
    /\ UNCHANGED <<stores, creator, batch, msg, accepted>>

\* Acknowledge: whoever put the member into the processing set, it is removed.
Ack(w) ==
    /\ pc[w] = "ack"
    /\ \/ processing' = processing \ {msg[w]}
       \/ "redis" \in Faults /\ UNCHANGED processing
    /\ Goto(w, "idle")
    /\ msg' = [msg EXCEPT ![w] = NoMsg]
    /\ UNCHANGED <<row, attempts, dlq, queue, creator, batch, copy, accepted>>

WorkerStep(w) ==
    \/ Dequeue(w) \/ Load(w) \/ Claim(w) \/ Gate(w) \/ Limit(w) \/ Requeue(w)
    \/ Unclaim(w) \/ Send(w) \/ LogFailure(w) \/ HandleRetry(w) \/ DeadLetter(w)
    \/ LogSuccess(w) \/ Settle(w) \/ Ack(w)

-----------------------------------------------------------------------------
(* The scheduler and the retry poller of a worker process.                 *)

\* A failed row that GetRetryReady will select once next_retry_at has passed.
RetryReady(n) ==
    /\ row[n].status = "failed"
    /\ row[n].retryCount < RowMaxRetries
    /\ row[n].nextRetry

\* What a poller's query selects from, whenever its time has come.
Selects(p, n) ==
    CASE p[2] = "retry"    -> RetryReady(n)
      [] p[2] = "schedule" -> row[n].status = "scheduled"

\* One statement takes some due rows that no other statement has locked and
\* sets them to queued.  If its reply is lost the rows are taken for nothing.
Poll(p) ==
    /\ batch[p] = {}
    /\ \E S \in SUBSET {n \in Notification : Selects(p, n)} \ {{}} :
         /\ row' = SetStatus(S, "queued")
         /\ \/ batch' = [batch EXCEPT ![p] = S]
            \/ "db" \in Faults /\ UNCHANGED batch
    /\ UNCHANGED <<stores, creator, workers>>

\* EnqueueBatch is a pipeline, not a transaction: its writes land one by one
\* and an error, which is only logged, may leave any of them out.
EnqueuePolled(p, n) ==
    /\ n \in batch[p]
    /\ Push(n)
    /\ \/ batch' = [batch EXCEPT ![p] = @ \ {n}]
       \/ "resend" \in Faults /\ UNCHANGED batch
    /\ UNCHANGED <<row, attempts, dlq, processing, creator, workers>>

PollerStep(p) == Poll(p) \/ \E n \in Notification : EnqueuePolled(p, n)

-----------------------------------------------------------------------------
(* A process stops: all it had in memory is gone, and nothing looks at the *)
(* processing set when it comes back.                                      *)

Crash(h) ==
    /\ "crash" \in Faults
    /\ pc' = [w \in Worker |-> IF HostOf[w] = h THEN "idle" ELSE pc[w]]
    /\ msg' = [w \in Worker |-> IF HostOf[w] = h THEN NoMsg ELSE msg[w]]
    /\ copy' = [w \in Worker |-> IF HostOf[w] = h THEN Blank ELSE copy[w]]
    /\ batch' = [p \in Poller |-> IF p[1] = h THEN {} ELSE batch[p]]
    /\ UNCHANGED <<row, stores, creator, accepted>>

ApiCrash ==
    /\ "crash" \in Faults
    /\ creator' = [n \in Notification |-> "none"]
    /\ UNCHANGED <<row, stores, batch, workers>>

-----------------------------------------------------------------------------
CreatorStep(n) == MarkQueued(n) \/ EnqueueCreated(n)

Next ==
    \/ \E n \in Notification : Create(n) \/ CreatorStep(n) \/ Cancel(n)
    \/ CreateBatch \/ CancelBatch
    \/ \E w \in Worker : WorkerStep(w)
    \/ \E p \in Poller : PollerStep(p)
    \/ \E h \in Host : Crash(h)
    \/ ApiCrash

Spec == Init /\ [][Next]_vars

\* Goroutines are scheduled, tickers tick and every call returns; whether
\* anybody creates or cancels a notification is up to the clients.
Fairness ==
    /\ \A n \in Notification : WF_vars(CreatorStep(n))
    /\ \A w \in Worker : WF_vars(WorkerStep(w))
    /\ \A p \in Poller : WF_vars(PollerStep(p))

FairSpec == Spec /\ Fairness

-----------------------------------------------------------------------------
(* Who carries a notification: whose next step it is to move it on.        *)

\* A worker in one of these places will send, re-enqueue or park its message.
Holding == {"load", "claim", "gate", "limit", "requeue", "send",
            "logFailure", "retry", "logSuccess", "settle"}
Holds(w, n) == msg[w] = n /\ pc[w] \in Holding

\* The row itself is the reminder: a poller will find it.
Parked(n) == row[n].status = "scheduled" \/ RetryReady(n)

Custodians(n) ==
    {<<"worker", w>> : w \in {v \in Worker : Holds(v, n)}}
      \cup {<<"poller", p>> : p \in {q \in Poller : n \in batch[q]}}
      \cup {<<"queue", n>> : m \in queue \cap {n}}
      \cup {<<"creator", n>> : m \in {k \in {n} : creator[k] # "none"}}
      \cup {<<"table", n>> : m \in {k \in {n} : Parked(k)}}

Burying(w, n) == msg[w] = n /\ pc[w] = "deadletter"
Carried(n) == Custodians(n) # {} \/ \E w \in Worker : Burying(w, n)

\* A notification that exists and that nobody is going to touch again.
AtRest(n) ==
    /\ row[n].status # "absent"
    /\ ~Carried(n)
    /\ \A w \in Worker : msg[w] # n

-----------------------------------------------------------------------------
(* Safety                                                                  *)

(***************************************************************************)
(* At any time at most one party has the duty to move a notification on:   *)
(* the API call creating it, the queue, one worker, one poller, or the     *)
(* table that a poller will search.  This is what the atomic dequeue script *)
(* and FOR UPDATE SKIP LOCKED are for, across any number of workers,       *)
(* processes, failed calls and crashes.  It needs a Redis client that does *)
(* not retransmit (see the README).                                        *)
(***************************************************************************)
SoleCustodian ==
    \A n \in Notification : \A c, d \in Custodians(n) : c = d

(***************************************************************************)
(* The provider accepts a notification at most once, a notification has at *)
(* most one dead-letter entry, and it never gets both: a sent notification *)
(* is not sent again by any retry, and a dead-lettered one is not revived. *)
(***************************************************************************)
OneOutcome ==
    \A n \in Notification : accepted[n] + dlq[n] <= 1

(***************************************************************************)
(* A row in a final state (delivered, cancelled, or failed for good) is    *)
(* only ever changed by somebody who was already under way: a worker with  *)
(* its own copy of the row, or a Create that has still to mark it queued.  *)
(* No poller and no later dequeue touches it.                              *)
(***************************************************************************)
InFlight(n) ==
    \/ creator[n] = "mark"
    \/ \E w \in Worker : msg[w] = n /\ copy[w] # Blank
FinalRow(n) == IsFinal(row[n].status) /\ ~Parked(n)
FinalUnlessInFlight ==
    [][\A n \in Notification : FinalRow(n) => row'[n] = row[n] \/ InFlight(n)]_vars

(***************************************************************************)
(* Without failures nothing is left behind: a notification at rest is      *)
(* delivered, with the successful attempt on record; or failed after       *)
(* exactly MaxRetries tries, with its dead-letter entry; or cancelled and  *)
(* never sent.                                                             *)
(***************************************************************************)
Delivered(n) ==
    /\ row[n].status = "delivered" /\ accepted[n] = 1 /\ dlq[n] = 0
    /\ [number |-> row[n].retryCount + 1, ok |-> TRUE] \in attempts[n]
DeadLettered(n) ==
    /\ row[n].status = "failed" /\ accepted[n] = 0 /\ dlq[n] = 1
    /\ row[n].retryCount = MaxRetries
Cancelled(n) ==
    row[n].status = "cancelled" /\ accepted[n] = 0 /\ dlq[n] = 0
RestIsAccountedFor ==
    \A n \in Notification : AtRest(n) => Delivered(n) \/ DeadLettered(n) \/ Cancelled(n)

(***************************************************************************)
(* The audit trail is numbered truthfully, although every number is taken  *)
(* from a row read earlier: two attempts at one notification never carry   *)
(* the same number, none is numbered past the retry budget, and nothing    *)
(* follows the successful one.  This holds whatever fails, processes that  *)
(* stop included, but for a limiter that says no (the write-back of a      *)
(* throttled worker sets retry_count back) and a client that retransmits.  *)
(***************************************************************************)
AttemptsInOrder ==
    \A n \in Notification : \A a, b \in attempts[n] :
        /\ a.number <= MaxRetries
        /\ a.number = b.number => a = b
        /\ a.ok => b.number <= a.number

(***************************************************************************)
(* While Redis answers and no process stops, a notification at rest has    *)
(* left no entry behind in the processing set, although Acknowledge        *)
(* removes by notification and not by worker: an entry is not taken away   *)
(* for good by an earlier worker nor left over by a later one.             *)
(***************************************************************************)
NothingLeftProcessing ==
    \A n \in Notification : AtRest(n) => n \notin processing

-----------------------------------------------------------------------------
(* Liveness                                                                *)

(***************************************************************************)
(* Without failures every notification that is ever created ends up, for   *)
(* good, delivered, dead-lettered or cancelled: retries, the breaker's     *)
(* refusals and late cancellations postpone that but do not prevent it.    *)
(***************************************************************************)
EventuallyAtRest ==
    \A n \in Notification :
        <>[](row[n].status = "absent" \/ Delivered(n) \/ DeadLettered(n) \/ Cancelled(n))

-----------------------------------------------------------------------------
(* What the repository's documents say and the code does not keep.         *)

(***************************************************************************)
(* README.md:212: "Final states (..., cancelled) are immutable - the       *)
(* system will not reprocess them."  Process loads the row, and Cancel may *)
(* succeed before its Update(processing) overwrites the row.               *)
(***************************************************************************)
CancelledStaysCancelled ==
    [][\A n \in Notification :
          row[n].status = "cancelled" => row'[n].status = "cancelled"]_vars

(***************************************************************************)
(* scripts/run-integration-tests.sh:423 on rate limiting: "No message      *)
(* loss, just delayed delivery" (and README.md:115: "Nothing silently      *)
(* disappears").  Process re-enqueues a throttled message before it writes *)
(* its row back, so another worker may finish, or park, it in between.     *)
(***************************************************************************)
NothingSilentlyDisappears ==
    \A n \in Notification : AtRest(n) => IsFinal(row[n].status)

(***************************************************************************)
(* README.md:252: the dead-letter table is the "Final resting place".  The *)
(* worker gives up after worker.max_retries, but the poller compares with  *)
(* the row's max_retries, which is always 3.                               *)
(***************************************************************************)
DeadLetterIsFinal ==
    \A n \in Notification : dlq[n] > 0 => ~Carried(n)

(***************************************************************************)
(* scripts/run-integration-tests.sh:427-428: in-flight messages are in     *)
(* status processing, and "On restart, RetryPoller picks up stuck          *)
(* messages".  GetRetryReady only selects failed rows.                     *)
(***************************************************************************)
StuckIsPickedUp ==
    \A n \in Notification :
        row[n].status = "processing" ~> row[n].status # "processing"

-----------------------------------------------------------------------------
(***************************************************************************)
(* The detailed specification implements Custody, whatever fails.          *)
(***************************************************************************)
Life(n) ==
    IF row[n].status = "absent" THEN "unborn"
    ELSE IF Carried(n) THEN "carried" ELSE "closed"

Promise == INSTANCE Custody WITH
    life <- [n \in Notification |-> Life(n)], buried <- dlq

\* A notification is let go of once, never picked up again, and has at most
\* one outcome (see Custody).
KeepsPromise == Promise!Spec
=============================================================================
