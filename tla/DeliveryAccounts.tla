-------------------------- MODULE DeliveryAccounts --------------------------
(***************************************************************************)
(* What Delivery leaves behind: the attempts on record, the processing set *)
(* and the final rows, for any notifications, workers and processes.       *)
(***************************************************************************)
EXTENDS DeliveryProofs

Custodied(n) == ByWorker(n) \/ ByQueue(n) \/ ByCreator(n) \/ ByPoller(n) \/ Parked(n)

-----------------------------------------------------------------------------
(* The inductive invariant behind NothingLeftProcessing.                   *)

\* An entry of the processing set belongs to some worker that will remove it.
EntriesHaveWorkers == \A n \in processing : \E w \in Worker : msg[w] = n

LEMMA EntriesStep ==
    ASSUME TypeOK, [Next]_vars, EntriesHaveWorkers, {"redis", "crash"} \cap Faults = {}
    PROVE  EntriesHaveWorkers'
<1> SUFFICES ASSUME NEW n \in processing' PROVE \E w \in Worker : msg'[w] = n
  BY DEF EntriesHaveWorkers
<1> USE DEF TypeOK, EntriesHaveWorkers, Goto
<1>1. ASSUME NEW v \in Worker, Dequeue(v) PROVE \E w \in Worker : msg'[w] = n
  <2>1. PICK m \in queue : processing' = processing \cup {m} /\ msg' = [msg EXCEPT ![v] = m]
    BY <1>1 DEF Dequeue
  <2>2. msg[v] = NoMsg
    BY <1>1 DEF Dequeue
  <2>3. QED BY <2>1, <2>2, DeliveryAssumption
<1>2. ASSUME NEW v \in Worker, Ack(v) PROVE \E w \in Worker : msg'[w] = n
  <2>1. processing' = processing \ {msg[v]} /\ msg' = [msg EXCEPT ![v] = NoMsg]
    BY <1>2 DEF Ack
  <2>2. QED BY <2>1
<1>3. CASE UNCHANGED <<processing, msg>>
  BY <1>3
<1>4. ASSUME NEW v \in Worker, WorkerStep(v) PROVE \E w \in Worker : msg'[w] = n
  BY <1>1, <1>2, <1>3, <1>4
     DEF WorkerStep, Load, Claim, Gate, Limit, Requeue, Unclaim, Send, LogFailure, HandleRetry,
         DeadLetter, LogSuccess, Settle, stores
<1>5. QED
  BY <1>3, <1>4
     DEF Next, Create, CreatorStep, MarkQueued, EnqueueCreated, Cancel, CreateBatch, CancelBatch,
         PollerStep, Poll, EnqueuePolled, Crash, ApiCrash, vars, stores, workers

(***************************************************************************)
(* A notification at rest has no entry in the processing set, although     *)
(* Acknowledge removes by notification and not by worker: true of any      *)
(* number of workers, and also when the database, the limiter or the       *)
(* client's retransmissions go wrong, as long as Redis answers and no      *)
(* process stops.                                                          *)
(***************************************************************************)
THEOREM ProcessingIsCleared ==
    ASSUME {"redis", "crash"} \cap Faults = {}
    PROVE  Spec => []NothingLeftProcessing
<1>1. Init => EntriesHaveWorkers
  BY DEF Init, EntriesHaveWorkers
<1>2. TypeOK /\ EntriesHaveWorkers /\ [Next]_vars => EntriesHaveWorkers'
  BY EntriesStep
<1>3. EntriesHaveWorkers => NothingLeftProcessing
  BY DEF EntriesHaveWorkers, NothingLeftProcessing, AtRest
<1>4. QED BY <1>1, <1>2, <1>3, TypeCorrect, PTL DEF Spec

-----------------------------------------------------------------------------
(* The inductive invariant behind AttemptsInOrder.                         *)

\* The limiter has turned nobody away.
NobodyThrottled == \A w \in Worker : pc[w] \notin {"requeue", "unclaim"}

Orderly(n) ==
    \A a, b \in attempts[n] :
        /\ a.number <= MaxRetries
        /\ a.number = b.number => a = b
        /\ a.ok => b.number <= a.number

\* Every attempt on record failed, and its number is at most k.
FailedUpTo(n, k) == \A a \in attempts[n] : ~a.ok /\ a.number <= k

\* Where the current try is on record already, or is not to be.
Recorded == {"retry", "settle"}

\* The row of a notification that somebody carries counts the tries on record.
TrailInv(n) ==
    /\ Orderly(n)
    /\ row[n].status = "absent" => attempts[n] = {}
    /\ Custodied(n) => row[n].retryCount < MaxRetries
    /\ \A w \in Worker :
         Holds(w, n) /\ pc[w] # "load" => copy[w].retryCount = row[n].retryCount
    /\ \A w \in Worker :
         Holds(w, n) /\ pc[w] = "retry" => FailedUpTo(n, row[n].retryCount + 1)
    /\ Custodied(n) /\ (\A w \in Worker : Holds(w, n) => pc[w] \notin Recorded)
         => FailedUpTo(n, row[n].retryCount)

AuditInv ==
    /\ CustodyInv
    /\ NobodyThrottled
    /\ \A n \in Notification : TrailInv(n)

LEMMA ThrottleStep ==
    ASSUME TypeOK, NobodyThrottled, [Next]_vars, "throttle" \notin Faults
    PROVE  NobodyThrottled'
<1> USE DEF TypeOK, NobodyThrottled, Goto, Return
<1>1. ASSUME NEW w \in Worker, WorkerStep(w) PROVE NobodyThrottled'
  BY <1>1 DEF WorkerStep, Dequeue, Load, Claim, Gate, Limit, Requeue, Unclaim, Send, LogFailure,
     HandleRetry, DeadLetter, LogSuccess, Settle, Ack
<1>2. ASSUME NEW h \in Host, Crash(h) PROVE NobodyThrottled'
  BY <1>2 DEF Crash
<1>3. CASE UNCHANGED pc
  BY <1>3
<1>4. QED
  BY <1>1, <1>2, <1>3
     DEF Next, Create, CreatorStep, MarkQueued, EnqueueCreated, Cancel, CreateBatch, CancelBatch,
         PollerStep, Poll, EnqueuePolled, ApiCrash, vars, workers

\* A notification that exists and that nobody carries is not picked up again.
LEMMA CustodyPasses ==
    ASSUME CustodyInv, NobodyThrottled, [Next]_vars,
           NEW m \in Notification, row[m].status # "absent", ~Custodied(m)
    PROVE  ~Custodied(m)'
<1> USE DEF CustodyInv, TypeOK, NobodyThrottled, stores, workers, Custodied, ByWorker, ByQueue,
            ByCreator, ByPoller, Holds, Holding
<1>1. /\ ~ByWorker(m) /\ ~ByPoller(m) /\ ~ByQueue(m) /\ ~ByCreator(m) /\ ~Parked(m)
  OBVIOUS
<1>2. ~Parked(m)'
  <2>1. \A w \in Worker : HandleRetry(w) => Holds(w, msg[w])
    BY DEF HandleRetry
  <2>2. QED BY <1>1, <2>1, ParkedStep
<1> DEFINE Goal == ~ByWorker(m)' /\ ~ByPoller(m)' /\ ~ByQueue(m)' /\ ~ByCreator(m)'
<1>3. SUFFICES Goal
  BY <1>2
<1>4. ASSUME NEW n \in Notification, Create(n) \/ CreatorStep(n) PROVE Goal
  <2>1. CASE Create(n)
    BY <1>1, <2>1 DEF Create
  <2>2. CASE MarkQueued(n)
    BY <1>1, <2>2 DEF MarkQueued
  <2>3. CASE EnqueueCreated(n)
    BY <1>1, <2>3 DEF EnqueueCreated, Push
  <2>4. QED BY <1>4, <2>1, <2>2, <2>3 DEF CreatorStep
<1>5. CASE CreateBatch \/ CancelBatch \/ \E n \in Notification : Cancel(n)
  BY <1>1, <1>5 DEF CreateBatch, CancelBatch, Cancel
<1>6. ASSUME NEW w \in Worker, WorkerStep(w) PROVE Goal
  <2> USE DEF Goto, Return
  <2>1. CASE Dequeue(w)
    BY <1>1, <2>1 DEF Dequeue
  <2>2. CASE Ack(w)
    BY <1>1, <2>2, DeliveryAssumption DEF Ack
  <2>3. ASSUME \E l \in Label : Goto(w, l),
               pc'[w] \in Holding => pc[w] \in Holding,
               UNCHANGED <<queue, creator, batch, msg>>
        PROVE  Goal
    BY <1>1, <2>3
  <2>4. CASE Load(w) \/ Claim(w) \/ Gate(w) \/ Limit(w) \/ Send(w) \/ DeadLetter(w)
    BY <2>3, <2>4 DEF Load, Claim, Gate, Limit, Send, DeadLetter, Label
  <2>5. CASE LogFailure(w) \/ LogSuccess(w) \/ Settle(w) \/ HandleRetry(w)
    BY <2>3, <2>5 DEF LogFailure, LogSuccess, Settle, HandleRetry, Label
  <2>6. QED
    BY <1>6, <2>1, <2>2, <2>4, <2>5 DEF WorkerStep, Requeue, Unclaim
<1>7. ASSUME NEW p \in Poller, Poll(p) PROVE Goal
  <2>1. ~Selects(p, m)
    BY <1>1 DEF Selects, Parked, Poller
  <2>2. QED BY <1>1, <1>7, <2>1 DEF Poll
<1>8. ASSUME NEW p \in Poller, NEW n \in Notification, EnqueuePolled(p, n) PROVE Goal
  BY <1>1, <1>8 DEF EnqueuePolled, Push
<1>9. CASE \E h \in Host : Crash(h)
  BY <1>1, <1>9 DEF Crash
<1>10. CASE ApiCrash \/ UNCHANGED vars
  BY <1>1, <1>10 DEF ApiCrash, vars
<1>11. QED
  BY <1>4, <1>5, <1>6, <1>7, <1>8, <1>9, <1>10 DEF Next, PollerStep

LEMMA CountFacts ==
    /\ \A s \in Status : NewRow(s).retryCount = 0 /\ NewRow(s).status = s
    /\ \A r \in Row, s \in Status : WithStatus(r, s).retryCount = r.retryCount
    /\ \A r \in Row, b \in BOOLEAN : FailedOnce(r, b).retryCount = r.retryCount + 1
  BY DEF NewRow, WithStatus, FailedOnce, Row

\* The trail of a notification nobody carries any more is closed.
LEMMA TrailClosed ==
    ASSUME NEW m \in Notification, TrailInv(m), ~Custodied(m)', attempts'[m] = attempts[m],
           row'[m].status = "absent" => row[m].status = "absent"
    PROVE  TrailInv(m)'
<1>1. \A w \in Worker : ~Holds(w, m)'
  BY DEF Custodied, ByWorker
<1>2. QED BY <1>1 DEF TrailInv, Orderly

\* A step that is not about the notification, or that only hands it on.
LEMMA TrailUnmoved ==
    ASSUME NEW m \in Notification, TrailInv(m), attempts'[m] = attempts[m],
           row'[m].retryCount = row[m].retryCount,
           row'[m].status = "absent" => row[m].status = "absent",
           Custodied(m)' => Custodied(m),
           \A w \in Worker : Holds(w, m)' <=> Holds(w, m),
           \A w \in Worker : Holds(w, m) => pc'[w] = pc[w] /\ copy'[w] = copy[w]
    PROVE  TrailInv(m)'
  BY DEF TrailInv, Orderly, FailedUpTo

\* One party at a time: a worker that holds a notification is its only custodian.
LEMMA HolderIsAlone ==
    ASSUME NEW m \in Notification, Alone(m), NEW w \in Worker, Holds(w, m)
    PROVE  /\ Custodied(m) /\ ~ByQueue(m) /\ ~ByCreator(m) /\ ~ByPoller(m) /\ ~Parked(m)
           /\ \A v \in Worker : Holds(v, m) => v = w
  BY DEF Alone, ByWorker, Custodied

\* Until it records the current try, a worker has the row's count, and the tries
\* on record are those before.
LEMMA BeforeRecording ==
    ASSUME NEW m \in Notification, Alone(m), TrailInv(m),
           NEW w \in Worker, Holds(w, m), pc[w] \notin Recorded
    PROVE  /\ FailedUpTo(m, row[m].retryCount) /\ row[m].retryCount < MaxRetries
           /\ pc[w] # "load" => copy[w].retryCount = row[m].retryCount
<1>1. Custodied(m) /\ \A v \in Worker : Holds(v, m) => v = w
  BY HolderIsAlone
<1>2. QED BY <1>1 DEF TrailInv

\* A step of the worker that holds the notification, by where it goes.
LEMMA TrailMoves ==
    ASSUME AuditInv, [Next]_vars, NEW m \in Notification, row[m].status # "absent",
           NEW w \in Worker, Holds(w, m), pc[w] \notin Recorded,
           UNCHANGED <<msg, queue, creator, batch, attempts>>,
           \A v \in Worker : v # w => pc'[v] = pc[v] /\ copy'[v] = copy[v],
           row'[m].retryCount = row[m].retryCount,
           Holds(w, m)' => pc'[w] # "load" /\ copy'[w].retryCount = row[m].retryCount
                            /\ pc'[w] # "settle"
    PROVE  TrailInv(m)'
<1>1. TrailInv(m) /\ Alone(m) /\ CustodyInv /\ row[m] \in Row
  BY DEF AuditInv, CustodyInv, TypeOK
<1>2. /\ FailedUpTo(m, row[m].retryCount) /\ row[m].retryCount < MaxRetries
      /\ \A v \in Worker : Holds(v, m) => v = w
  BY <1>1, BeforeRecording, HolderIsAlone
<1>3. row'[m].status # "absent"
  BY <1>1, RowsStay
<1>4. \A v \in Worker : Holds(v, m)' => v = w
  BY <1>2 DEF Holds
<1>5. FailedUpTo(m, row[m].retryCount + 1)
  <2>1. \A a \in attempts[m] : a.number \in Nat /\ row[m].retryCount \in Nat
    BY <1>1 DEF CustodyInv, TypeOK, Attempt, Row
  <2>2. QED BY <1>2, <2>1 DEF FailedUpTo
<1>6. QED BY <1>1, <1>2, <1>3, <1>4, <1>5 DEF TrailInv, Orderly, FailedUpTo

\* Recording a try.
LEMMA TrailGrows ==
    ASSUME AuditInv, [Next]_vars, NEW m \in Notification, row[m].status # "absent",
           NEW w \in Worker, LogFailure(w) \/ LogSuccess(w), msg[w] = m
    PROVE  TrailInv(m)'
<1>1. PICK good \in BOOLEAN :
         /\ \/ pc[w] = "logFailure" /\ good = FALSE /\ pc' = [pc EXCEPT ![w] = "retry"]
            \/ pc[w] = "logSuccess" /\ good = TRUE /\ pc' = [pc EXCEPT ![w] = "settle"]
         /\ \/ attempts' = [attempts EXCEPT ![m] =
                               @ \cup {[number |-> copy[w].retryCount + 1, ok |-> good]}]
            \/ UNCHANGED attempts
         /\ UNCHANGED <<row, queue, creator, batch, msg, copy>>
  <2>1. CASE LogFailure(w)
    BY <2>1 DEF LogFailure, Record, Goto
  <2>2. CASE LogSuccess(w)
    BY <2>2 DEF LogSuccess, Record, Goto
  <2>3. QED BY <2>1, <2>2
<1> DEFINE a == [number |-> copy[w].retryCount + 1, ok |-> good]
<1>2. Holds(w, m)
  BY <1>1 DEF Holds, Holding
<1>3. TrailInv(m) /\ Alone(m) /\ TypeOK
  BY DEF AuditInv, CustodyInv
<1>4. /\ FailedUpTo(m, row[m].retryCount) /\ row[m].retryCount < MaxRetries
      /\ copy[w].retryCount = row[m].retryCount
      /\ \A v \in Worker : Holds(v, m) => v = w
  BY <1>1, <1>2, <1>3, BeforeRecording, HolderIsAlone DEF Recorded
<1>5. /\ row[m].retryCount \in Nat /\ attempts[m] \subseteq Attempt
      /\ a.number = row[m].retryCount + 1 /\ a.ok = good
  BY <1>3, <1>4 DEF TypeOK, Row
<1>6. attempts'[m] = attempts[m] \/ attempts'[m] = attempts[m] \cup {a}
  BY <1>1, <1>3 DEF TypeOK
<1>7. /\ \A x \in attempts[m] : ~x.ok /\ x.number \in Nat /\ x.number <= row[m].retryCount
      /\ \A x, y \in attempts[m] : x.number = y.number => x = y
  BY <1>3, <1>4, <1>5 DEF FailedUpTo, Attempt, TrailInv, Orderly
<1> HIDE DEF a
<1>8. Orderly(m)'
  BY <1>4, <1>5, <1>6, <1>7, DeliveryAssumption DEF Orderly
<1>9. \A v \in Worker : Holds(v, m)' <=> v = w
  <2>1. pc'[w] \in {"retry", "settle"}
    BY <1>1, <1>3 DEF TypeOK
  <2>2. QED BY <1>1, <1>2, <1>3, <1>4, <2>1 DEF Holds, Holding, TypeOK
<1>10. pc'[w] \in Recorded /\ copy'[w] = copy[w]
  BY <1>1, <1>3 DEF Recorded, TypeOK
<1>11. pc'[w] = "retry" => FailedUpTo(m, row[m].retryCount + 1)'
  <2>1. pc'[w] = "retry" => ~good
    BY <1>1, <1>3 DEF TypeOK
  <2>2. QED BY <1>1, <1>5, <1>6, <1>7, <2>1 DEF FailedUpTo
<1>12. row' = row /\ Custodied(m)
  BY <1>1, <1>2, <1>3, HolderIsAlone
<1>13. QED BY <1>3, <1>4, <1>8, <1>9, <1>10, <1>11, <1>12 DEF TrailInv

\* handleRetry: the count catches up with the record.
LEMMA TrailRetries ==
    ASSUME AuditInv, [Next]_vars, RowMaxRetries <= MaxRetries,
           NEW m \in Notification, row[m].status # "absent",
           NEW w \in Worker, HandleRetry(w), msg[w] = m
    PROVE  TrailInv(m)'
<1>1. /\ pc[w] = "retry" /\ (Goto(w, "ack") \/ Goto(w, "deadletter"))
      /\ \E b \in BOOLEAN : Save(m, FailedOnce(copy[w], b))
      /\ UNCHANGED <<attempts, queue, creator, batch, msg>>
  <2>1. copy[w].nextRetry \in BOOLEAN
    BY DEF AuditInv, CustodyInv, TypeOK, Row
  <2>2. QED BY <2>1 DEF HandleRetry, Return, stores
<1>2. TrailInv(m) /\ Alone(m) /\ TypeOK /\ Holds(w, m)
  BY <1>1 DEF AuditInv, CustodyInv, Holds, Holding
<1>3. /\ ~ByQueue(m) /\ ~ByCreator(m) /\ ~ByPoller(m) /\ ~Parked(m) /\ Custodied(m)
      /\ \A v \in Worker : Holds(v, m) => v = w
  BY <1>2, HolderIsAlone
<1>4. FailedUpTo(m, row[m].retryCount + 1) /\ copy[w].retryCount = row[m].retryCount
  BY <1>1, <1>2 DEF TrailInv
<1>5. \A v \in Worker : ~Holds(v, m)'
  BY <1>1, <1>2, <1>3 DEF Holds, Holding, Goto, TypeOK
<1>6. ~ByQueue(m)' /\ ~ByCreator(m)' /\ ~ByPoller(m)'
  BY <1>1, <1>3 DEF ByQueue, ByCreator, ByPoller
<1>7. row'[m].status # "absent"
  BY RowsStay DEF AuditInv
<1>8. Parked(m)' => row'[m].retryCount = row[m].retryCount + 1 /\ row'[m].retryCount < MaxRetries
  <2>1. SUFFICES ASSUME Parked(m)' PROVE row'[m].retryCount = row[m].retryCount + 1
                                          /\ row'[m].retryCount < MaxRetries
    OBVIOUS
  <2>2. PICK b \in BOOLEAN : row' = [row EXCEPT ![m] = FailedOnce(copy[w], b)]
    <3>1. row'[m] # row[m]
      BY <1>3, <2>1 DEF Parked, RetryReady
    <3>2. QED BY <1>1, <3>1 DEF Save
  <2>3. row'[m] = FailedOnce(copy[w], b)
    BY <1>2, <2>2 DEF TypeOK
  <2>4. row'[m].retryCount = row[m].retryCount + 1 /\ row'[m].status = "failed"
    BY <1>4, <2>3 DEF FailedOnce
  <2>5. row'[m].retryCount < RowMaxRetries /\ row[m].retryCount \in Nat
    BY <1>2, <2>1, <2>4 DEF Parked, RetryReady, TypeOK, Row
  <2>6. QED BY <2>4, <2>5, DeliveryAssumption
<1>9. attempts'[m] = attempts[m]
  BY <1>1
<1>10. Custodied(m)' => Parked(m)'
  BY <1>5, <1>6 DEF Custodied, ByWorker
<1>11. QED
  BY <1>2, <1>4, <1>5, <1>7, <1>8, <1>9, <1>10 DEF TrailInv, Orderly, FailedUpTo

\* A worker that moves another notification, or none, leaves this one as it is,
\* unless it loses it on the way out of the queue.
LEMMA WorkerElsewhere ==
    ASSUME TypeOK, NobodyThrottled, NEW m \in Notification,
           NEW w \in Worker, WorkerStep(w), msg[w] # m, ~(Dequeue(w) /\ msg'[w] = m)
    PROVE  /\ row'[m] = row[m] /\ attempts'[m] = attempts[m]
           /\ dlq'[m] = dlq[m] /\ accepted'[m] = accepted[m]
           /\ UNCHANGED <<creator, batch>>
           /\ "redis" \notin Faults => (m \in queue' <=> m \in queue)
           /\ \A v \in Worker : /\ Holds(v, m)' <=> Holds(v, m)
                                /\ Burying(v, m)' <=> Burying(v, m)
                                /\ Holds(v, m) => pc'[v] = pc[v] /\ copy'[v] = copy[v]
<1> USE DEF stores, Goto, Hold, Return
<1>1. row'[m] = row[m] /\ UNCHANGED <<creator, batch>>
  BY DEF WorkerStep, Dequeue, Load, Claim, Gate, Limit, Requeue, Unclaim, Send, LogFailure,
     HandleRetry, DeadLetter, LogSuccess, Settle, Ack, Save, TypeOK
<1>2. attempts'[m] = attempts[m] /\ dlq'[m] = dlq[m] /\ accepted'[m] = accepted[m]
  BY DEF WorkerStep, Dequeue, Load, Claim, Gate, Limit, Requeue, Unclaim, Send, LogFailure,
     HandleRetry, DeadLetter, LogSuccess, Settle, Ack, Record, TypeOK
<1>3. \A v \in Worker : /\ msg'[v] = m <=> msg[v] = m
                        /\ v # w => pc'[v] = pc[v] /\ copy'[v] = copy[v]
  <2>1. CASE Dequeue(w)
    BY <2>1 DEF Dequeue, TypeOK
  <2>2. CASE Ack(w)
    BY <2>2, DeliveryAssumption DEF Ack, TypeOK
  <2>3. CASE ~Dequeue(w) /\ ~Ack(w)
    BY <2>3 DEF WorkerStep, Load, Claim, Gate, Limit, Requeue, Unclaim, Send, LogFailure,
       HandleRetry, DeadLetter, LogSuccess, Settle, TypeOK
  <2>4. QED BY <2>1, <2>2, <2>3
<1>4. \A v \in Worker : /\ Holds(v, m)' <=> Holds(v, m)
                        /\ Burying(v, m)' <=> Burying(v, m)
                        /\ Holds(v, m) => pc'[v] = pc[v] /\ copy'[v] = copy[v]
  BY <1>3 DEF Holds, Burying
<1>5. ASSUME "redis" \notin Faults PROVE m \in queue' <=> m \in queue
  <2>1. CASE Dequeue(w)
    <3>1. PICK n \in queue : queue' = queue \ {n} /\ msg' = [msg EXCEPT ![w] = n]
      BY <1>5, <2>1 DEF Dequeue
    <3>2. n # m
      BY <2>1, <3>1 DEF TypeOK
    <3>3. QED BY <3>1, <3>2
  <2>2. CASE ~Dequeue(w)
    BY <2>2 DEF WorkerStep, Load, Claim, Gate, Limit, Requeue, Unclaim, Send, LogFailure,
       HandleRetry, DeadLetter, LogSuccess, Settle, Ack, NobodyThrottled
  <2>3. QED BY <2>1, <2>2
<1>6. QED BY <1>1, <1>2, <1>4, <1>5

LEMMA TrailElsewhere ==
    ASSUME AuditInv, [Next]_vars, NEW m \in Notification, row[m].status # "absent",
           NEW w \in Worker, WorkerStep(w), msg[w] # m, ~(Dequeue(w) /\ msg'[w] = m)
    PROVE  TrailInv(m)'
<1>1. TypeOK /\ TrailInv(m) /\ NobodyThrottled /\ CustodyInv
  BY DEF AuditInv, CustodyInv
<1>2. row'[m].status # "absent" /\ (Custodied(m)' => Custodied(m))
  BY <1>1, RowsStay, CustodyPasses
<1>3. QED BY <1>1, <1>2, WorkerElsewhere, TrailUnmoved

LEMMA TrailWorker ==
    ASSUME AuditInv, [Next]_vars, RowMaxRetries <= MaxRetries,
           NEW m \in Notification, row[m].status # "absent", NEW w \in Worker, WorkerStep(w)
    PROVE  TrailInv(m)'
<1> USE DEF stores, Goto, Hold, Return
<1>1. TypeOK /\ TrailInv(m) /\ Alone(m) /\ NobodyThrottled /\ CustodyInv
  BY DEF AuditInv, CustodyInv
<1>2. CASE msg[w] # m /\ ~(Dequeue(w) /\ msg'[w] = m)
  BY <1>2, TrailElsewhere
<1>3. CASE Dequeue(w) /\ msg'[w] = m
  <2>1. /\ pc[w] = "idle" /\ UNCHANGED <<row, attempts, creator, batch, copy>>
        /\ \E n \in queue : queue' = queue \ {n} /\ 
             \/ pc' = [pc EXCEPT ![w] = "load"] /\ msg' = [msg EXCEPT ![w] = n]
             \/ UNCHANGED <<pc, msg>>
    BY <1>3 DEF Dequeue
  <2>2. msg[w] = NoMsg
    BY <1>1, <2>1 DEF TypeOK
  <2>3. /\ pc' = [pc EXCEPT ![w] = "load"] /\ msg' = [msg EXCEPT ![w] = m] /\ m \in queue
    BY <1>1, <1>3, <2>1, <2>2, DeliveryAssumption DEF TypeOK
  <2>4. ByQueue(m) /\ Custodied(m) /\ \A v \in Worker : ~Holds(v, m)
    BY <1>1, <2>3 DEF ByQueue, Custodied, Alone, ByWorker
  <2>5. \A v \in Worker : Holds(v, m)' => v = w /\ pc'[v] = "load"
    BY <1>1, <2>3, <2>4 DEF Holds, TypeOK
  <2>6. FailedUpTo(m, row[m].retryCount) /\ row[m].retryCount < MaxRetries
    BY <1>1, <2>4 DEF TrailInv
  <2>7. QED BY <1>1, <2>1, <2>5, <2>6 DEF TrailInv, Orderly, FailedUpTo
<1>4. CASE msg[w] = m /\ pc[w] \in {"load", "claim", "gate", "limit", "send"}
  <2>1. Holds(w, m) /\ pc[w] \notin Recorded
    BY <1>4 DEF Holds, Holding, Recorded
  <2>2. pc[w] # "load" => copy[w].retryCount = row[m].retryCount
    BY <1>1, <2>1 DEF TrailInv
  <2>3. /\ UNCHANGED <<msg, queue, creator, batch, attempts>>
        /\ \A v \in Worker : v # w => pc'[v] = pc[v] /\ copy'[v] = copy[v]
    BY <1>1, <1>4 DEF WorkerStep, Dequeue, Load, Claim, Gate, Limit, Requeue, Unclaim, Send,
       LogFailure, HandleRetry, DeadLetter, LogSuccess, Settle, Ack, TypeOK
  <2>4. row'[m].retryCount = row[m].retryCount
    BY <1>1, <1>4, <2>2 DEF WorkerStep, Dequeue, Load, Claim, Gate, Limit, Requeue, Unclaim, Send,
       LogFailure, HandleRetry, DeadLetter, LogSuccess, Settle, Ack, Save, TypeOK
  <2>5. Holds(w, m)' => pc'[w] # "load" /\ pc'[w] # "settle" /\ copy'[w].retryCount = row[m].retryCount
    <3>1. CASE Load(w)
      <4>1. WithStatus(row[m], "processing").retryCount = row[m].retryCount
        BY <1>1, CountFacts DEF TypeOK, Status
      <4>2. QED BY <1>1, <1>4, <3>1, <4>1 DEF Load, Holds, Holding, TypeOK
    <3>2. CASE Claim(w) \/ Gate(w) \/ Limit(w) \/ Send(w)
      BY <1>1, <1>4, <2>2, <3>2 DEF Claim, Gate, Limit, Send, Holds, Holding, TypeOK
    <3>3. QED
      BY <1>4, <3>1, <3>2 DEF WorkerStep, Dequeue, Requeue, Unclaim, LogFailure, HandleRetry,
         DeadLetter, LogSuccess, Settle, Ack
  <2>6. QED BY <2>1, <2>3, <2>4, <2>5, TrailMoves
<1>5. CASE msg[w] = m /\ (LogFailure(w) \/ LogSuccess(w))
  BY <1>5, TrailGrows
<1>6. CASE msg[w] = m /\ HandleRetry(w)
  BY <1>6, TrailRetries
<1>7. CASE msg[w] = m /\ Settle(w)
  <2>1. Holds(w, m)
    BY <1>7 DEF Settle, Holds, Holding
  <2>2. /\ ~ByQueue(m) /\ ~ByCreator(m) /\ ~ByPoller(m) /\ ~Parked(m)
        /\ \A v \in Worker : Holds(v, m) => v = w
    BY <1>1, <2>1, HolderIsAlone
  <2>3. ~Parked(m)'
    <3>1. \A v \in Worker : HandleRetry(v) /\ msg[v] = m => Holds(v, m) /\ v # w
      BY <1>7 DEF HandleRetry, Settle, Holds, Holding
    <3>2. QED BY <1>1, <2>2, <3>1, ParkedStep
  <2>4. ~Custodied(m)'
    BY <1>1, <1>7, <2>2, <2>3
       DEF Settle, Custodied, ByWorker, ByQueue, ByCreator, ByPoller, Holds, Holding, TypeOK
  <2>5. attempts'[m] = attempts[m] /\ row'[m].status # "absent"
    BY <1>1, <1>7, RowsStay DEF Settle
  <2>6. QED BY <1>1, <2>4, <2>5, TrailClosed
<1>8. CASE msg[w] = m /\ (DeadLetter(w) \/ Ack(w))
  <2>1. \A v \in Worker : /\ Holds(v, m)' <=> Holds(v, m)
                          /\ Holds(v, m) => pc'[v] = pc[v] /\ copy'[v] = copy[v]
    BY <1>1, <1>8, DeliveryAssumption DEF DeadLetter, Ack, Holds, Holding, TypeOK
  <2>2. attempts' = attempts /\ row' = row
    BY <1>8 DEF DeadLetter, Ack
  <2>3. Custodied(m)' => Custodied(m)
    BY <1>1, CustodyPasses
  <2>4. QED BY <1>1, <2>1, <2>2, <2>3, TrailUnmoved
<1>9. Dequeue(w) => msg[w] # m
  BY <1>1, DeliveryAssumption DEF Dequeue, TypeOK
<1>10. QED
  BY <1>1, <1>2, <1>3, <1>4, <1>5, <1>6, <1>7, <1>8, <1>9
     DEF WorkerStep, Load, Claim, Gate, Limit, Requeue, Unclaim, Send, NobodyThrottled

\* The clients, the pollers and the API touch neither the record nor the count.
LEMMA TrailByOthers ==
    ASSUME AuditInv, [Next]_vars, NEW m \in Notification, row[m].status # "absent",
           \/ \E n \in Notification : Create(n) \/ CreatorStep(n) \/ Cancel(n)
           \/ CreateBatch \/ CancelBatch \/ \E p \in Poller : PollerStep(p)
           \/ ApiCrash \/ UNCHANGED vars
    PROVE  TrailInv(m)'
<1> USE DEF stores, workers
<1>1. TypeOK /\ TrailInv(m) /\ NobodyThrottled /\ CustodyInv
  BY DEF AuditInv, CustodyInv
<1>2. row'[m].status # "absent" /\ (Custodied(m)' => Custodied(m))
  BY <1>1, RowsStay, CustodyPasses
<1>3. UNCHANGED <<attempts, pc, msg, copy>>
  BY DEF Create, CreatorStep, MarkQueued, EnqueueCreated, Cancel, CreateBatch, CancelBatch,
         PollerStep, Poll, EnqueuePolled, ApiCrash, vars
<1> DEFINE Same == row'[m].retryCount = row[m].retryCount
<1>4. \A S \in SUBSET Notification, s \in Status : row' = SetStatus(S, s) => Same
  BY <1>1, CountFacts DEF SetStatus, TypeOK
<1>5. Same
  <2>1. ASSUME NEW n \in Notification, Create(n) PROVE Same
    BY <1>1, <2>1 DEF Create, TypeOK
  <2>2. ASSUME NEW n \in Notification, CreatorStep(n) PROVE Same
    <3>1. WithStatus(row[n], "queued").retryCount = row[n].retryCount
      BY <1>1, CountFacts DEF TypeOK, Status
    <3>2. QED BY <1>1, <2>2, <3>1 DEF CreatorStep, MarkQueued, EnqueueCreated, Save, TypeOK
  <2>3. ASSUME NEW n \in Notification, Cancel(n) PROVE Same
    BY <1>4, <2>3 DEF Cancel, Status
  <2>4. CASE CreateBatch
    BY <1>1, <2>4 DEF CreateBatch, TypeOK
  <2>5. CASE CancelBatch
    BY <1>4, <2>5, DeliveryAssumption DEF CancelBatch, Status
  <2>6. ASSUME NEW p \in Poller, Poll(p) PROVE Same
    BY <1>4, <2>6 DEF Poll, Status
  <2>7. ASSUME UNCHANGED row PROVE Same
    BY <2>7
  <2>8. QED
    BY <2>1, <2>2, <2>3, <2>4, <2>5, <2>6, <2>7
       DEF PollerStep, EnqueuePolled, ApiCrash, vars
<1>6. \A w \in Worker : Holds(w, m)' <=> Holds(w, m)
  BY <1>3 DEF Holds
<1>7. QED BY <1>1, <1>2, <1>3, <1>5, <1>6, TrailUnmoved

LEMMA TrailCrashes ==
    ASSUME AuditInv, [Next]_vars, NEW m \in Notification, row[m].status # "absent",
           NEW h \in Host, Crash(h)
    PROVE  TrailInv(m)'
<1>1. TypeOK /\ TrailInv(m) /\ Alone(m) /\ NobodyThrottled /\ CustodyInv
  BY DEF AuditInv, CustodyInv
<1>2. Custodied(m)' => Custodied(m)
  BY <1>1, CustodyPasses
<1>3. UNCHANGED <<row, attempts, queue, creator>>
  BY DEF Crash, stores
<1>4. \A w \in Worker : Holds(w, m)' => Holds(w, m) /\ pc'[w] = pc[w] /\ copy'[w] = copy[w]
  BY <1>1 DEF Crash, Holds, Holding, TypeOK
<1>5. \A p \in Poller : m \in batch'[p] => m \in batch[p]
  BY DEF Crash
<1>6. ASSUME NEW w \in Worker, Holds(w, m), Custodied(m)' PROVE Holds(w, m)'
  <2>1. /\ ~ByQueue(m) /\ ~ByCreator(m) /\ ~ByPoller(m) /\ ~Parked(m)
        /\ \A v \in Worker : Holds(v, m) => v = w
    BY <1>1, <1>6, HolderIsAlone
  <2>2. ByWorker(m)'
    BY <1>3, <1>5, <1>6, <2>1 DEF Custodied, ByQueue, ByCreator, ByPoller, Parked, RetryReady
  <2>3. QED BY <1>4, <2>1, <2>2 DEF ByWorker
<1>7. QED BY <1>1, <1>2, <1>3, <1>4, <1>6 DEF TrailInv, Orderly, FailedUpTo

LEMMA TrailStep ==
    ASSUME AuditInv, [Next]_vars, RowMaxRetries <= MaxRetries, NEW m \in Notification
    PROVE  TrailInv(m)'
<1>1. TypeOK /\ TrailInv(m) /\ CustodyInv /\ AbsentIsUnknown
  BY DEF AuditInv, CustodyInv
<1>2. CASE row[m].status # "absent"
  <2>1. ASSUME NEW w \in Worker, WorkerStep(w) PROVE TrailInv(m)'
    BY <1>2, <2>1, TrailWorker
  <2>2. ASSUME NEW h \in Host, Crash(h) PROVE TrailInv(m)'
    BY <1>2, <2>2, TrailCrashes
  <2>3. QED BY <1>2, <2>1, <2>2, TrailByOthers DEF Next
<1>3. CASE row[m].status = "absent"
  <2>1. Unknown(m) /\ attempts[m] = {}
    BY <1>1, <1>3 DEF AbsentIsUnknown, TrailInv
  <2>2. attempts'[m] = {}
    <3>1. ASSUME NEW w \in Worker, WorkerStep(w) PROVE attempts'[m] = attempts[m]
      BY <1>1, <2>1, <3>1
         DEF WorkerStep, Dequeue, Load, Claim, Gate, Limit, Requeue, Unclaim, Send, LogFailure,
             HandleRetry, DeadLetter, LogSuccess, Settle, Ack, Record, TypeOK, Unknown, stores
    <3>2. CASE UNCHANGED attempts
      BY <2>1, <3>2
    <3>3. QED
      BY <2>1, <3>1, <3>2
         DEF Next, Create, CreatorStep, MarkQueued, EnqueueCreated, Cancel, CreateBatch,
             CancelBatch, PollerStep, Poll, EnqueuePolled, Crash, ApiCrash, vars, stores
  <2>3. CASE row'[m].status = "absent"
    <3>1. Unknown(m)'
      BY <1>1, <2>3, AbsentStep DEF AbsentIsUnknown
    <3>2. ~Custodied(m)'
      BY <2>3, <3>1 DEF Unknown, Custodied, ByWorker, Holds, Parked, RetryReady
    <3>3. QED BY <1>1, <1>3, <2>1, <2>2, <3>2, TrailClosed
  <2>4. CASE row'[m].status # "absent"
    <3>1. row'[m].retryCount = 0 /\ UNCHANGED msg
      <4>1. Create(m) \/ (CreateBatch /\ m \in Batched)
        BY <1>1, <1>3, <2>4, RowAppears
      <4>2. NewRow("pending").retryCount = 0 /\ NewRow("scheduled").retryCount = 0
            /\ NewRow("queued").retryCount = 0
        BY DEF NewRow
      <4>3. QED BY <1>1, <4>1, <4>2 DEF Create, CreateBatch, TypeOK, workers
    <3>2. \A w \in Worker : ~Holds(w, m)'
      BY <2>1, <3>1 DEF Unknown, Holds
    <3>3. QED BY <2>2, <2>4, <3>1, <3>2, DeliveryAssumption DEF TrailInv, Orderly, FailedUpTo
  <2>5. QED BY <2>3, <2>4
<1>4. QED BY <1>2, <1>3

LEMMA InitAudit == Init => AuditInv
<1>1. ASSUME Init, NEW n \in Notification PROVE TrailInv(n)
  <2>1. attempts[n] = {} /\ row[n].retryCount = 0 /\ \A w \in Worker : pc[w] = "idle"
    BY <1>1 DEF Init, Blank, NewRow
  <2>2. QED BY <2>1, DeliveryAssumption DEF TrailInv, Orderly, FailedUpTo, Holds, Holding
<1>2. Init => NobodyThrottled
  BY DEF Init, NobodyThrottled
<1>3. QED BY <1>1, <1>2, InitCustody DEF AuditInv

LEMMA AuditStep ==
    ASSUME "resend" \notin Faults, "throttle" \notin Faults, RowMaxRetries <= MaxRetries
    PROVE  AuditInv /\ [Next]_vars => AuditInv'
<1> SUFFICES ASSUME AuditInv, [Next]_vars PROVE AuditInv'
  OBVIOUS
<1>1. CustodyInv' /\ NobodyThrottled'
  BY CustodyStep, ThrottleStep DEF AuditInv, CustodyInv
<1>2. QED BY <1>1, TrailStep DEF AuditInv

(***************************************************************************)
(* The audit trail is numbered truthfully whatever fails, also when calls  *)
(* of the database and of Redis are lost and processes stop between an     *)
(* attempt and its record: no number twice, none past the budget, nothing  *)
(* after a success.  Only the late write-back of a throttled worker and a  *)
(* retransmitted write could break it, and a configured limit below the    *)
(* rows'.                                                                  *)
(***************************************************************************)
THEOREM TrailIsTrue ==
    ASSUME "resend" \notin Faults, "throttle" \notin Faults, RowMaxRetries <= MaxRetries
    PROVE  Spec => []AttemptsInOrder
<1>1. AuditInv /\ [Next]_vars => AuditInv'
  BY AuditStep
<1>2. AuditInv => AttemptsInOrder
  BY DEF AuditInv, TrailInv, Orderly, AttemptsInOrder
<1>3. QED BY InitAudit, <1>1, <1>2, PTL DEF Spec

-----------------------------------------------------------------------------
(* The inductive invariant behind RestIsAccountedFor.                      *)

\* What the row of a notification says until a worker has claimed it.
Unclaimed == {"pending", "queued", "cancelled"}

Closed(n) == Delivered(n) \/ DeadLettered(n) \/ Cancelled(n)

BooksInv(n) ==
    /\ ByQueue(n) \/ ByCreator(n) \/ ByPoller(n) => row[n].status \in Unclaimed
    /\ \A w \in Worker : Holds(w, n) =>
         IF pc[w] \in {"load", "claim"} THEN row[n].status \in Unclaimed
         ELSE row[n].status = "processing"
    /\ \A w \in Worker : Holds(w, n) /\ pc[w] \in {"logSuccess", "settle"} =>
         accepted[n] = 1
    /\ \A w \in Worker : Holds(w, n) /\ pc[w] = "settle" =>
         [number |-> copy[w].retryCount + 1, ok |-> TRUE] \in attempts[n]
    /\ \A w \in Worker : Burying(w, n) =>
         row[n].status = "failed" /\ row[n].retryCount = MaxRetries
    /\ row[n].status # "absent" /\ ~Custodied(n) /\ (\A w \in Worker : ~Burying(w, n))
         => Closed(n)

LedgerInv == AuditInv /\ OutcomeInv /\ \A n \in Notification : BooksInv(n)

LEMMA StatusFacts ==
    /\ \A s \in Status : NewRow(s).status = s
    /\ \A r \in Row, s \in Status : WithStatus(r, s).status = s
    /\ \A r, b : FailedOnce(r, b).status = "failed" /\ FailedOnce(r, b).nextRetry = b
  BY DEF NewRow, WithStatus, FailedOnce, Row

\* A step that is not about the notification, or that hands it from the API or a
\* poller to the queue.
LEMMA BooksUnmoved ==
    ASSUME NEW m \in Notification, BooksInv(m), row[m].status # "absent",
           row'[m] = row[m], attempts'[m] = attempts[m], accepted'[m] = accepted[m],
           dlq'[m] = dlq[m],
           ByQueue(m)' \/ ByCreator(m)' \/ ByPoller(m)'
             <=> ByQueue(m) \/ ByCreator(m) \/ ByPoller(m),
           \A w \in Worker : /\ Holds(w, m)' <=> Holds(w, m)
                             /\ Burying(w, m)' <=> Burying(w, m)
                             /\ Holds(w, m) => pc'[w] = pc[w] /\ copy'[w] = copy[w]
    PROVE  BooksInv(m)'
<1>1. Parked(m)' <=> Parked(m)
  BY DEF Parked, RetryReady
<1>2. ByWorker(m)' <=> ByWorker(m)
  BY DEF ByWorker
<1>3. Custodied(m)' <=> Custodied(m)
  BY <1>1, <1>2 DEF Custodied
<1>4. Closed(m)' <=> Closed(m)
  BY DEF Closed, Delivered, DeadLettered, Cancelled
<1>5. QED BY <1>3, <1>4 DEF BooksInv

\* Whoever has a notification other than a worker has it alone and undecided.
LEMMA WaitingIsAlone ==
    ASSUME NEW m \in Notification, Alone(m), Decided(m),
           ByQueue(m) \/ ByCreator(m) \/ ByPoller(m) \/ Parked(m)
    PROVE  /\ Undecided(m)
           /\ \A w \in Worker : ~Holds(w, m) /\ ~Burying(w, m)
  BY DEF Alone, Decided, OnlyWorkers, ByWorker

\* What is known of each notification before a step.
LEMMA LedgerParts ==
    ASSUME LedgerInv, NEW m \in Notification
    PROVE  /\ TypeOK /\ CustodyInv /\ NobodyThrottled
           /\ Alone(m) /\ Decided(m) /\ TrailInv(m) /\ BooksInv(m)
           /\ row[m] \in Row
  BY DEF LedgerInv, AuditInv, OutcomeInv, CustodyInv, TypeOK

\* Cancelling, one notification or several.
LEMMA BooksByCancel ==
    ASSUME LedgerInv, NEW m \in Notification, row[m].status # "absent",
           (\E n \in Notification : Cancel(n)) \/ CancelBatch
    PROVE  BooksInv(m)'
<1> USE DEF stores, workers
<1>1. TypeOK /\ BooksInv(m) /\ Alone(m) /\ Decided(m)
  BY LedgerParts
<1>2. UNCHANGED <<attempts, dlq, queue, processing, creator, batch, pc, msg, copy, accepted>>
  BY DEF Cancel, CancelBatch
<1>3. \A w \in Worker : /\ Holds(w, m)' <=> Holds(w, m)
                        /\ Burying(w, m)' <=> Burying(w, m)
                        /\ pc'[w] = pc[w] /\ copy'[w] = copy[w]
  BY <1>2 DEF Holds, Burying
<1>4. \/ row'[m] = row[m]
      \/ row'[m] = WithStatus(row[m], "cancelled") /\ CanCancel(row[m].status)
  BY DEF Cancel, CancelBatch, SetStatus
<1>5. CASE row'[m] = row[m]
  BY <1>1, <1>2, <1>3, <1>5, BooksUnmoved DEF ByQueue, ByCreator, ByPoller
<1>6. CASE row'[m] = WithStatus(row[m], "cancelled") /\ CanCancel(row[m].status)
  <2>1. row'[m].status = "cancelled"
    BY <1>1, <1>6, StatusFacts DEF TypeOK, Status
  <2>2. row[m].status \in {"pending", "scheduled", "queued"}
    BY <1>6 DEF CanCancel
  <2>3. /\ \A w \in Worker : ~Burying(w, m)
        /\ \A w \in Worker : Holds(w, m) => pc[w] \in {"load", "claim"}
        /\ ~Closed(m)
    BY <1>1, <2>2 DEF BooksInv, Closed, Delivered, DeadLettered, Cancelled
  <2>4. Custodied(m)
    BY <1>1, <2>2, <2>3 DEF BooksInv
  <2>5. ~Custodied(m)' => Undecided(m)
    <3>1. ByWorker(m) \/ ByQueue(m) \/ ByCreator(m) \/ ByPoller(m) => Custodied(m)'
      BY <1>2, <1>3 DEF Custodied, ByWorker, ByQueue, ByCreator, ByPoller
    <3>2. Parked(m) => Undecided(m)
      BY <1>1, WaitingIsAlone
    <3>3. QED BY <2>4, <3>1, <3>2 DEF Custodied
  <2>6. Undecided(m) => Closed(m)'
    BY <1>2, <2>1 DEF Undecided, Closed, Cancelled
  <2>7. QED BY <1>2, <1>3, <2>1, <2>3, <2>5, <2>6 DEF BooksInv, Unclaimed
<1>7. QED BY <1>4, <1>5, <1>6

\* The API call that creates the notification goes on.
LEMMA BooksByCreator ==
    ASSUME LedgerInv, NEW m \in Notification, row[m].status # "absent",
           \E n \in Notification : Create(n) \/ CreatorStep(n),
           Faults = {}
    PROVE  BooksInv(m)'
<1> USE DEF stores, workers
<1>1. TypeOK /\ BooksInv(m) /\ Alone(m) /\ Decided(m)
  BY LedgerParts
<1>2. UNCHANGED <<attempts, dlq, processing, batch, pc, msg, copy, accepted>>
  BY DEF Create, CreatorStep, MarkQueued, EnqueueCreated
<1>3. \A w \in Worker : /\ Holds(w, m)' <=> Holds(w, m)
                        /\ Burying(w, m)' <=> Burying(w, m)
                        /\ pc'[w] = pc[w] /\ copy'[w] = copy[w]
  BY <1>2 DEF Holds, Burying
<1>4. ASSUME row'[m] = row[m],
             ByQueue(m)' \/ ByCreator(m)' \/ ByPoller(m)' <=> ByQueue(m) \/ ByCreator(m) \/ ByPoller(m)
      PROVE  BooksInv(m)'
  BY <1>1, <1>2, <1>3, <1>4, BooksUnmoved
<1>5. ASSUME NEW n \in Notification, Create(n) PROVE BooksInv(m)'
  <2>1. n # m
    BY <1>5 DEF Create
  <2>2. QED BY <1>1, <1>4, <1>5, <2>1 DEF Create, ByQueue, ByCreator, ByPoller, TypeOK
<1>6. ASSUME NEW n \in Notification, MarkQueued(n) PROVE BooksInv(m)'
  <2>1. CASE n # m
    BY <1>1, <1>4, <1>6, <2>1 DEF MarkQueued, Save, ByQueue, ByCreator, ByPoller, TypeOK
  <2>2. CASE n = m
    <3>1. ByCreator(m) /\ ByCreator(m)'
      BY <1>1, <1>6, <2>2 DEF MarkQueued, ByCreator, TypeOK
    <3>2. \A w \in Worker : ~Holds(w, m)' /\ ~Burying(w, m)'
      BY <1>1, <1>3, <3>1, WaitingIsAlone
    <3>3. row'[m].status = "queued"
      <4>1. row' = [row EXCEPT ![m] = WithStatus(row[m], "queued")]
        BY <1>6, <2>2 DEF MarkQueued, Save
      <4>2. WithStatus(row[m], "queued").status = "queued"
        BY <1>1, StatusFacts DEF TypeOK, Status
      <4>3. QED BY <1>1, <4>1, <4>2 DEF TypeOK
    <3>4. QED BY <3>1, <3>2, <3>3 DEF BooksInv, Unclaimed, Custodied
  <2>3. QED BY <2>1, <2>2
<1>7. ASSUME NEW n \in Notification, EnqueueCreated(n) PROVE BooksInv(m)'
  <2>1. row' = row /\ (n # m => creator'[m] = creator[m] /\ (m \in queue' <=> m \in queue))
    BY <1>1, <1>7 DEF EnqueueCreated, Push, TypeOK
  <2>2. n = m => ByCreator(m) /\ ByQueue(m)'
    BY <1>1, <1>7 DEF EnqueueCreated, Push, ByCreator, ByQueue
  <2>3. QED BY <1>2, <1>4, <2>1, <2>2 DEF ByQueue, ByCreator, ByPoller
<1>8. QED BY <1>5, <1>6, <1>7 DEF CreatorStep

LEMMA BooksByBatch ==
    ASSUME LedgerInv, NEW m \in Notification, row[m].status # "absent", CreateBatch
    PROVE  BooksInv(m)'
<1>1. TypeOK /\ BooksInv(m)
  BY LedgerParts
<1>2. m \notin Batched
  BY DEF CreateBatch
<1>3. row'[m] = row[m] /\ creator'[m] = creator[m]
      /\ UNCHANGED <<attempts, dlq, queue, batch, pc, msg, copy, accepted>>
  BY <1>1, <1>2 DEF CreateBatch, stores, workers, TypeOK
<1>4. \A w \in Worker : /\ Holds(w, m)' <=> Holds(w, m)
                        /\ Burying(w, m)' <=> Burying(w, m)
                        /\ pc'[w] = pc[w] /\ copy'[w] = copy[w]
  BY <1>3 DEF Holds, Burying
<1>5. QED BY <1>1, <1>3, <1>4, BooksUnmoved DEF ByQueue, ByCreator, ByPoller

LEMMA BooksByPoller ==
    ASSUME LedgerInv, NEW m \in Notification, row[m].status # "absent",
           NEW p \in Poller, PollerStep(p), Faults = {}
    PROVE  BooksInv(m)'
<1> USE DEF stores, workers
<1>1. TypeOK /\ BooksInv(m) /\ Alone(m) /\ Decided(m)
  BY LedgerParts
<1>2. UNCHANGED <<attempts, dlq, processing, creator, pc, msg, copy, accepted>>
  BY DEF PollerStep, Poll, EnqueuePolled
<1>3. \A w \in Worker : /\ Holds(w, m)' <=> Holds(w, m)
                        /\ Burying(w, m)' <=> Burying(w, m)
                        /\ pc'[w] = pc[w] /\ copy'[w] = copy[w]
  BY <1>2 DEF Holds, Burying
<1>4. ASSUME row'[m] = row[m],
             ByQueue(m)' \/ ByCreator(m)' \/ ByPoller(m)' <=> ByQueue(m) \/ ByCreator(m) \/ ByPoller(m)
      PROVE  BooksInv(m)'
  BY <1>1, <1>2, <1>3, <1>4, BooksUnmoved
<1>5. CASE Poll(p)
  <2>1. PICK S \in SUBSET {n \in Notification : Selects(p, n)} :
           row' = SetStatus(S, "queued") /\ batch' = [batch EXCEPT ![p] = S]
    BY <1>5 DEF Poll
  <2>2. batch[p] = {} /\ UNCHANGED queue
    BY <1>5 DEF Poll
  <2>3. CASE m \notin S
    <3>1. row'[m] = row[m]
      BY <2>1, <2>3 DEF SetStatus
    <3>2. \A q \in Poller : m \in batch'[q] <=> m \in batch[q]
      BY <1>1, <2>1, <2>2, <2>3 DEF TypeOK
    <3>3. QED BY <1>2, <1>4, <2>2, <3>1, <3>2 DEF ByQueue, ByCreator, ByPoller
  <2>4. CASE m \in S
    <3>1. Parked(m)
      BY <2>1, <2>4 DEF Selects, Parked, Poller
    <3>2. \A w \in Worker : ~Holds(w, m)' /\ ~Burying(w, m)'
      BY <1>1, <1>3, <3>1, WaitingIsAlone
    <3>3. row'[m].status = "queued"
      <4>1. row'[m] = WithStatus(row[m], "queued")
        BY <2>1, <2>4 DEF SetStatus
      <4>2. QED BY <1>1, <4>1, StatusFacts DEF TypeOK, Status
    <3>4. ByPoller(m)'
      BY <1>1, <2>1, <2>4 DEF ByPoller, TypeOK
    <3>5. QED BY <3>2, <3>3, <3>4 DEF BooksInv, Unclaimed, Custodied
  <2>5. QED BY <2>3, <2>4
<1>6. ASSUME NEW n \in Notification, EnqueuePolled(p, n) PROVE BooksInv(m)'
  <2>1. /\ row' = row /\ queue' = queue \cup {n} /\ batch' = [batch EXCEPT ![p] = @ \ {n}]
        /\ n \in batch[p]
    BY <1>6 DEF EnqueuePolled, Push
  <2>2. n # m => (m \in queue' <=> m \in queue) /\ \A q \in Poller : m \in batch'[q] <=> m \in batch[q]
    BY <1>1, <2>1 DEF TypeOK
  <2>3. QED BY <1>2, <1>4, <2>1, <2>2 DEF ByQueue, ByCreator, ByPoller
<1>7. QED BY <1>5, <1>6 DEF PollerStep

LEMMA BooksElsewhere ==
    ASSUME LedgerInv, NEW m \in Notification, row[m].status # "absent", Faults = {},
           NEW w \in Worker, WorkerStep(w), msg[w] # m, ~(Dequeue(w) /\ msg'[w] = m)
    PROVE  BooksInv(m)'
<1>1. TypeOK /\ NobodyThrottled /\ BooksInv(m)
  BY LedgerParts
<1>2. QED BY <1>1, WorkerElsewhere, BooksUnmoved DEF ByQueue, ByCreator, ByPoller

\* A step of the worker that has the notification, by where it goes.
LEMMA BooksMoves ==
    ASSUME LedgerInv, NEW m \in Notification, NEW w \in Worker,
           Holds(w, m) \/ Burying(w, m),
           UNCHANGED <<msg, queue, creator, batch>>,
           \A v \in Worker : v # w => pc'[v] = pc[v] /\ copy'[v] = copy[v],
           Holds(w, m)' => /\ IF pc'[w] \in {"load", "claim"} THEN row'[m].status \in Unclaimed
                              ELSE row'[m].status = "processing"
                           /\ pc'[w] \in {"logSuccess", "settle"} => accepted'[m] = 1
                           /\ pc'[w] = "settle" =>
                                [number |-> copy'[w].retryCount + 1, ok |-> TRUE] \in attempts'[m],
           Burying(w, m)' => row'[m].status = "failed" /\ row'[m].retryCount = MaxRetries,
           Holds(w, m)' \/ Burying(w, m)' \/ Parked(m)' \/ Closed(m)'
    PROVE  BooksInv(m)'
<1>1. Alone(m) /\ Decided(m)
  BY LedgerParts
<1>2. /\ ~ByQueue(m) /\ ~ByCreator(m) /\ ~ByPoller(m)
      /\ \A v \in Worker : Holds(v, m) \/ Burying(v, m) => v = w
  BY <1>1 DEF Alone, Decided, OnlyWorkers, ByWorker
<1>3. /\ ~ByQueue(m)' /\ ~ByCreator(m)' /\ ~ByPoller(m)'
      /\ \A v \in Worker : Holds(v, m)' \/ Burying(v, m)' => v = w
  BY <1>2 DEF ByQueue, ByCreator, ByPoller, Holds, Burying
<1>4. QED BY <1>3 DEF BooksInv, Custodied, ByWorker

\* Taking it from the queue.
LEMMA BooksByDequeue ==
    ASSUME LedgerInv, NEW m \in Notification, NEW w \in Worker, Dequeue(w), msg'[w] = m
    PROVE  BooksInv(m)'
<1>1. TypeOK /\ Alone(m) /\ Decided(m) /\ BooksInv(m)
  BY LedgerParts
<1>2. msg[w] = NoMsg
  BY <1>1 DEF Dequeue, TypeOK
<1>3. /\ m \in queue /\ row' = row
      /\ pc' = [pc EXCEPT ![w] = "load"] /\ msg' = [msg EXCEPT ![w] = m]
  BY <1>1, <1>2, DeliveryAssumption DEF Dequeue, Goto, TypeOK
<1>4. queue' = queue \ {m} /\ UNCHANGED <<creator, batch>>
  <2>1. PICK n \in queue : queue' = queue \ {n} /\ (msg' = [msg EXCEPT ![w] = n] \/ UNCHANGED msg)
    BY DEF Dequeue
  <2>2. n = m
    BY <1>1, <1>2, <2>1, DeliveryAssumption DEF TypeOK
  <2>3. QED BY <2>1, <2>2 DEF Dequeue
<1>5. row[m].status \in Unclaimed /\ ~ByCreator(m) /\ ~ByPoller(m)
      /\ \A v \in Worker : ~Holds(v, m) /\ ~Burying(v, m)
  BY <1>1, <1>3 DEF BooksInv, ByQueue, Alone, Decided, OnlyWorkers, ByWorker
<1>6. /\ ~ByQueue(m)' /\ ~ByCreator(m)' /\ ~ByPoller(m)'
      /\ \A v \in Worker : ~Burying(v, m)' /\ (Holds(v, m)' => v = w)
      /\ Holds(w, m)' /\ pc'[w] = "load"
  BY <1>1, <1>3, <1>4, <1>5 DEF ByQueue, ByCreator, ByPoller, Holds, Burying, Holding, TypeOK
<1>7. QED BY <1>3, <1>5, <1>6 DEF BooksInv, Custodied, ByWorker

\* From the load to the answer of the provider.
LEMMA BooksByTry ==
    ASSUME LedgerInv, NEW m \in Notification, row[m].status # "absent", Faults = {},
           NEW w \in Worker, msg[w] = m,
           Load(w) \/ Claim(w) \/ Gate(w) \/ Limit(w) \/ Send(w) \/ LogFailure(w) \/ LogSuccess(w)
    PROVE  BooksInv(m)'
<1> USE DEF stores, Goto, Hold, Return
<1>1. TypeOK /\ Alone(m) /\ Decided(m) /\ BooksInv(m) /\ ClaimsProcessing
  BY LedgerParts DEF CustodyInv
<1>2. Holds(w, m)
  BY DEF Load, Claim, Gate, Limit, Send, LogFailure, LogSuccess, Holds, Holding
<1>3. /\ UNCHANGED <<msg, queue, creator, batch, dlq>>
      /\ \A v \in Worker : v # w => pc'[v] = pc[v] /\ copy'[v] = copy[v]
  BY <1>1 DEF Load, Claim, Gate, Limit, Send, LogFailure, LogSuccess, TypeOK
<1>4. IF pc[w] \in {"load", "claim"} THEN row[m].status \in Unclaimed
      ELSE row[m].status = "processing"
  BY <1>1, <1>2 DEF BooksInv
<1>5. pc[w] # "logSuccess" => Undecided(m)
  <2>1. pc[w] # "settle"
    BY DEF Load, Claim, Gate, Limit, Send, LogFailure, LogSuccess
  <2>2. QED BY <1>1, <1>2, <2>1, HolderDecides
<1>6. CASE Load(w)
  <2>1. row' = row /\ accepted' = accepted /\ pc[w] = "load"
    BY <1>6 DEF Load
  <2>2. CASE pc' = [pc EXCEPT ![w] = "claim"]
    <3>1. pc'[w] = "claim" /\ Holds(w, m)' /\ ~Burying(w, m)'
      BY <1>1, <1>3, <2>2 DEF Holds, Holding, Burying, TypeOK
    <3>2. QED BY <1>2, <1>3, <1>4, <2>1, <3>1, BooksMoves
  <2>3. CASE pc' = [pc EXCEPT ![w] = "ack"] /\ IsFinal(row[m].status)
    <3>1. ~Holds(w, m)' /\ ~Burying(w, m)'
      BY <1>1, <2>3 DEF Holds, Holding, Burying, TypeOK
    <3>2. row[m].status = "cancelled"
      BY <1>4, <2>1, <2>3 DEF Unclaimed, IsFinal
    <3>3. Closed(m)'
      BY <1>3, <1>5, <2>1, <3>2 DEF Undecided, Closed, Cancelled
    <3>4. QED BY <1>2, <1>3, <3>1, <3>3, BooksMoves
  <2>4. QED BY <1>6, <2>2, <2>3 DEF Load
<1>7. CASE Claim(w)
  <2>1. row'[m] = copy[w] /\ copy[w].status = "processing" /\ pc' = [pc EXCEPT ![w] = "gate"]
    BY <1>1, <1>7 DEF Claim, ClaimsProcessing, TypeOK
  <2>2. pc'[w] = "gate" /\ Holds(w, m)' /\ ~Burying(w, m)'
    BY <1>1, <1>3, <2>1 DEF Holds, Holding, Burying, TypeOK
  <2>3. QED BY <1>2, <1>3, <2>1, <2>2, BooksMoves
<1>8. CASE Gate(w) \/ Limit(w) \/ LogFailure(w)
  <2>1. row'[m] = row[m] /\ pc'[w] \in {"limit", "retry", "send"}
    BY <1>1, <1>8 DEF Gate, Limit, LogFailure, TypeOK
  <2>2. Holds(w, m)' /\ ~Burying(w, m)'
    BY <1>3, <2>1 DEF Holds, Holding, Burying
  <2>3. row'[m].status = "processing"
    BY <1>4, <1>8, <2>1 DEF Gate, Limit, LogFailure
  <2>4. pc'[w] \notin {"load", "claim"} /\ pc'[w] \notin {"logSuccess", "settle"}
    BY <2>1
  <2>5. QED BY <1>2, <1>3, <2>2, <2>3, <2>4, BooksMoves
<1>9. CASE Send(w)
  <2>1. /\ row' = row /\ pc'[w] \in {"logSuccess", "logFailure"}
        /\ pc'[w] = "logSuccess" => accepted'[m] = accepted[m] + 1
    BY <1>1, <1>9 DEF Send, TypeOK
  <2>2. Holds(w, m)' /\ ~Burying(w, m)'
    BY <1>3, <2>1 DEF Holds, Holding, Burying
  <2>3. row'[m].status = "processing" /\ accepted[m] = 0
    BY <1>4, <1>5, <1>9, <2>1 DEF Send, Undecided
  <2>4. /\ pc'[w] \notin {"load", "claim"} /\ pc'[w] # "settle"
        /\ pc'[w] \in {"logSuccess", "settle"} => accepted'[m] = 1
    BY <2>1, <2>3
  <2>5. QED BY <1>2, <1>3, <2>2, <2>3, <2>4, BooksMoves
<1>10. CASE LogSuccess(w)
  <2>1. /\ row' = row /\ accepted' = accepted /\ copy' = copy /\ pc'[w] = "settle"
        /\ [number |-> copy[w].retryCount + 1, ok |-> TRUE] \in attempts'[m]
    BY <1>1, <1>10 DEF LogSuccess, Record, TypeOK
  <2>2. Holds(w, m)' /\ ~Burying(w, m)'
    BY <1>3, <2>1 DEF Holds, Holding, Burying
  <2>3. row[m].status = "processing" /\ accepted[m] = 1
    BY <1>1, <1>2, <1>4, <1>10 DEF LogSuccess, BooksInv
  <2>4. QED BY <1>2, <1>3, <2>1, <2>2, <2>3, BooksMoves
<1>11. QED BY <1>6, <1>7, <1>8, <1>9, <1>10

\* handleRetry and the dead-letter entry.
LEMMA BooksByRetry ==
    ASSUME LedgerInv, NEW m \in Notification, Faults = {}, RowMaxRetries = MaxRetries,
           NEW w \in Worker, msg[w] = m, HandleRetry(w) \/ DeadLetter(w)
    PROVE  BooksInv(m)'
<1> USE DEF stores, Goto, Hold, Return
<1>1. TypeOK /\ Alone(m) /\ Decided(m) /\ BooksInv(m) /\ TrailInv(m)
  BY LedgerParts
<1>2. CASE HandleRetry(w)
  <2>1. Holds(w, m) /\ pc[w] = "retry"
    BY <1>2 DEF HandleRetry, Holds, Holding
  <2>2. /\ UNCHANGED <<msg, queue, creator, batch>>
        /\ \A v \in Worker : v # w => pc'[v] = pc[v] /\ copy'[v] = copy[v]
    BY <1>1, <1>2 DEF HandleRetry, TypeOK
  <2>3. copy[w].retryCount = row[m].retryCount /\ row[m].retryCount < MaxRetries
    BY <1>1, <2>1, HolderIsAlone DEF TrailInv
  <2>4. row[m].retryCount \in Nat /\ MaxRetries \in Nat
    BY <1>1, DeliveryAssumption DEF TypeOK, Row
  <2>5. CASE copy[w].retryCount + 1 >= MaxRetries
    <3>1. row'[m] = FailedOnce(copy[w], copy[w].nextRetry) /\ pc'[w] = "deadletter"
      BY <1>1, <1>2, <2>5 DEF HandleRetry, Save, TypeOK
    <3>2. row'[m].status = "failed" /\ row'[m].retryCount = copy[w].retryCount + 1
      BY <3>1 DEF FailedOnce
    <3>3. row'[m].retryCount = MaxRetries
      BY <2>3, <2>4, <2>5, <3>2
    <3>4. Burying(w, m)' /\ ~Holds(w, m)'
      BY <2>2, <3>1 DEF Burying, Holds, Holding
    <3>5. QED BY <2>1, <2>2, <3>2, <3>3, <3>4, BooksMoves
  <2>6. CASE ~(copy[w].retryCount + 1 >= MaxRetries)
    <3>1. row'[m] = FailedOnce(copy[w], TRUE) /\ pc'[w] = "ack"
      BY <1>1, <1>2, <2>6 DEF HandleRetry, Save, TypeOK
    <3>2. /\ row'[m].status = "failed" /\ row'[m].nextRetry = TRUE
          /\ row'[m].retryCount = copy[w].retryCount + 1
      BY <3>1 DEF FailedOnce
    <3>3. row'[m].retryCount < RowMaxRetries
      BY <2>3, <2>4, <2>6, <3>2
    <3>4. Parked(m)'
      BY <3>2, <3>3 DEF Parked, RetryReady
    <3>5. ~Holds(w, m)' /\ ~Burying(w, m)'
      BY <3>1 DEF Holds, Holding, Burying
    <3>6. QED BY <2>1, <2>2, <3>4, <3>5, BooksMoves
  <2>7. QED BY <2>5, <2>6
<1>3. CASE DeadLetter(w)
  <2>1. Burying(w, m)
    BY <1>3 DEF DeadLetter, Burying
  <2>2. /\ UNCHANGED <<row, accepted, msg, queue, creator, batch>>
        /\ dlq'[m] = dlq[m] + 1 /\ pc'[w] = "ack"
        /\ \A v \in Worker : v # w => pc'[v] = pc[v] /\ copy'[v] = copy[v]
    BY <1>1, <1>3 DEF DeadLetter, TypeOK
  <2>3. Undecided(m) /\ row[m].status = "failed" /\ row[m].retryCount = MaxRetries
    BY <1>1, <2>1 DEF Decided, BooksInv
  <2>4. Closed(m)'
    BY <2>2, <2>3 DEF Undecided, Closed, DeadLettered
  <2>5. ~Holds(w, m)' /\ ~Burying(w, m)'
    BY <2>2 DEF Holds, Holding, Burying
  <2>6. QED BY <2>1, <2>2, <2>4, <2>5, BooksMoves
<1>4. QED BY <1>2, <1>3

\* Marking it delivered.
LEMMA BooksBySettle ==
    ASSUME LedgerInv, NEW m \in Notification, Faults = {}, NEW w \in Worker, msg[w] = m, Settle(w)
    PROVE  BooksInv(m)'
<1> USE DEF stores, Goto, Hold, Return
<1>1. TypeOK /\ Decided(m) /\ BooksInv(m)
  BY LedgerParts
<1>2. Holds(w, m) /\ pc[w] = "settle"
  BY DEF Settle, Holds, Holding
<1>3. /\ UNCHANGED <<msg, queue, creator, batch, attempts, dlq, accepted>>
      /\ \A v \in Worker : v # w => pc'[v] = pc[v] /\ copy'[v] = copy[v]
      /\ row'[m] = WithStatus(copy[w], "delivered") /\ pc'[w] = "ack" /\ copy[w] \in Row
  BY <1>1 DEF Settle, Save, TypeOK
<1>4. row'[m].status = "delivered" /\ row'[m].retryCount = copy[w].retryCount
  BY <1>3, StatusFacts, CountFacts DEF Status
<1>5. /\ accepted[m] = 1 /\ dlq[m] = 0
      /\ [number |-> copy[w].retryCount + 1, ok |-> TRUE] \in attempts[m]
  BY <1>1, <1>2 DEF BooksInv, Decided, Undecided
<1>6. Closed(m)'
  BY <1>3, <1>4, <1>5 DEF Closed, Delivered
<1>7. ~Holds(w, m)' /\ ~Burying(w, m)'
  BY <1>3 DEF Holds, Holding, Burying
<1>8. QED BY <1>2, <1>3, <1>6, <1>7, BooksMoves

LEMMA BooksByWorker ==
    ASSUME LedgerInv, NEW m \in Notification, row[m].status # "absent",
           Faults = {}, RowMaxRetries = MaxRetries, NEW w \in Worker, WorkerStep(w)
    PROVE  BooksInv(m)'
<1>1. TypeOK /\ NobodyThrottled /\ BooksInv(m)
  BY LedgerParts
<1>2. CASE Dequeue(w) /\ msg'[w] = m
  BY <1>2, BooksByDequeue
<1>3. CASE msg[w] # m /\ ~(Dequeue(w) /\ msg'[w] = m)
  BY <1>3, BooksElsewhere
<1>4. CASE msg[w] = m /\ Ack(w)
  <2>1. /\ UNCHANGED <<row, attempts, dlq, queue, creator, batch, accepted, copy>>
        /\ msg' = [msg EXCEPT ![w] = NoMsg] /\ pc' = [pc EXCEPT ![w] = "idle"] /\ pc[w] = "ack"
    BY <1>4 DEF Ack, Goto
  <2>2. \A v \in Worker : /\ Holds(v, m)' <=> Holds(v, m)
                          /\ Burying(v, m)' <=> Burying(v, m)
                          /\ Holds(v, m) => pc'[v] = pc[v] /\ copy'[v] = copy[v]
    BY <1>1, <2>1 DEF Holds, Holding, Burying, TypeOK
  <2>3. QED BY <1>1, <2>1, <2>2, BooksUnmoved DEF ByQueue, ByCreator, ByPoller
<1>5. Dequeue(w) => msg[w] # m
  BY <1>1, DeliveryAssumption DEF Dequeue, TypeOK
<1>6. QED
  BY <1>1, <1>2, <1>3, <1>4, <1>5, BooksByTry, BooksByRetry, BooksBySettle
     DEF WorkerStep, Requeue, Unclaim, NobodyThrottled

LEMMA BooksAtBirth ==
    ASSUME LedgerInv, [Next]_vars, Faults = {}, NEW m \in Notification,
           row[m].status = "absent"
    PROVE  BooksInv(m)'
<1>1. CustodyInv /\ TypeOK /\ Unknown(m)
  BY LedgerParts DEF CustodyInv, AbsentIsUnknown
<1>2. CASE row'[m].status = "absent"
  <2>1. Unknown(m)'
    BY <1>1, <1>2, AbsentStep DEF AbsentIsUnknown
  <2>2. QED BY <1>2, <2>1 DEF BooksInv, Unknown, Holds, Burying
<1>3. CASE row'[m].status # "absent"
  <2>1. Create(m) \/ (CreateBatch /\ m \in Batched)
    BY <1>1, <1>3, RowAppears
  <2>2. /\ UNCHANGED msg /\ ~ByQueue(m)' /\ ~ByPoller(m)'
    BY <1>1, <2>1 DEF Create, CreateBatch, stores, workers, Unknown, ByQueue, ByPoller
  <2>3. \/ ByCreator(m)' /\ row'[m].status \in Unclaimed
        \/ ~ByCreator(m)' /\ row'[m].status = "scheduled"
    <3>1. /\ NewRow("pending").status = "pending" /\ NewRow("queued").status = "queued"
          /\ NewRow("scheduled").status = "scheduled"
      BY DEF NewRow
    <3>2. CASE Create(m)
      BY <1>1, <3>1, <3>2 DEF Create, ByCreator, TypeOK, Unknown, Unclaimed
    <3>3. CASE CreateBatch /\ m \in Batched
      <4>1. PICK later \in SUBSET Batched :
              /\ row'[m] = NewRow(IF m \in later THEN "scheduled" ELSE "queued")
              /\ creator'[m] = IF m \in Batched \ later THEN "enqueue" ELSE creator[m]
        BY <3>3 DEF CreateBatch
      <4>2. QED BY <1>1, <3>1, <3>3, <4>1 DEF ByCreator, Unknown, Unclaimed
    <3>4. QED BY <2>1, <3>2, <3>3
  <2>4. \A w \in Worker : ~Holds(w, m)' /\ ~Burying(w, m)'
    BY <1>1, <2>2 DEF Unknown, Holds, Burying
  <2>5. QED BY <2>2, <2>3, <2>4 DEF BooksInv, Custodied, Parked
<1>4. QED BY <1>2, <1>3

LEMMA InitLedger == Init => LedgerInv
<1>1. ASSUME Init, NEW n \in Notification PROVE BooksInv(n)
  <2>1. /\ row[n].status = "absent" /\ \A w \in Worker : ~Holds(w, n) /\ ~Burying(w, n)
        /\ ~ByQueue(n) /\ ~ByCreator(n) /\ ~ByPoller(n)
    BY <1>1 DEF Init, Blank, NewRow, Holds, Holding, Burying, ByQueue, ByCreator, ByPoller
  <2>2. QED BY <2>1 DEF BooksInv
<1>2. QED BY <1>1, InitAudit, InitOutcome DEF LedgerInv

LEMMA LedgerStep ==
    ASSUME Faults = {}, RowMaxRetries = MaxRetries
    PROVE  LedgerInv /\ [Next]_vars => LedgerInv'
<1> SUFFICES ASSUME LedgerInv, [Next]_vars PROVE LedgerInv'
  OBVIOUS
<1>1. AuditInv' /\ OutcomeInv'
  BY AuditStep, OutcomeStep, DeliveryAssumption DEF LedgerInv
<1>2. ASSUME NEW m \in Notification PROVE BooksInv(m)'
  <2>1. CASE row[m].status = "absent"
    BY <2>1, BooksAtBirth
  <2>2. CASE row[m].status # "absent"
    <3>1. CASE UNCHANGED vars
      <4>1. BooksInv(m)
        BY LedgerParts
      <4>2. QED
        BY <2>2, <3>1, <4>1, BooksUnmoved
           DEF vars, ByQueue, ByCreator, ByPoller, Holds, Burying
    <3>2. CASE Next
      BY <2>2, <3>2, BooksByCreator, BooksByBatch, BooksByCancel, BooksByWorker, BooksByPoller
         DEF Next, Crash, ApiCrash
    <3>3. QED BY <3>1, <3>2
  <2>3. QED BY <2>1, <2>2
<1>3. QED BY <1>1, <1>2 DEF LedgerInv

LEMMA RestIsUncustodied ==
    ASSUME NEW n \in Notification, AtRest(n)
    PROVE  ~Custodied(n) /\ \A w \in Worker : ~Burying(w, n)
  BY DEF AtRest, Carried, Custodians, Custodied, ByWorker, ByQueue, ByCreator, ByPoller

(***************************************************************************)
(* Without failures nothing is left behind: for any number of workers,     *)
(* pollers and notifications, whatever the breaker and the provider        *)
(* answer and whoever cancels, a notification at rest is delivered with    *)
(* its successful attempt on record, dead-lettered after exactly           *)
(* MaxRetries tries, or cancelled and never sent.  The two retry limits    *)
(* must agree.                                                             *)
(***************************************************************************)
THEOREM BooksBalance ==
    ASSUME Faults = {}, RowMaxRetries = MaxRetries
    PROVE  Spec => []RestIsAccountedFor
<1>1. LedgerInv /\ [Next]_vars => LedgerInv'
  BY LedgerStep
<1>2. LedgerInv => RestIsAccountedFor
  BY RestIsUncustodied DEF LedgerInv, BooksInv, Closed, RestIsAccountedFor, AtRest
<1>3. QED BY InitLedger, <1>1, <1>2, PTL DEF Spec

=============================================================================
