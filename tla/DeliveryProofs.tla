--------------------------- MODULE DeliveryProofs ---------------------------
(***************************************************************************)
(* Theorems about Delivery, for any notifications, workers, processes,     *)
(* retry limits and kinds of failure.                                      *)
(***************************************************************************)
EXTENDS Delivery, TLAPS

-----------------------------------------------------------------------------
(* Type correctness                                                        *)

LEMMA RowFacts ==
    /\ Blank \in Row
    /\ \A s \in Status : NewRow(s) \in Row
    /\ \A r \in Row, s \in Status : WithStatus(r, s) \in Row /\ WithStatus(r, s).status = s
  BY DEF Blank, NewRow, Row, Status, WithStatus

LEMMA InitTypeOK == Init => TypeOK
  BY RowFacts, DeliveryAssumption DEF Init, TypeOK, Label, Attempt

LEMMA SetStatusType ==
    ASSUME TypeOK, NEW S \in SUBSET Notification, NEW s \in Status
    PROVE  SetStatus(S, s) \in [Notification -> Row]
  BY RowFacts DEF SetStatus, TypeOK

LEMMA SaveType ==
    ASSUME TypeOK, NEW n \in Notification, NEW r \in Row, Save(n, r)
    PROVE  row' \in [Notification -> Row]
  BY DEF Save, TypeOK

LEMMA RecordType ==
    ASSUME TypeOK, NEW n, NEW a \in Attempt, Record(n, a)
    PROVE  attempts' \in [Notification -> SUBSET Attempt]
  BY DEF Record, TypeOK

LEMMA StepTypeOK == TypeOK /\ [Next]_vars => TypeOK'
<1> SUFFICES ASSUME TypeOK, [Next]_vars PROVE TypeOK'
  OBVIOUS
<1> USE DeliveryAssumption DEF TypeOK, stores, workers
<1>1. ASSUME NEW n \in Notification, Create(n) PROVE TypeOK'
  <2>1. \A s \in {"pending", "scheduled"} : NewRow(s) \in Row
    BY RowFacts DEF Status
  <2>2. QED BY <1>1, <2>1 DEF Create
<1>2. ASSUME NEW n \in Notification, CreatorStep(n) PROVE TypeOK'
  <2>1. WithStatus(row[n], "queued") \in Row
    BY RowFacts DEF Status
  <2>2. CASE MarkQueued(n)
    BY <2>1, <2>2, SaveType DEF MarkQueued
  <2>3. CASE EnqueueCreated(n)
    BY <2>3 DEF EnqueueCreated, Push
  <2>4. QED BY <1>2, <2>2, <2>3 DEF CreatorStep
<1>3. ASSUME NEW n \in Notification, Cancel(n) PROVE TypeOK'
  <2>1. SetStatus({n}, "cancelled") \in [Notification -> Row]
    BY SetStatusType DEF Status
  <2>2. QED BY <1>3, <2>1 DEF Cancel
<1>4. CASE CreateBatch
  <2>1. \A later \in SUBSET Batched, n \in Notification :
          NewRow(IF n \in later THEN "scheduled" ELSE "queued") \in Row
    BY RowFacts DEF Status
  <2>2. QED BY <1>4, <2>1 DEF CreateBatch
<1>5. CASE CancelBatch
  <2>1. SetStatus({n \in Batched : CanCancel(row[n].status)}, "cancelled")
          \in [Notification -> Row]
    BY SetStatusType DEF Status
  <2>2. QED BY <1>5, <2>1 DEF CancelBatch
<1>6. ASSUME NEW w \in Worker, WorkerStep(w) PROVE TypeOK'
  <2> USE DEF Goto, Hold, Return, Label
  <2>1. CASE Dequeue(w)
    BY <2>1 DEF Dequeue
  <2>2. CASE Load(w)
    <3>1. WithStatus(row[msg[w]], "processing") \in Row
      BY <2>2, RowFacts DEF Load, Status
    <3>2. QED BY <2>2, <3>1, RowFacts DEF Load
  <2>3. CASE Claim(w)
    BY <2>3, RowFacts DEF Claim, Save
  <2>4. CASE Gate(w)
    BY <2>4 DEF Gate
  <2>5. CASE Limit(w)
    BY <2>5, RowFacts DEF Limit
  <2>6. CASE Requeue(w)
    BY <2>6 DEF Requeue, Push
  <2>7. CASE Unclaim(w)
    <3>1. WithStatus(copy[w], "queued") \in Row
      BY RowFacts DEF Status
    <3>2. QED BY <2>7, <3>1, RowFacts DEF Unclaim, Save
  <2>8. CASE Send(w)
    BY <2>8 DEF Send
  <2>9. CASE LogFailure(w)
    <3>1. [number |-> copy[w].retryCount + 1, ok |-> FALSE] \in Attempt
      BY DEF Attempt, Row
    <3>2. attempts' \in [Notification -> SUBSET Attempt]
      BY <2>9, <3>1, RecordType DEF LogFailure
    <3>3. QED BY <2>9, <3>2 DEF LogFailure
  <2>10. CASE HandleRetry(w)
    <3>1. \A b \in BOOLEAN : FailedOnce(copy[w], b) \in Row
      BY DEF Row, Status, FailedOnce
    <3>2. copy[w].nextRetry \in BOOLEAN
      BY DEF Row
    <3>3. row' \in [Notification -> Row]
      BY <2>10, <3>1, <3>2, SaveType DEF HandleRetry
    <3>4. (Goto(w, "ack") \/ Goto(w, "deadletter")) /\ Hold(w, Blank)
      BY <2>10 DEF HandleRetry
    <3>5. pc[w] = "retry" /\ UNCHANGED <<stores, creator, batch, msg, accepted>>
      BY <2>10 DEF HandleRetry
    <3>6. QED BY <3>3, <3>4, <3>5, RowFacts
  <2>11. CASE DeadLetter(w)
    BY <2>11 DEF DeadLetter
  <2>12. CASE LogSuccess(w)
    <3>1. [number |-> copy[w].retryCount + 1, ok |-> TRUE] \in Attempt
      BY DEF Attempt, Row
    <3>2. attempts' \in [Notification -> SUBSET Attempt]
      BY <2>12, <3>1, RecordType DEF LogSuccess
    <3>3. QED BY <2>12, <3>2 DEF LogSuccess
  <2>13. CASE Settle(w)
    <3>1. WithStatus(copy[w], "delivered") \in Row
      BY RowFacts DEF Status
    <3>2. QED BY <2>13, <3>1, RowFacts DEF Settle, Save
  <2>14. CASE Ack(w)
    BY <2>14 DEF Ack
  <2>15. QED
    BY <1>6, <2>1, <2>2, <2>3, <2>4, <2>5, <2>6, <2>7, <2>8, <2>9, <2>10, <2>11,
       <2>12, <2>13, <2>14 DEF WorkerStep
<1>7. ASSUME NEW p \in Poller, PollerStep(p) PROVE TypeOK'
  <2>1. CASE Poll(p)
    <3>1. \A S \in SUBSET Notification : SetStatus(S, "queued") \in [Notification -> Row]
      BY SetStatusType DEF Status
    <3>2. QED BY <2>1, <3>1 DEF Poll
  <2>2. ASSUME NEW n \in Notification, EnqueuePolled(p, n) PROVE TypeOK'
    BY <2>2 DEF EnqueuePolled, Push
  <2>3. QED BY <1>7, <2>1, <2>2 DEF PollerStep
<1>8. ASSUME NEW h \in Host, Crash(h) PROVE TypeOK'
  BY <1>8, RowFacts DEF Crash, Label
<1>9. CASE ApiCrash
  BY <1>9 DEF ApiCrash
<1>10. CASE UNCHANGED vars
  BY <1>10 DEF vars
<1>11. QED
  BY <1>1, <1>2, <1>3, <1>4, <1>5, <1>6, <1>7, <1>8, <1>9, <1>10 DEF Next

(***************************************************************************)
(* Every variable keeps its type, and a worker has a message exactly while *)
(* it is not idle.                                                         *)
(***************************************************************************)
THEOREM TypeCorrect == Spec => []TypeOK
<1>1. TypeOK /\ [Next]_vars => TypeOK'
  BY StepTypeOK
<1>2. QED BY InitTypeOK, <1>1, PTL DEF Spec

-----------------------------------------------------------------------------
(* The inductive invariant behind SoleCustodian.                           *)

ByWorker(n) == \E w \in Worker : Holds(w, n)
ByPoller(n) == \E p \in Poller : n \in batch[p]
ByQueue(n) == n \in queue
ByCreator(n) == creator[n] # "none"

\* SoleCustodian, kind by kind.
Alone(n) ==
    /\ \A v, w \in Worker : Holds(v, n) /\ Holds(w, n) => v = w
    /\ \A p, q \in Poller : n \in batch[p] /\ n \in batch[q] => p = q
    /\ ByWorker(n) => ~ByQueue(n) /\ ~ByCreator(n) /\ ~ByPoller(n) /\ ~Parked(n)
    /\ ByQueue(n) => ~ByCreator(n) /\ ~ByPoller(n) /\ ~Parked(n)
    /\ ByCreator(n) => ~ByPoller(n) /\ ~Parked(n)
    /\ ByPoller(n) => ~Parked(n)

\* Nobody knows of a notification that does not exist.
Unknown(n) ==
    /\ \A w \in Worker : msg[w] # n
    /\ ~ByQueue(n) /\ ~ByCreator(n) /\ ~ByPoller(n)
    /\ accepted[n] = 0 /\ dlq[n] = 0

AbsentIsUnknown == \A n \in Notification : row[n].status = "absent" => Unknown(n)

\* What Claim is about to write is not a status a poller looks for.
ClaimsProcessing == \A w \in Worker : pc[w] = "claim" => copy[w].status = "processing"

CustodyInv ==
    /\ TypeOK
    /\ AbsentIsUnknown
    /\ ClaimsProcessing
    /\ \A n \in Notification : Alone(n)

LEMMA AloneIsSole == (\A n \in Notification : Alone(n)) => SoleCustodian
  BY DEF Alone, ByWorker, ByPoller, ByQueue, ByCreator, SoleCustodian, Custodians

LEMMA InitCustody == Init => CustodyInv
<1> SUFFICES ASSUME Init PROVE CustodyInv
  OBVIOUS
<1>1. TypeOK
  BY InitTypeOK
<1>2. AbsentIsUnknown /\ ClaimsProcessing
  BY DeliveryAssumption DEF Init, AbsentIsUnknown, Unknown, ByQueue, ByCreator, ByPoller, ClaimsProcessing
<1>3. ASSUME NEW n \in Notification PROVE Alone(n)
  BY DEF Init, Alone, ByWorker, ByQueue, ByCreator, ByPoller, Holds, Holding, Parked, RetryReady, Blank, NewRow
<1>4. QED BY <1>1, <1>2, <1>3 DEF CustodyInv

LEMMA ClaimStep == TypeOK /\ ClaimsProcessing /\ [Next]_vars => ClaimsProcessing'
<1> SUFFICES ASSUME TypeOK, ClaimsProcessing, [Next]_vars PROVE ClaimsProcessing'
  OBVIOUS
<1> USE DEF ClaimsProcessing, TypeOK, stores, workers
<1>1. ASSUME NEW w \in Worker, WorkerStep(w) PROVE ClaimsProcessing'
  <2>1. CASE Load(w)
    <3>1. WithStatus(row[msg[w]], "processing").status = "processing"
      BY <2>1, RowFacts DEF Load, Status
    <3>2. QED BY <2>1, <3>1 DEF Load, Goto, Hold, Return
  <2>2. CASE ~Load(w)
    BY <1>1, <2>2 DEF WorkerStep, Dequeue, Claim, Gate, Limit, Requeue, Unclaim, Send,
         LogFailure, HandleRetry, DeadLetter, LogSuccess, Settle, Ack, Goto, Hold, Return
  <2>3. QED BY <2>1, <2>2
<1>2. ASSUME NEW h \in Host, Crash(h) PROVE ClaimsProcessing'
  BY <1>2 DEF Crash
<1>3. ASSUME UNCHANGED <<pc, copy>> PROVE ClaimsProcessing'
  BY <1>3
<1>4. QED
  BY <1>1, <1>2, <1>3 DEF Next, vars, Create, CreatorStep, MarkQueued, EnqueueCreated,
     Cancel, CreateBatch, CancelBatch, PollerStep, Poll, EnqueuePolled, ApiCrash

\* A row that is saved exists, and what is saved is not "absent".
LEMMA SaveKeeps ==
    ASSUME TypeOK, NEW n \in Notification, NEW r \in Row, r.status # "absent", Save(n, r),
           NEW m \in Notification, row'[m].status = "absent"
    PROVE  row[m].status = "absent"
  BY DEF Save, TypeOK

LEMMA SetStatusKeeps ==
    ASSUME TypeOK, NEW S \in SUBSET Notification, NEW s \in Status, s # "absent",
           row' = SetStatus(S, s),
           NEW m \in Notification, row'[m].status = "absent"
    PROVE  row[m].status = "absent" /\ m \notin S
  BY RowFacts DEF SetStatus, TypeOK

\* Rows are never removed.
LEMMA RowsStay ==
    ASSUME CustodyInv, [Next]_vars, NEW m \in Notification, row'[m].status = "absent"
    PROVE  row[m].status = "absent"
<1> USE DEF CustodyInv, TypeOK, stores
<1>1. ASSUME NEW n \in Notification, Create(n) PROVE row[m].status = "absent"
  <2>1. NewRow("pending").status # "absent" /\ NewRow("scheduled").status # "absent"
    BY DEF NewRow
  <2>2. QED BY <1>1, <2>1 DEF Create
<1>2. ASSUME NEW n \in Notification, CreatorStep(n) PROVE row[m].status = "absent"
  <2>1. WithStatus(row[n], "queued") \in Row /\ WithStatus(row[n], "queued").status # "absent"
    BY RowFacts DEF Status
  <2>2. QED BY <1>2, <2>1, SaveKeeps DEF CreatorStep, MarkQueued, EnqueueCreated
<1>3. ASSUME NEW n \in Notification, Cancel(n) PROVE row[m].status = "absent"
  BY <1>3, SetStatusKeeps DEF Cancel, Status
<1>4. CASE CreateBatch
  <2>1. \A s \in {"scheduled", "queued"} : NewRow(s).status # "absent"
    BY DEF NewRow
  <2>2. QED BY <1>4, <2>1 DEF CreateBatch
<1>5. CASE CancelBatch
  BY <1>5, DeliveryAssumption, SetStatusKeeps DEF CancelBatch, Status
<1>6. ASSUME NEW w \in Worker, WorkerStep(w) PROVE row[m].status = "absent"
  <2>1. CASE Claim(w)
    <3>1. copy[w] \in Row /\ copy[w].status # "absent" /\ msg[w] \in Notification /\ Save(msg[w], copy[w])
      BY <2>1 DEF Claim, Save, ClaimsProcessing
    <3>2. QED BY <3>1, SaveKeeps
  <2>2. CASE Unclaim(w) \/ Settle(w)
    <3>1. \A s \in Status : WithStatus(copy[w], s) \in Row /\ WithStatus(copy[w], s).status = s
      BY RowFacts
    <3>2. /\ msg[w] \in Notification
          /\ \/ Save(msg[w], WithStatus(copy[w], "queued"))
             \/ Save(msg[w], WithStatus(copy[w], "delivered"))
      BY <2>2 DEF Unclaim, Settle
    <3>3. QED BY <3>1, <3>2, SaveKeeps DEF Status
  <2>3. CASE HandleRetry(w)
    <3>1. \A b \in BOOLEAN : FailedOnce(copy[w], b) \in Row /\ FailedOnce(copy[w], b).status # "absent"
      BY DEF Row, Status, FailedOnce
    <3>2. copy[w].nextRetry \in BOOLEAN /\ msg[w] \in Notification
      BY <2>3 DEF HandleRetry, Row
    <3>3. QED BY <2>3, <3>1, <3>2, SaveKeeps DEF HandleRetry
  <2>4. CASE UNCHANGED row
    BY <2>4
  <2>5. QED
    BY <1>6, <2>1, <2>2, <2>3, <2>4 DEF WorkerStep, Dequeue, Load, Gate, Limit, Requeue, Send,
       LogFailure, DeadLetter, LogSuccess, Ack
<1>7. ASSUME NEW p \in Poller, PollerStep(p) PROVE row[m].status = "absent"
  <2>1. CASE Poll(p)
    BY <2>1, SetStatusKeeps DEF Poll, Status
  <2>2. QED BY <1>7, <2>1 DEF PollerStep, EnqueuePolled
<1>8. QED
  BY <1>1, <1>2, <1>3, <1>4, <1>5, <1>6, <1>7 DEF Next, Crash, ApiCrash, vars

LEMMA AbsentStep == CustodyInv /\ [Next]_vars => AbsentIsUnknown'
<1> SUFFICES ASSUME CustodyInv, [Next]_vars,
                    NEW m \in Notification, row'[m].status = "absent"
             PROVE  Unknown(m)'
  BY DEF AbsentIsUnknown
<1> USE DEF CustodyInv, TypeOK, Unknown, ByQueue, ByCreator, ByPoller, stores, workers
<1>1. row[m].status = "absent" /\ Unknown(m)
  BY RowsStay DEF AbsentIsUnknown
<1>2. ASSUME NEW n \in Notification, Create(n) PROVE Unknown(m)'
  <2>1. NewRow("pending").status # "absent" /\ NewRow("scheduled").status # "absent"
    BY DEF NewRow
  <2>2. m # n
    BY <1>2, <2>1 DEF Create
  <2>3. QED BY <1>1, <1>2, <2>2 DEF Create
<1>3. ASSUME NEW n \in Notification, CreatorStep(n) PROVE Unknown(m)'
  BY <1>1, <1>3 DEF CreatorStep, MarkQueued, EnqueueCreated, Push
<1>4. CASE CreateBatch
  <2>1. \A s \in {"scheduled", "queued"} : NewRow(s).status # "absent"
    BY DEF NewRow
  <2>2. m \notin Batched
    BY <1>4, <2>1 DEF CreateBatch
  <2>3. QED BY <1>1, <1>4, <2>2 DEF CreateBatch
<1>5. CASE CancelBatch \/ \E n \in Notification : Cancel(n)
  BY <1>1, <1>5 DEF CancelBatch, Cancel
<1>6. ASSUME NEW w \in Worker, WorkerStep(w) PROVE Unknown(m)'
  <2>1. CASE Dequeue(w)
    BY <1>1, <2>1 DEF Dequeue, Goto
  <2>2. CASE Requeue(w)
    BY <1>1, <2>2 DEF Requeue, Push
  <2>3. CASE Send(w)
    BY <1>1, <2>3 DEF Send
  <2>4. CASE DeadLetter(w)
    BY <1>1, <2>4 DEF DeadLetter
  <2>5. CASE Ack(w)
    BY <1>1, <2>5, DeliveryAssumption DEF Ack
  <2>6. CASE UNCHANGED <<dlq, queue, creator, batch, msg, accepted>>
    BY <1>1, <2>6
  <2>7. QED
    BY <1>6, <2>1, <2>2, <2>3, <2>4, <2>5, <2>6 DEF WorkerStep, Load, Claim, Gate, Limit,
       Unclaim, LogFailure, HandleRetry, LogSuccess, Settle
<1>7. ASSUME NEW p \in Poller, Poll(p) PROVE Unknown(m)'
  <2>1. PICK S \in SUBSET {n \in Notification : Selects(p, n)} :
           row' = SetStatus(S, "queued") /\ (batch' = [batch EXCEPT ![p] = S] \/ UNCHANGED batch)
    BY <1>7 DEF Poll
  <2>2. m \notin S
    BY <2>1, SetStatusKeeps DEF Status
  <2>3. QED BY <1>1, <1>7, <2>1, <2>2 DEF Poll
<1>8. ASSUME NEW p \in Poller, NEW n \in Notification, EnqueuePolled(p, n) PROVE Unknown(m)'
  BY <1>1, <1>8 DEF EnqueuePolled, Push
<1>9. ASSUME NEW h \in Host, Crash(h) PROVE Unknown(m)'
  BY <1>1, <1>9, DeliveryAssumption DEF Crash
<1>10. CASE ApiCrash \/ UNCHANGED vars
  BY <1>1, <1>10 DEF ApiCrash, vars
<1>11. QED
  BY <1>2, <1>3, <1>4, <1>5, <1>6, <1>7, <1>8, <1>9, <1>10 DEF Next, PollerStep

\* How the two ways of writing rows bear on what the pollers will find.
LEMMA SaveParked ==
    ASSUME TypeOK, NEW n \in Notification, NEW r \in Row, Save(n, r),
           NEW m \in Notification, Parked(m)', ~Parked(m)
    PROVE  /\ m = n
           /\ \/ r.status = "scheduled"
              \/ r.status = "failed" /\ r.retryCount < RowMaxRetries
  BY DEF Save, TypeOK, Parked, RetryReady

LEMMA SetStatusParked ==
    ASSUME TypeOK, NEW S \in SUBSET Notification, NEW s \in {"queued", "cancelled"},
           row' = SetStatus(S, s),
           NEW m \in Notification, Parked(m)'
    PROVE  Parked(m) /\ m \notin S
<1>1. s \in Status
  BY DEF Status
<1>2. m \in S => row'[m].status = s
  BY <1>1, RowFacts DEF SetStatus, TypeOK
<1>3. m \notin S => row'[m] = row[m]
  BY DEF SetStatus
<1>4. QED BY <1>2, <1>3 DEF Parked, RetryReady

\* A notification becomes parked when it is created, or by handleRetry of the
\* worker that holds it, and then only while the row's own limit allows.
LEMMA ParkedStep ==
    ASSUME CustodyInv, [Next]_vars, NEW m \in Notification, Parked(m)', ~Parked(m)
    PROVE  \/ row[m].status = "absent"
           \/ \E w \in Worker : /\ HandleRetry(w) /\ msg[w] = m
                               /\ copy[w].retryCount + 1 < RowMaxRetries
<1> USE DEF CustodyInv, TypeOK
<1> DEFINE Goal == \/ row[m].status = "absent"
                   \/ \E w \in Worker : /\ HandleRetry(w) /\ msg[w] = m
                                       /\ copy[w].retryCount + 1 < RowMaxRetries
<1>1. row' # row
  BY DEF Parked, RetryReady
<1>2. ASSUME NEW n \in Notification, Create(n) PROVE Goal
  BY <1>2 DEF Create, Parked, RetryReady
<1>3. ASSUME NEW n \in Notification, CreatorStep(n) PROVE Goal
  <2>1. WithStatus(row[n], "queued") \in Row /\ WithStatus(row[n], "queued").status = "queued"
    BY RowFacts DEF Status
  <2>2. MarkQueued(n)
    BY <1>1, <1>3 DEF CreatorStep, EnqueueCreated
  <2>3. QED BY <2>1, <2>2, SaveParked DEF MarkQueued
<1>4. ASSUME NEW n \in Notification, Cancel(n) PROVE Goal
  BY <1>4, SetStatusParked DEF Cancel
<1>5. CASE CreateBatch
  BY <1>5 DEF CreateBatch, Parked, RetryReady
<1>6. CASE CancelBatch
  BY <1>6, DeliveryAssumption, SetStatusParked DEF CancelBatch
<1>7. ASSUME NEW w \in Worker, WorkerStep(w) PROVE Goal
  <2>1. Claim(w) \/ Unclaim(w) \/ Settle(w) \/ HandleRetry(w)
    BY <1>1, <1>7 DEF WorkerStep, Dequeue, Load, Gate, Limit, Requeue, Send, LogFailure,
         DeadLetter, LogSuccess, Ack, stores
  <2>2. msg[w] \in Notification
    BY <2>1 DEF Claim, Unclaim, Settle, HandleRetry
  <2>3. CASE Claim(w)
    <3>1. copy[w] \in Row /\ copy[w].status = "processing" /\ Save(msg[w], copy[w])
      BY <2>3 DEF Claim, Save, ClaimsProcessing
    <3>2. QED BY <2>2, <3>1, SaveParked
  <2>4. CASE Unclaim(w) \/ Settle(w)
    <3>1. \A s \in Status : WithStatus(copy[w], s) \in Row /\ WithStatus(copy[w], s).status = s
      BY RowFacts
    <3>2. \/ Save(msg[w], WithStatus(copy[w], "queued"))
          \/ Save(msg[w], WithStatus(copy[w], "delivered"))
      BY <2>4 DEF Unclaim, Settle
    <3>3. QED BY <2>2, <3>1, <3>2, SaveParked DEF Status
  <2>5. CASE HandleRetry(w)
    <3>1. \A b \in BOOLEAN : /\ FailedOnce(copy[w], b) \in Row
                             /\ FailedOnce(copy[w], b).retryCount = copy[w].retryCount + 1
                             /\ FailedOnce(copy[w], b).status = "failed"
      BY DEF Row, Status, FailedOnce
    <3>2. copy[w].nextRetry \in BOOLEAN
      BY DEF Row
    <3>3. m = msg[w] /\ copy[w].retryCount + 1 < RowMaxRetries
      BY <2>2, <2>5, <3>1, <3>2, SaveParked DEF HandleRetry
    <3>4. QED BY <2>5, <3>3
  <2>6. QED BY <2>1, <2>3, <2>4, <2>5
<1>8. ASSUME NEW p \in Poller, PollerStep(p) PROVE Goal
  <2>1. Poll(p)
    BY <1>1, <1>8 DEF PollerStep, EnqueuePolled
  <2>2. PICK S \in SUBSET {n \in Notification : Selects(p, n)} : row' = SetStatus(S, "queued")
    BY <2>1 DEF Poll
  <2>3. QED BY <2>2, SetStatusParked
<1>9. QED
  BY <1>1, <1>2, <1>3, <1>4, <1>5, <1>6, <1>7, <1>8 DEF Next, Crash, ApiCrash, vars

\* Only Create and CreateBatch make rows.
LEMMA RowAppears ==
    ASSUME CustodyInv, [Next]_vars, NEW m \in Notification,
           row[m].status = "absent", row'[m].status # "absent"
    PROVE  Create(m) \/ (CreateBatch /\ m \in Batched)
<1> USE DEF CustodyInv, TypeOK
<1>1. Unknown(m) /\ row'[m] # row[m]
  BY DEF AbsentIsUnknown
<1>2. ASSUME NEW n \in Notification, CreatorStep(n) PROVE FALSE
  BY <1>1, <1>2 DEF CreatorStep, MarkQueued, EnqueueCreated, Save, Unknown, ByCreator
<1>3. ASSUME NEW n \in Notification, Cancel(n) PROVE FALSE
  BY <1>1, <1>3 DEF Cancel, CanCancel, SetStatus
<1>4. CASE CancelBatch
  BY <1>1, <1>4 DEF CancelBatch, CanCancel, SetStatus
<1>5. ASSUME NEW w \in Worker, WorkerStep(w) PROVE FALSE
  <2>1. Claim(w) \/ Unclaim(w) \/ Settle(w) \/ HandleRetry(w)
    BY <1>1, <1>5 DEF WorkerStep, Dequeue, Load, Gate, Limit, Requeue, Send, LogFailure,
         DeadLetter, LogSuccess, Ack, stores
  <2>2. \E r : Save(msg[w], r)
    BY <2>1 DEF Claim, Unclaim, Settle, HandleRetry, Save
  <2>3. QED BY <1>1, <2>2 DEF Save, Unknown
<1>6. ASSUME NEW p \in Poller, PollerStep(p) PROVE FALSE
  <2>1. Poll(p)
    BY <1>1, <1>6 DEF PollerStep, EnqueuePolled
  <2>2. ~Selects(p, m)
    BY <1>1 DEF Selects, RetryReady, Poller
  <2>3. QED BY <1>1, <2>1, <2>2 DEF Poll, SetStatus
<1>7. ASSUME NEW n \in Notification, Create(n) PROVE Create(m)
  BY <1>1, <1>7 DEF Create
<1>8. CASE CreateBatch
  BY <1>1, <1>8 DEF CreateBatch
<1>9. QED
  BY <1>1, <1>2, <1>3, <1>4, <1>5, <1>6, <1>7, <1>8 DEF Next, Crash, ApiCrash, vars

LEMMA AloneStep ==
    ASSUME CustodyInv, [Next]_vars, "resend" \notin Faults, NEW m \in Notification
    PROVE  Alone(m)'
<1> USE DEF CustodyInv, TypeOK, stores, workers, Alone, ByWorker, ByQueue, ByCreator,
            ByPoller, Holds, Holding
<1>1. CASE row'[m].status = "absent"
  <2>1. Unknown(m)'
    BY <1>1, AbsentStep DEF AbsentIsUnknown
  <2>2. QED BY <1>1, <2>1 DEF Unknown, Parked, RetryReady
<1>2. CASE row[m].status = "absent" /\ row'[m].status # "absent"
  <2>1. Unknown(m)
    BY <1>2 DEF AbsentIsUnknown
  <2>2. CASE Create(m)
    <3>1. NewRow("pending").status = "pending"
      BY DEF NewRow
    <3>2. QED BY <2>1, <2>2, <3>1 DEF Create, Unknown, Parked, RetryReady
  <2>3. CASE CreateBatch /\ m \in Batched
    <3>1. NewRow("queued").status = "queued"
      BY DEF NewRow
    <3>2. QED BY <2>1, <2>3, <3>1 DEF CreateBatch, Unknown, Parked, RetryReady
  <2>4. QED BY <1>2, <2>2, <2>3, RowAppears
<1>3. CASE row[m].status # "absent"
  <2>1. Alone(m)
    OBVIOUS
  <2>2. Parked(m)' => \/ Parked(m)
                      \/ \E w \in Worker : /\ pc[w] = "retry" /\ msg[w] = m
                                          /\ pc'[w] \in {"ack", "deadletter"}
    <3>1. Parked(m)' => Parked(m) \/ \E w \in Worker : HandleRetry(w) /\ msg[w] = m
      BY <1>3, ParkedStep
    <3>2. \A w \in Worker : HandleRetry(w) => pc[w] = "retry" /\ pc'[w] \in {"ack", "deadletter"}
      BY DEF HandleRetry, Goto, Return
    <3>3. QED BY <3>1, <3>2
  <2>3. ASSUME NEW n \in Notification, Create(n) \/ CreatorStep(n) PROVE Alone(m)'
    <3>1. CASE Create(n)
      BY <1>3, <2>1, <2>2, <3>1 DEF Create
    <3>2. CASE MarkQueued(n)
      BY <2>1, <2>2, <3>2 DEF MarkQueued
    <3>3. CASE EnqueueCreated(n)
      BY <2>1, <2>2, <3>3 DEF EnqueueCreated, Push
    <3>4. QED BY <2>3, <3>1, <3>2, <3>3 DEF CreatorStep
  <2>4. ASSUME UNCHANGED <<queue, batch, pc, msg>>, CreateBatch \/ UNCHANGED creator
        PROVE  Alone(m)'
    BY <1>3, <2>1, <2>2, <2>4 DEF CreateBatch
  <2>5. CASE \E n \in Notification : Cancel(n)
    BY <2>4, <2>5 DEF Cancel
  <2>6. CASE CreateBatch \/ CancelBatch
    BY <2>4, <2>6 DEF CreateBatch, CancelBatch
  <2>7. ASSUME NEW w \in Worker, WorkerStep(w) PROVE Alone(m)'
    <3> USE DEF Goto, Return
    <3>1. CASE HandleRetry(w)
      <4>1. /\ pc[w] = "retry" /\ (Goto(w, "ack") \/ Goto(w, "deadletter"))
            /\ UNCHANGED <<queue, creator, batch, msg>>
        BY <3>1 DEF HandleRetry
      <4>2. QED BY <2>1, <2>2, <4>1
    <3>2. CASE Dequeue(w)
      BY <2>1, <2>2, <3>2 DEF Dequeue
    <3>3. CASE Requeue(w)
      BY <2>1, <2>2, <3>3 DEF Requeue, Push
    <3>4. CASE Ack(w)
      BY <2>1, <2>2, <3>4, DeliveryAssumption DEF Ack
    <3>5. ASSUME \E l \in Label : Goto(w, l),
                 pc[w] \in Holding \cup {"unclaim", "deadletter"},
                 pc'[w] \in Holding => pc[w] \in Holding,
                 pc[w] # "retry",
                 UNCHANGED <<queue, creator, batch, msg>>
          PROVE  Alone(m)'
      BY <2>1, <2>2, <3>5
    <3>6. CASE Load(w) \/ Claim(w) \/ Gate(w) \/ Limit(w) \/ Send(w)
      BY <3>5, <3>6 DEF Load, Claim, Gate, Limit, Send, Label
    <3>7. CASE Unclaim(w) \/ LogFailure(w) \/ DeadLetter(w) \/ LogSuccess(w) \/ Settle(w)
      BY <3>5, <3>7 DEF Unclaim, LogFailure, DeadLetter, LogSuccess, Settle, Label
    <3>8. QED
      BY <2>7, <3>1, <3>2, <3>3, <3>4, <3>6, <3>7 DEF WorkerStep
  <2>8. ASSUME NEW p \in Poller, Poll(p) PROVE Alone(m)'
    <3>1. PICK S \in SUBSET {n \in Notification : Selects(p, n)} :
             row' = SetStatus(S, "queued") /\ (batch' = [batch EXCEPT ![p] = S] \/ UNCHANGED batch)
      BY <2>8 DEF Poll
    <3>2. Parked(m)' => Parked(m) /\ m \notin S
      BY <3>1, SetStatusParked
    <3>3. m \in S => Parked(m)
      BY <3>1 DEF Selects, Parked, Poller
    <3>4. UNCHANGED <<queue, creator, pc, msg>>
      BY <2>8 DEF Poll
    <3>5. QED BY <2>1, <3>1, <3>2, <3>3, <3>4
  <2>9. ASSUME NEW p \in Poller, NEW n \in Notification, EnqueuePolled(p, n) PROVE Alone(m)'
    BY <2>1, <2>2, <2>9 DEF EnqueuePolled, Push
  <2>10. CASE \E h \in Host : Crash(h)
    BY <2>1, <2>10 DEF Crash, Parked, RetryReady
  <2>11. CASE ApiCrash \/ UNCHANGED vars
    BY <2>1, <2>11 DEF ApiCrash, vars, Parked, RetryReady
  <2>12. QED
    BY <2>3, <2>5, <2>6, <2>7, <2>8, <2>9, <2>10, <2>11 DEF Next, PollerStep
<1>4. QED BY <1>1, <1>2, <1>3

LEMMA CustodyStep ==
    ASSUME "resend" \notin Faults
    PROVE  CustodyInv /\ [Next]_vars => CustodyInv'
  BY StepTypeOK, AbsentStep, ClaimStep, AloneStep DEF CustodyInv

(***************************************************************************)
(* However calls fail and processes stop, no notification ever has two     *)
(* custodians, as long as the Redis client does not repeat a write that    *)
(* has already been carried out.                                           *)
(***************************************************************************)
THEOREM SoleCustody ==
    ASSUME "resend" \notin Faults
    PROVE  Spec => []SoleCustodian
<1>1. CustodyInv /\ [Next]_vars => CustodyInv'
  BY CustodyStep
<1>2. CustodyInv => SoleCustodian
  BY AloneIsSole DEF CustodyInv
<1>3. QED BY InitCustody, <1>1, <1>2, PTL DEF Spec

-----------------------------------------------------------------------------
(* The inductive invariant behind OneOutcome.                              *)

OnlyWorkers(n) == ~ByQueue(n) /\ ~ByCreator(n) /\ ~ByPoller(n) /\ ~Parked(n)

\* An accepted notification is only in the hands of the worker that sent it; a
\* dead-lettered one, or one about to be, in nobody's.
Undecided(n) == accepted[n] = 0 /\ dlq[n] = 0

Decided(n) ==
    /\ \/ Undecided(n)
       \/ accepted[n] = 1 /\ dlq[n] = 0
       \/ accepted[n] = 0 /\ dlq[n] = 1
    /\ ~Undecided(n) =>
          /\ OnlyWorkers(n)
          /\ \A w \in Worker : Holds(w, n) => pc[w] \in {"logSuccess", "settle"}
    /\ \A w \in Worker : Burying(w, n) =>
          Undecided(n) /\ OnlyWorkers(n) /\ ~ByWorker(n)
    /\ \A v, w \in Worker : Burying(v, n) /\ Burying(w, n) => v = w

OutcomeInv == CustodyInv /\ \A n \in Notification : Decided(n)

\* Until the provider has answered, a worker is the only one to have its message,
\* and nothing about the notification is decided.
LEMMA HolderDecides ==
    ASSUME NEW m \in Notification, NEW w \in Worker, Alone(m), Decided(m), Holds(w, m),
           pc[w] \notin {"logSuccess", "settle"}
    PROVE  /\ OnlyWorkers(m) /\ Undecided(m)
           /\ \A v \in Worker : Holds(v, m) => v = w
           /\ \A v \in Worker : ~Burying(v, m)
<1>1. ByWorker(m)
  BY DEF ByWorker
<1>2. QED BY <1>1 DEF Alone, Decided, OnlyWorkers

LEMMA DecidedStep ==
    ASSUME CustodyInv, [Next]_vars, "resend" \notin Faults, RowMaxRetries <= MaxRetries,
           NEW m \in Notification, Decided(m)
    PROVE  Decided(m)'
<1> USE DEF CustodyInv, TypeOK, stores, workers, Decided, Undecided, OnlyWorkers, ByWorker, ByQueue,
            ByCreator, ByPoller, Holds, Holding, Burying
<1>1. CASE row'[m].status = "absent"
  <2>1. Unknown(m)'
    BY <1>1, AbsentStep DEF AbsentIsUnknown
  <2>2. QED BY <2>1 DEF Unknown
<1>2. CASE row[m].status = "absent" /\ row'[m].status # "absent"
  <2>1. Unknown(m)
    BY <1>2 DEF AbsentIsUnknown
  <2>2. UNCHANGED <<msg, accepted, dlq>>
    BY <1>2, RowAppears DEF Create, CreateBatch
  <2>3. QED BY <2>1, <2>2 DEF Unknown
<1>3. CASE row[m].status # "absent"
  <2>1. Alone(m)
    OBVIOUS
  <2>2. Parked(m)' => \/ Parked(m)
                      \/ \E w \in Worker : /\ pc[w] = "retry" /\ msg[w] = m
                                          /\ pc'[w] = "ack"
    <3>1. ASSUME NEW w \in Worker, HandleRetry(w), copy[w].retryCount + 1 < RowMaxRetries
          PROVE  pc[w] = "retry" /\ pc'[w] = "ack"
      <4>1. copy[w].retryCount \in Nat
        BY DEF Row
      <4>2. ~(copy[w].retryCount + 1 >= MaxRetries)
        BY <3>1, <4>1, DeliveryAssumption
      <4>3. QED BY <3>1, <4>2 DEF HandleRetry, Goto, Return
    <3>2. QED BY <1>3, <3>1, ParkedStep
  <2>3. ASSUME NEW n \in Notification, Create(n) \/ CreatorStep(n) PROVE Decided(m)'
    <3>1. CASE Create(n)
      BY <1>3, <2>1, <2>2, <3>1 DEF Create
    <3>2. CASE MarkQueued(n)
      BY <2>1, <2>2, <3>2 DEF MarkQueued
    <3>3. CASE EnqueueCreated(n)
      BY <2>1, <2>2, <3>3 DEF EnqueueCreated, Push
    <3>4. QED BY <2>3, <3>1, <3>2, <3>3 DEF CreatorStep
  <2>4. ASSUME UNCHANGED <<queue, batch, pc, msg, accepted, dlq>>, CreateBatch \/ UNCHANGED creator
        PROVE  Decided(m)'
    BY <1>3, <2>1, <2>2, <2>4 DEF CreateBatch
  <2>5. CASE \E n \in Notification : Cancel(n)
    BY <2>4, <2>5 DEF Cancel
  <2>6. CASE CreateBatch \/ CancelBatch
    BY <2>4, <2>6 DEF CreateBatch, CancelBatch
  <2>7. ASSUME NEW w \in Worker, WorkerStep(w) PROVE Decided(m)'
    <3> USE DEF Goto, Return
    <3>1. CASE HandleRetry(w)
      <4>1. /\ pc[w] = "retry" /\ (Goto(w, "ack") \/ Goto(w, "deadletter"))
            /\ UNCHANGED <<queue, creator, batch, msg, accepted, dlq>>
        BY <3>1 DEF HandleRetry
      <4>2. CASE m = msg[w]
        <5>1. /\ OnlyWorkers(m) /\ Undecided(m)
              /\ \A v \in Worker : Holds(v, m) => v = w
              /\ \A v \in Worker : ~Burying(v, m)
          <6>1. Holds(w, m) /\ pc[w] \notin {"logSuccess", "settle"}
            BY <4>1, <4>2
          <6>2. QED BY <2>1, <6>1, HolderDecides
        <5>2. QED BY <2>1, <2>2, <4>1, <4>2, <5>1
      <4>3. CASE m # msg[w]
        BY <2>2, <4>1, <4>3
      <4>4. QED BY <4>2, <4>3
    <3>2. CASE Send(w)
      <4>1. CASE m = msg[w]
        <5>1. /\ OnlyWorkers(m) /\ Undecided(m)
              /\ \A v \in Worker : Holds(v, m) => v = w
              /\ \A v \in Worker : ~Burying(v, m)
          <6>1. Holds(w, m) /\ pc[w] \notin {"logSuccess", "settle"}
            BY <3>2, <4>1 DEF Send
          <6>2. QED BY <2>1, <6>1, HolderDecides
        <5>2. QED BY <2>1, <2>2, <3>2, <4>1, <5>1 DEF Send
      <4>2. CASE m # msg[w]
        BY <2>2, <3>2, <4>2 DEF Send
      <4>3. QED BY <4>1, <4>2
    <3>3. CASE DeadLetter(w)
      <4>1. CASE m = msg[w]
        <5>1. OnlyWorkers(m) /\ ~ByWorker(m) /\ Undecided(m)
          BY <3>3, <4>1 DEF DeadLetter
        <5>2. QED BY <2>2, <3>3, <4>1, <5>1 DEF DeadLetter
      <4>2. CASE m # msg[w]
        BY <2>2, <3>3, <4>2 DEF DeadLetter
      <4>3. QED BY <4>1, <4>2
    <3>4. CASE Dequeue(w)
      BY <2>1, <2>2, <3>4 DEF Dequeue
    <3>5. CASE Requeue(w)
      BY <2>1, <2>2, <3>5 DEF Requeue, Push
    <3>6. CASE Ack(w)
      BY <2>1, <2>2, <3>6, DeliveryAssumption DEF Ack
    <3>7. ASSUME \E l \in Label \ {"deadletter"} : Goto(w, l),
                 pc[w] \in Holding \cup {"unclaim"},
                 pc'[w] \in Holding => pc[w] \in Holding,
                 pc[w] \in {"logSuccess", "settle"} => pc'[w] \in {"settle", "ack"},
                 pc[w] # "retry",
                 UNCHANGED <<queue, creator, batch, msg, accepted, dlq>>
          PROVE  Decided(m)'
      <4>1. Holds(w, m)' => Holds(w, m)
        BY <3>7
      <4>2. \A v \in Worker : Burying(v, m)' => Burying(v, m)
        BY <3>7
      <4>3. \A v \in Worker : Holds(v, m)' => Holds(v, m) /\ (v # w => pc'[v] = pc[v])
        BY <3>7, <4>1
      <4>4. Parked(m)' => Parked(m)
        BY <2>2, <3>7
      <4>5. pc[w] \in {"logSuccess", "settle"} /\ Holds(w, m)' => pc'[w] \in {"logSuccess", "settle"}
        BY <3>7
      <4>6. QED BY <3>7, <4>2, <4>3, <4>4, <4>5
    <3>8. CASE Load(w) \/ Claim(w) \/ Gate(w) \/ Limit(w)
      BY <3>7, <3>8 DEF Load, Claim, Gate, Limit, Label
    <3>9. CASE Unclaim(w) \/ LogFailure(w) \/ LogSuccess(w) \/ Settle(w)
      BY <3>7, <3>9 DEF Unclaim, LogFailure, LogSuccess, Settle, Label
    <3>10. QED
      BY <2>7, <3>1, <3>2, <3>3, <3>4, <3>5, <3>6, <3>8, <3>9 DEF WorkerStep
  <2>8. ASSUME NEW p \in Poller, Poll(p) PROVE Decided(m)'
    <3>1. PICK S \in SUBSET {n \in Notification : Selects(p, n)} :
             row' = SetStatus(S, "queued") /\ (batch' = [batch EXCEPT ![p] = S] \/ UNCHANGED batch)
      BY <2>8 DEF Poll
    <3>2. Parked(m)' => Parked(m) /\ m \notin S
      BY <3>1, SetStatusParked
    <3>3. m \in S => Parked(m)
      BY <3>1 DEF Selects, Parked, Poller
    <3>4. UNCHANGED <<queue, creator, pc, msg, accepted, dlq>>
      BY <2>8 DEF Poll
    <3>5. QED BY <2>1, <3>1, <3>2, <3>3, <3>4
  <2>9. ASSUME NEW p \in Poller, NEW n \in Notification, EnqueuePolled(p, n) PROVE Decided(m)'
    BY <2>1, <2>2, <2>9 DEF EnqueuePolled, Push
  <2>10. CASE \E h \in Host : Crash(h)
    BY <2>1, <2>10 DEF Crash, Parked, RetryReady
  <2>11. CASE ApiCrash \/ UNCHANGED vars
    BY <2>1, <2>11 DEF ApiCrash, vars, Parked, RetryReady
  <2>12. QED
    BY <2>3, <2>5, <2>6, <2>7, <2>8, <2>9, <2>10, <2>11 DEF Next, PollerStep
<1>4. QED BY <1>1, <1>2, <1>3

LEMMA InitOutcome == Init => OutcomeInv
<1>1. ASSUME Init, NEW n \in Notification PROVE Decided(n)
  BY <1>1 DEF Init, Decided, Undecided, Holds, Holding, Burying
<1>2. QED BY <1>1, InitCustody DEF OutcomeInv

LEMMA OutcomeStep ==
    ASSUME "resend" \notin Faults, RowMaxRetries <= MaxRetries
    PROVE  OutcomeInv /\ [Next]_vars => OutcomeInv'
  BY CustodyStep, DecidedStep DEF OutcomeInv

(***************************************************************************)
(* A notification is accepted by the provider at most once, dead-lettered  *)
(* at most once, and never both, when the configured retry limit is not    *)
(* below the limit stored in the rows.                                     *)
(***************************************************************************)
THEOREM OutcomeIsUnique ==
    ASSUME "resend" \notin Faults, RowMaxRetries <= MaxRetries
    PROVE  Spec => []OneOutcome
<1>1. OutcomeInv /\ [Next]_vars => OutcomeInv'
  BY OutcomeStep
<1>2. OutcomeInv => OneOutcome
  BY DEF OutcomeInv, CustodyInv, TypeOK, Decided, Undecided, OneOutcome
<1>3. QED BY InitOutcome, <1>1, <1>2, PTL DEF Spec

-----------------------------------------------------------------------------
(* Who may change a final row.                                             *)

\* Between Load and Return a worker has a copy it set to processing.
CopyInv ==
    /\ TypeOK
    /\ \A w \in Worker : pc[w] \notin {"idle", "load", "deadletter", "ack"} =>
                            copy[w].status = "processing"

LEMMA CopyStep == CopyInv /\ [Next]_vars => CopyInv'
<1> SUFFICES ASSUME CopyInv, [Next]_vars PROVE CopyInv'
  OBVIOUS
<1> USE DEF CopyInv, stores, workers
<1>1. TypeOK'
  BY StepTypeOK
<1> DEFINE Goal == \A v \in Worker : pc'[v] \notin {"idle", "load", "deadletter", "ack"} =>
                                        copy'[v].status = "processing"
<1>2. SUFFICES Goal
  BY <1>1
<1>3. ASSUME NEW w \in Worker, WorkerStep(w) PROVE Goal
  <2> USE DEF TypeOK
  <2>1. CASE Load(w)
    <3>1. \A r \in Row : WithStatus(r, "processing").status = "processing"
      BY DEF WithStatus, Row
    <3>2. CASE Return(w)
      BY <3>2 DEF Return, Goto, Hold
    <3>3. CASE Goto(w, "claim") /\ Hold(w, WithStatus(row[msg[w]], "processing"))
      <4>1. row[msg[w]] \in Row
        BY <2>1 DEF Load
      <4>2. QED BY <3>1, <3>3, <4>1 DEF Goto, Hold
    <3>4. QED BY <2>1, <3>2, <3>3 DEF Load
  <2>2. CASE Dequeue(w) \/ DeadLetter(w) \/ Ack(w)
    BY <2>2 DEF Dequeue, DeadLetter, Ack, Goto
  <2>3. CASE Claim(w) \/ Gate(w) \/ Limit(w) \/ Requeue(w) \/ Unclaim(w)
    BY <2>3 DEF Claim, Gate, Limit, Requeue, Unclaim, Return, Goto, Hold
  <2>4. CASE Send(w) \/ LogFailure(w) \/ LogSuccess(w) \/ Settle(w)
    BY <2>4 DEF Send, LogFailure, LogSuccess, Settle, Return, Goto, Hold
  <2>5. CASE HandleRetry(w)
    <3>1. (Goto(w, "deadletter") /\ Hold(w, Blank)) \/ Return(w)
      BY <2>5 DEF HandleRetry
    <3>2. QED BY <3>1 DEF Return, Goto, Hold
  <2>6. QED BY <1>3, <2>1, <2>2, <2>3, <2>4, <2>5 DEF WorkerStep
<1>4. ASSUME NEW h \in Host, Crash(h) PROVE Goal
  BY <1>4 DEF Crash, TypeOK
<1>5. CASE UNCHANGED <<pc, copy>>
  BY <1>5
<1>6. QED
  BY <1>3, <1>4, <1>5
     DEF Next, Create, CreatorStep, MarkQueued, EnqueueCreated, Cancel, CreateBatch, CancelBatch,
         PollerStep, Poll, EnqueuePolled, ApiCrash, vars

\* Rows other than the worker's message keep their value, and its own is only
\* written by a worker that has a copy.
LEMMA WorkerWrites ==
    ASSUME CopyInv, NEW w \in Worker, WorkerStep(w), NEW n \in Notification, row'[n] # row[n]
    PROVE  msg[w] = n /\ copy[w] # Blank
<1> USE DEF CopyInv, TypeOK
<1>1. /\ pc[w] \in {"claim", "retry", "unclaim", "settle"}
      /\ \E r : row' = [row EXCEPT ![msg[w]] = r]
  <2>1. CASE Claim(w)
    BY <2>1 DEF Claim, Save
  <2>2. CASE HandleRetry(w)
    BY <2>2 DEF HandleRetry, Save
  <2>3. CASE Unclaim(w) \/ Settle(w)
    BY <2>3 DEF Unclaim, Settle, Save
  <2>4. CASE UNCHANGED row
    BY <2>4
  <2>5. QED
    BY <2>1, <2>2, <2>3, <2>4
       DEF WorkerStep, Dequeue, Load, Gate, Limit, Requeue, Send, LogFailure, DeadLetter,
           LogSuccess, Ack
<1>2. msg[w] = n
  BY <1>1
<1>3. copy[w].status = "processing" /\ Blank.status = "absent"
  BY <1>1 DEF Blank, NewRow
<1>4. QED BY <1>2, <1>3

LEMMA FinalStep ==
    ASSUME CopyInv, [Next]_vars, NEW n \in Notification, FinalRow(n)
    PROVE  row'[n] = row[n] \/ InFlight(n)
<1> USE DEF CopyInv, TypeOK
<1>1. row[n].status \notin {"absent", "pending", "scheduled", "queued"} /\ ~Parked(n)
  BY DEF FinalRow, IsFinal
<1>2. ASSUME NEW m \in Notification, Create(m) \/ CreatorStep(m)
      PROVE  row'[n] = row[n] \/ InFlight(n)
  BY <1>1, <1>2 DEF Create, CreatorStep, MarkQueued, EnqueueCreated, Save, InFlight
<1>3. CASE CreateBatch
  BY <1>1, <1>3 DEF CreateBatch
<1>4. CASE CancelBatch \/ \E m \in Notification : Cancel(m)
  BY <1>1, <1>4 DEF CancelBatch, Cancel, CanCancel, SetStatus
<1>5. ASSUME NEW w \in Worker, WorkerStep(w) PROVE row'[n] = row[n] \/ InFlight(n)
  BY <1>5, WorkerWrites DEF InFlight
<1>6. ASSUME NEW p \in Poller, Poll(p) PROVE row'[n] = row[n]
  <2>1. ~Selects(p, n)
    BY <1>1 DEF Selects, Parked, Poller
  <2>2. QED BY <1>6, <2>1 DEF Poll, SetStatus
<1>7. CASE UNCHANGED row
  BY <1>7
<1>8. QED
  BY <1>2, <1>3, <1>4, <1>5, <1>6, <1>7
     DEF Next, PollerStep, EnqueuePolled, Crash, ApiCrash, vars

(***************************************************************************)
(* A final row is only changed by a worker that had already loaded it or   *)
(* by a Create that has still to mark it queued, whatever fails.           *)
(***************************************************************************)
THEOREM FinalRowsAreLeftAlone == Spec => FinalUnlessInFlight
<1>1. Init => CopyInv
  BY InitTypeOK DEF Init, CopyInv
<1>2. CopyInv /\ [Next]_vars =>
         [\A n \in Notification : FinalRow(n) => row'[n] = row[n] \/ InFlight(n)]_vars
  BY FinalStep
<1>3. QED BY <1>1, <1>2, CopyStep, PTL DEF Spec, FinalUnlessInFlight

=============================================================================
