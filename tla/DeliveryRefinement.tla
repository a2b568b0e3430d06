------------------------- MODULE DeliveryRefinement -------------------------
(***************************************************************************)
(* Delivery implements Custody: the initial state maps to the initial      *)
(* state, and every step to a step or a stutter.  And what follows from    *)
(* Custody alone.                                                          *)
(***************************************************************************)
EXTENDS DeliveryProofs

LEMMA CarriedIff ==
    ASSUME NEW n \in Notification
    PROVE  Carried(n) <=> \/ ByWorker(n) \/ ByPoller(n) \/ ByQueue(n) \/ ByCreator(n)
                          \/ Parked(n) \/ \E w \in Worker : Burying(w, n)
  BY DEF Carried, Custodians, ByWorker, ByPoller, ByQueue, ByCreator

LEMMA CarriedIffNext ==
    ASSUME NEW n \in Notification
    PROVE  Carried(n)' <=> \/ ByWorker(n)' \/ ByPoller(n)' \/ ByQueue(n)' \/ ByCreator(n)'
                           \/ Parked(n)' \/ \E w \in Worker : Burying(w, n)'
  BY DEF Carried, Custodians, ByWorker, ByPoller, ByQueue, ByCreator

\* Nobody picks up a notification that has been let go of.
LEMMA CarriedStep ==
    ASSUME CustodyInv, [Next]_vars,
           NEW m \in Notification, row[m].status # "absent", ~Carried(m)
    PROVE  ~Carried(m)'
<1> USE DEF CustodyInv, TypeOK, stores, workers, ByWorker, ByQueue, ByCreator, ByPoller,
            Holds, Holding, Burying
<1>1. /\ ~ByWorker(m) /\ ~ByPoller(m) /\ ~ByQueue(m) /\ ~ByCreator(m) /\ ~Parked(m)
      /\ \A w \in Worker : ~Burying(w, m)
  BY CarriedIff
<1>2. ~Parked(m)'
  <2>1. \A w \in Worker : HandleRetry(w) => Holds(w, msg[w])
    BY DEF HandleRetry
  <2>2. QED BY <1>1, <2>1, ParkedStep
<1>3. SUFFICES /\ ~ByWorker(m)' /\ ~ByPoller(m)' /\ ~ByQueue(m)' /\ ~ByCreator(m)'
               /\ \A w \in Worker : ~Burying(w, m)'
  BY <1>2, CarriedIffNext
<1> DEFINE Goal == /\ ~ByWorker(m)' /\ ~ByPoller(m)' /\ ~ByQueue(m)' /\ ~ByCreator(m)'
                   /\ \A w \in Worker : ~Burying(w, m)'
<1>4. ASSUME NEW n \in Notification, Create(n) \/ CreatorStep(n) PROVE Goal
  <2>1. CASE Create(n)
    BY <1>1, <2>1 DEF Create
  <2>2. CASE MarkQueued(n)
    BY <1>1, <2>2 DEF MarkQueued
  <2>3. CASE EnqueueCreated(n)
    BY <1>1, <2>3 DEF EnqueueCreated, Push
  <2>4. QED BY <1>4, <2>1, <2>2, <2>3 DEF CreatorStep
<1>5. CASE CreateBatch \/ CancelBatch \/ \E n \in Notification : Cancel(n)
  BY <1>1, <1>5 DEF CreateBatch, CancelBatch, Cancel
<1>6. ASSUME NEW w \in Worker, WorkerStep(w) PROVE Goal
  <2> USE DEF Goto, Return
  <2>1. CASE Dequeue(w)
    BY <1>1, <2>1 DEF Dequeue
  <2>2. CASE Requeue(w)
    BY <1>1, <2>2 DEF Requeue, Push
  <2>3. CASE Ack(w)
    BY <1>1, <2>3, DeliveryAssumption DEF Ack
  <2>4. ASSUME \E l \in Label : Goto(w, l),
               pc'[w] \in Holding \cup {"deadletter"} => pc[w] \in Holding,
               UNCHANGED <<queue, creator, batch, msg>>
        PROVE  Goal
    BY <1>1, <2>4
  <2>5. CASE Load(w) \/ Claim(w) \/ Gate(w) \/ Limit(w) \/ Send(w) \/ DeadLetter(w)
    BY <2>4, <2>5 DEF Load, Claim, Gate, Limit, Send, DeadLetter, Label
  <2>6. CASE Unclaim(w) \/ LogFailure(w) \/ LogSuccess(w) \/ Settle(w)
    BY <2>4, <2>6 DEF Unclaim, LogFailure, LogSuccess, Settle, Label
  <2>7. CASE HandleRetry(w)
    <3>1. pc[w] = "retry" /\ (Goto(w, "ack") \/ Goto(w, "deadletter"))
          /\ UNCHANGED <<queue, creator, batch, msg>>
      BY <2>7 DEF HandleRetry
    <3>2. QED BY <2>4, <3>1 DEF Label
  <2>8. QED
    BY <1>6, <2>1, <2>2, <2>3, <2>5, <2>6, <2>7 DEF WorkerStep
<1>7. ASSUME NEW p \in Poller, Poll(p) PROVE Goal
  <2>1. ~Selects(p, m)
    BY <1>1 DEF Selects, Parked, Poller
  <2>2. QED BY <1>1, <1>7, <2>1 DEF Poll
<1>8. ASSUME NEW p \in Poller, NEW n \in Notification, EnqueuePolled(p, n) PROVE Goal
  BY <1>1, <1>8 DEF EnqueuePolled, Push
<1>9. CASE \E h \in Host : Crash(h)
  BY <1>1, <1>9 DEF Crash
<1>10. CASE ApiCrash \/ UNCHANGED vars
  BY <1>1, <1>10 DEF ApiCrash, vars
<1>11. QED
  BY <1>4, <1>5, <1>6, <1>7, <1>8, <1>9, <1>10 DEF Next, PollerStep

LEMMA LifeStep ==
    ASSUME CustodyInv, [Next]_vars, NEW m \in Notification
    PROVE  /\ Life(m) = "carried" => Life(m)' \in {"carried", "closed"}
           /\ Life(m) = "closed" => Life(m)' = "closed"
           /\ Life(m)' \in {"unborn", "carried", "closed"}
  BY RowsStay, CarriedStep DEF Life

-----------------------------------------------------------------------------
lives == [n \in Notification |-> Life(n)]

LEMMA LivesInit == Init => Promise!Init
<1> SUFFICES ASSUME Init PROVE Promise!Init
  OBVIOUS
<1>1. ASSUME NEW n \in Notification PROVE Life(n) = "unborn"
  BY DEF Init, Life, Blank, NewRow
<1>2. QED BY <1>1 DEF Init, Promise!Init

\* A step that neither sends nor buries and in which nothing is created lets
\* go of some notifications.
LEMMA Release ==
    ASSUME CustodyInv, [Next]_vars, UNCHANGED <<accepted, dlq>>,
           \A m \in Notification : row'[m].status # "absent" => row[m].status # "absent"
    PROVE  \E S \in SUBSET Notification : Promise!LetGo(S)
<1> DEFINE S == {m \in Notification : Life(m) = "carried" /\ Life(m)' = "closed"}
<1>1. ASSUME NEW m \in Notification
      PROVE  Life(m)' = IF m \in S THEN "closed" ELSE Life(m)
  <2>1. Life(m) = "unborn" => Life(m)' = "unborn"
    BY DEF Life
  <2>2. Life(m) \in {"unborn", "carried", "closed"}
    BY DEF Life
  <2>3. QED BY <2>1, <2>2, LifeStep
<1>2. lives' = [m \in Notification |-> IF m \in S THEN "closed" ELSE lives[m]]
  BY <1>1 DEF lives
<1>3. \A m \in S : lives[m] = "carried"
  BY DEF lives
<1>4. Promise!LetGo(S)
  BY <1>2, <1>3 DEF Promise!LetGo, lives
<1>5. QED BY <1>4

\* A step that only creates rows, and leaves everybody else's as they are.
LEMMA Birth ==
    ASSUME CustodyInv, [Next]_vars, UNCHANGED <<accepted, dlq>>,
           NEW S \in SUBSET Notification,
           \A m \in S : row[m].status = "absent" /\ row'[m].status # "absent",
           \A m \in Notification \ S : Life(m)' = Life(m)
    PROVE  Promise!Arrive(S)
<1> DEFINE born == {m \in S : Life(m)' = "carried"}
<1>1. ASSUME NEW m \in Notification
      PROVE  Life(m)' = IF m \in born THEN "carried" ELSE IF m \in S THEN "closed" ELSE Life(m)
  BY DEF Life
<1>2. lives' = [m \in Notification |-> IF m \in born THEN "carried"
                                        ELSE IF m \in S THEN "closed" ELSE lives[m]]
  BY <1>1 DEF lives
<1>3. \A m \in S : lives[m] = "unborn"
  BY DEF lives, Life
<1>4. QED BY <1>2, <1>3 DEF Promise!Arrive, lives

\* The worker that sends a message carries it, before and after.
LEMMA SendMaps ==
    ASSUME OutcomeInv, [Next]_vars, NEW w \in Worker, Send(w)
    PROVE  [Promise!Next]_Promise!vars
<1> USE DEF OutcomeInv, CustodyInv, TypeOK
<1>1. pc[w] = "send" /\ msg[w] \in Notification /\ Holds(w, msg[w])
  BY DEF Send, Holds, Holding
<1>2. /\ pc'[w] \in {"logSuccess", "logFailure"}
      /\ \A v \in Worker : v # w => pc'[v] = pc[v]
      /\ UNCHANGED <<row, queue, processing, dlq, attempts, creator, batch, msg>>
  BY DEF Send, Goto, stores
<1>3. ASSUME NEW m \in Notification PROVE Life(m)' = Life(m)
  <2>1. \A v \in Worker : Holds(v, m)' <=> Holds(v, m)
    BY <1>1, <1>2 DEF Holds, Holding
  <2>2. \A v \in Worker : Burying(v, m)' <=> Burying(v, m)
    BY <1>1, <1>2 DEF Burying
  <2>3. Parked(m)' <=> Parked(m)
    BY <1>2 DEF Parked, RetryReady
  <2>4. Carried(m)' <=> Carried(m)
    BY <1>2, <2>1, <2>2, <2>3, CarriedIff, CarriedIffNext DEF ByWorker, ByQueue, ByPoller, ByCreator
  <2>5. QED BY <1>2, <2>4 DEF Life
<1>4. lives' = lives
  BY <1>3 DEF lives
<1>5. CASE UNCHANGED accepted
  BY <1>2, <1>4, <1>5 DEF Promise!vars, lives
<1>6. CASE accepted' = [accepted EXCEPT ![msg[w]] = @ + 1]
  <2>1. Undecided(msg[w])
    BY <1>1, HolderDecides
  <2>2. Life(msg[w]) = "carried"
    <3>1. row[msg[w]].status # "absent"
      BY <1>1 DEF AbsentIsUnknown, Unknown
    <3>2. Carried(msg[w])
      BY <1>1, CarriedIff DEF ByWorker
    <3>3. QED BY <3>1, <3>2 DEF Life
  <2>3. lives[msg[w]] = "carried"
    BY <1>1, <2>2 DEF lives
  <2>4. accepted' = [accepted EXCEPT ![msg[w]] = 1]
    BY <1>1, <1>6, <2>1 DEF Undecided
  <2>5. Promise!Accept(msg[w])
    BY <1>2, <1>4, <2>1, <2>3, <2>4 DEF Promise!Accept, Promise!NoOutcome, Undecided, lives
  <2>6. QED BY <1>1, <2>5 DEF Promise!Next
<1>7. QED BY <1>5, <1>6 DEF Send

\* The worker that dead-letters a message is the last one to have carried it.
LEMMA DeadLetterMaps ==
    ASSUME OutcomeInv, [Next]_vars, NEW w \in Worker, DeadLetter(w)
    PROVE  [Promise!Next]_Promise!vars
<1> USE DEF OutcomeInv, CustodyInv, TypeOK
<1>1. msg[w] \in Notification /\ Burying(w, msg[w])
  BY DEF DeadLetter, Burying
<1>2. /\ pc' = [pc EXCEPT ![w] = "ack"]
      /\ UNCHANGED <<row, queue, creator, batch, msg, accepted>>
  BY DEF DeadLetter, Goto
<1>3. /\ Undecided(msg[w]) /\ OnlyWorkers(msg[w]) /\ ~ByWorker(msg[w])
      /\ \A v \in Worker : Burying(v, msg[w]) => v = w
  BY <1>1 DEF Decided
<1>4. CASE UNCHANGED dlq
  <2>1. \E S \in SUBSET Notification : Promise!LetGo(S)
    BY <1>2, <1>4, Release
  <2>2. QED BY <2>1 DEF Promise!Next
<1>5. CASE dlq' = [dlq EXCEPT ![msg[w]] = @ + 1]
  <2>1. dlq' = [dlq EXCEPT ![msg[w]] = 1]
    BY <1>1, <1>3, <1>5 DEF Undecided
  <2>2. ASSUME NEW m \in Notification, m # msg[w] PROVE Life(m)' = Life(m)
    <3>1. \A v \in Worker : Holds(v, m)' <=> Holds(v, m)
      BY <1>1, <1>2, <2>2 DEF Holds, Holding
    <3>2. \A v \in Worker : Burying(v, m)' <=> Burying(v, m)
      BY <1>1, <1>2, <2>2 DEF Burying
    <3>3. Parked(m)' <=> Parked(m)
      BY <1>2 DEF Parked, RetryReady
    <3>4. Carried(m)' <=> Carried(m)
      BY <1>2, <3>1, <3>2, <3>3, CarriedIff, CarriedIffNext DEF ByWorker, ByQueue, ByPoller, ByCreator
    <3>5. QED BY <1>2, <3>4 DEF Life
  <2>3. Life(msg[w]) = "carried" /\ Life(msg[w])' = "closed"
    <3>1. row[msg[w]].status # "absent"
      BY <1>1 DEF AbsentIsUnknown, Unknown, Burying
    <3>2. Carried(msg[w])
      BY <1>1, CarriedIff
    <3>3. ~ByWorker(msg[w])'
      BY <1>1, <1>2, <1>3 DEF ByWorker, Holds, Holding
    <3>4. ~ByQueue(msg[w])' /\ ~ByCreator(msg[w])' /\ ~ByPoller(msg[w])' /\ ~Parked(msg[w])'
      BY <1>2, <1>3 DEF OnlyWorkers, ByQueue, ByCreator, ByPoller, Parked, RetryReady
    <3>5. \A v \in Worker : ~Burying(v, msg[w])'
      BY <1>1, <1>2, <1>3 DEF Burying
    <3>6. ~Carried(msg[w])'
      BY <1>2, <1>1, <3>3, <3>4, <3>5 DEF Carried, Custodians, ByWorker, ByQueue, ByCreator, ByPoller
    <3>7. QED BY <1>1, <1>2, <3>1, <3>2, <3>6 DEF Life
  <2>4. /\ lives' = [m \in Notification |-> IF m = msg[w] THEN "closed" ELSE Life(m)]
        /\ lives' = [lives EXCEPT ![msg[w]] = "closed"]
        /\ lives[msg[w]] = "carried"
    <3>1. ASSUME NEW m \in Notification
          PROVE  Life(m)' = IF m = msg[w] THEN "closed" ELSE Life(m)
      <4>1. CASE m = msg[w]
        <5>1. Life(msg[w])' = Life(m)'
          BY <1>2, <4>1 DEF Life, Carried, Custodians, Holds, Parked, RetryReady, Burying
        <5>2. QED BY <2>3, <4>1, <5>1
      <4>2. CASE m # msg[w]
        BY <2>2, <4>2
      <4>3. QED BY <4>1, <4>2
    <3>2. lives' = [m \in Notification |-> IF m = msg[w] THEN "closed" ELSE Life(m)]
      BY <3>1 DEF lives
    <3>3. QED BY <1>1, <2>3, <3>2 DEF lives
  <2>5. Promise!Bury(msg[w])
    BY <1>2, <1>3, <2>1, <2>4 DEF Promise!Bury, Promise!NoOutcome, Undecided, lives
  <2>6. QED BY <1>1, <2>5 DEF Promise!Next
<1>6. QED BY <1>4, <1>5 DEF DeadLetter

\* Creating rows leaves every other notification as it was.
LEMMA CreationMaps ==
    ASSUME CustodyInv, [Next]_vars,
           CreateBatch \/ \E n \in Notification : Create(n)
    PROVE  [Promise!Next]_Promise!vars
<1> USE DEF CustodyInv, TypeOK
<1>1. ASSUME NEW S \in SUBSET Notification,
             \A m \in S : row[m].status = "absent" /\ row'[m].status # "absent",
             \A m \in Notification \ S : row'[m] = row[m] /\ creator'[m] = creator[m],
             UNCHANGED <<attempts, dlq, queue, processing, batch, pc, msg, copy, accepted>>
      PROVE  Promise!Next
  <2>1. ASSUME NEW m \in Notification \ S PROVE Life(m)' = Life(m)
    <3>1. Parked(m)' <=> Parked(m)
      BY <1>1 DEF Parked, RetryReady
    <3>2. Carried(m)' <=> Carried(m)
      BY <1>1, <3>1, CarriedIff, CarriedIffNext
         DEF ByWorker, ByQueue, ByPoller, ByCreator, Holds, Holding, Burying
    <3>3. QED BY <1>1, <3>2 DEF Life
  <2>2. Promise!Arrive(S)
    BY <1>1, <2>1, Birth
  <2>3. QED BY <2>2 DEF Promise!Next
<1>2. \A s : NewRow(s).status = s
  BY DEF NewRow
<1>3. ASSUME NEW n \in Notification, Create(n) PROVE Promise!Next
  <2>1. \A m \in {n} : row[m].status = "absent" /\ row'[m].status # "absent"
    BY <1>2, <1>3 DEF Create
  <2>2. \A m \in Notification \ {n} : row'[m] = row[m] /\ creator'[m] = creator[m]
    BY <1>3 DEF Create
  <2>3. UNCHANGED <<attempts, dlq, queue, processing, batch, pc, msg, copy, accepted>>
    BY <1>3 DEF Create, stores, workers
  <2>4. {n} \in SUBSET Notification
    OBVIOUS
  <2>5. QED BY <1>1, <2>1, <2>2, <2>3, <2>4
<1>4. CASE CreateBatch
  <2>1. \A m \in Batched : row[m].status = "absent" /\ row'[m].status # "absent"
    BY <1>2, <1>4, DeliveryAssumption DEF CreateBatch
  <2>2. \A m \in Notification \ Batched : row'[m] = row[m] /\ creator'[m] = creator[m]
    BY <1>4 DEF CreateBatch
  <2>3. UNCHANGED <<attempts, dlq, queue, processing, batch, pc, msg, copy, accepted>>
    BY <1>4 DEF CreateBatch, stores, workers
  <2>4. QED BY <1>1, <2>1, <2>2, <2>3, DeliveryAssumption
<1>5. QED BY <1>3, <1>4

LEMMA StepMaps ==
    ASSUME OutcomeInv, [Next]_vars
    PROVE  [Promise!Next]_Promise!vars
<1>1. CASE CreateBatch \/ \E n \in Notification : Create(n)
  BY <1>1, CreationMaps DEF OutcomeInv
<1>2. CASE \E w \in Worker : Send(w) \/ DeadLetter(w)
  BY <1>2, SendMaps, DeadLetterMaps
<1>3. CASE ~ (CreateBatch \/ \E n \in Notification : Create(n))
           /\ ~ \E w \in Worker : Send(w) \/ DeadLetter(w)
  <2>1. \A m \in Notification : row'[m].status # "absent" => row[m].status # "absent"
    BY <1>3, RowAppears DEF OutcomeInv
  <2>2. UNCHANGED <<accepted, dlq>>
    <3>1. ASSUME NEW n \in Notification, CreatorStep(n) \/ Cancel(n) PROVE UNCHANGED <<accepted, dlq>>
      BY <3>1 DEF CreatorStep, MarkQueued, EnqueueCreated, Cancel, stores, workers
    <3>2. CASE CancelBatch \/ ApiCrash \/ UNCHANGED vars \/ \E h \in Host : Crash(h)
      BY <3>2 DEF CancelBatch, ApiCrash, Crash, vars, stores, workers
    <3>3. ASSUME NEW w \in Worker, Dequeue(w) \/ Load(w) \/ Claim(w) \/ Gate(w) \/ Limit(w) \/ Requeue(w)
          PROVE  UNCHANGED <<accepted, dlq>>
      BY <3>3 DEF Dequeue, Load, Claim, Gate, Limit, Requeue, stores
    <3>4. ASSUME NEW w \in Worker,
                 Unclaim(w) \/ LogFailure(w) \/ HandleRetry(w) \/ LogSuccess(w) \/ Settle(w) \/ Ack(w)
          PROVE  UNCHANGED <<accepted, dlq>>
      BY <3>4 DEF Unclaim, LogFailure, HandleRetry, LogSuccess, Settle, Ack, stores
    <3>5. ASSUME NEW p \in Poller, PollerStep(p) PROVE UNCHANGED <<accepted, dlq>>
      BY <3>5 DEF PollerStep, Poll, EnqueuePolled, stores, workers
    <3>6. QED BY <1>3, <3>1, <3>2, <3>3, <3>4, <3>5 DEF Next, WorkerStep
  <2>3. \E S \in SUBSET Notification : Promise!LetGo(S)
    BY <2>1, <2>2, Release DEF OutcomeInv
  <2>4. QED BY <2>3 DEF Promise!Next
<1>4. QED BY <1>1, <1>2, <1>3

(***************************************************************************)
(* Whatever fails, a notification is let go of once, never picked up       *)
(* again, and reaches at most one outcome: the pipeline implements Custody *)
(* when the Redis client does not retransmit and the configured retry      *)
(* limit is not below the limit stored in the rows.                        *)
(***************************************************************************)
THEOREM PromiseKept ==
    ASSUME "resend" \notin Faults, RowMaxRetries <= MaxRetries
    PROVE  Spec => KeepsPromise
<1>1. OutcomeInv /\ [Next]_vars => OutcomeInv'
  BY OutcomeStep
<1>2. OutcomeInv /\ [Next]_vars => [Promise!Next]_Promise!vars
  BY StepMaps
<1>3. QED
  BY InitOutcome, LivesInit, <1>1, <1>2, PTL DEF Spec, KeepsPromise, Promise!Spec


-----------------------------------------------------------------------------
(* What the promise is worth: Custody by itself implies these.             *)

Outcomes ==
    /\ accepted \in [Notification -> Nat] /\ dlq \in [Notification -> Nat]
    /\ OneOutcome

\* A notification that has been let go of stays so.
Gone(n) == Life(n) = "closed"

LEMMA PromiseStep ==
    ASSUME Outcomes, [Promise!Next]_(Promise!vars)
    PROVE  Outcomes' /\ \A n \in Notification : Gone(n) => Gone(n)'
<1> DEFINE life == [n \in Notification |-> Life(n)]
<1>1. ASSUME life' = life PROVE \A n \in Notification : Life(n)' = Life(n)
  <2>1. \A n \in Notification : life[n] = Life(n) /\ life'[n] = Life(n)'
    OBVIOUS
  <2>2. QED BY <1>1, <2>1
<1>2. ASSUME NEW S \in SUBSET Notification, Promise!Arrive(S) \/ Promise!LetGo(S)
      PROVE  UNCHANGED <<accepted, dlq>> /\ \A n \in Notification : Gone(n) => Gone(n)'
  <2>1. \A n \in Notification : life[n] = Life(n) /\ life'[n] = Life(n)'
    OBVIOUS
  <2>2. CASE Promise!Arrive(S)
    BY <2>1, <2>2 DEF Promise!Arrive, Gone
  <2>3. CASE Promise!LetGo(S)
    BY <2>1, <2>3 DEF Promise!LetGo, Gone
  <2>4. QED BY <1>2, <2>2, <2>3 DEF Promise!Arrive, Promise!LetGo
<1>3. ASSUME NEW m \in Notification, Promise!Accept(m)
      PROVE  Outcomes' /\ \A n \in Notification : Gone(n) => Gone(n)'
  <2>1. Outcomes'
    BY <1>3 DEF Promise!Accept, Promise!NoOutcome, Outcomes, OneOutcome
  <2>2. QED BY <1>1, <1>3, <2>1 DEF Promise!Accept, Gone
<1>4. ASSUME NEW m \in Notification, Promise!Bury(m)
      PROVE  Outcomes' /\ \A n \in Notification : Gone(n) => Gone(n)'
  <2>1. Outcomes'
    BY <1>4 DEF Promise!Bury, Promise!NoOutcome, Outcomes, OneOutcome
  <2>2. \A n \in Notification : life[n] = Life(n) /\ life'[n] = Life(n)'
    OBVIOUS
  <2>3. QED BY <1>4, <2>1, <2>2 DEF Promise!Bury, Gone
<1>5. CASE UNCHANGED Promise!vars
  BY <1>1, <1>5 DEF Promise!vars, Outcomes, OneOutcome, Gone
<1>6. QED
  BY <1>2, <1>3, <1>4, <1>5 DEF Promise!Next, Outcomes, OneOutcome

(***************************************************************************)
(* The promise is enough for a client: from Custody alone, without another *)
(* look at Delivery, a notification has at most one outcome, and one the   *)
(* system has let go of is never carried again.                            *)
(***************************************************************************)
THEOREM PromiseIsEnough ==
    KeepsPromise => /\ []OneOutcome
                    /\ [][\A n \in Notification : Gone(n) => Gone(n)']_(Promise!vars)
<1>1. Promise!Init => Outcomes
  BY DEF Promise!Init, Outcomes, OneOutcome
<1>2. Outcomes /\ [Promise!Next]_(Promise!vars)
      => Outcomes' /\ \A n \in Notification : Gone(n) => Gone(n)'
  BY PromiseStep
<1>3. Outcomes => OneOutcome
  BY DEF Outcomes
<1>4. QED BY <1>1, <1>2, <1>3, PTL DEF KeepsPromise, Promise!Spec
=============================================================================
