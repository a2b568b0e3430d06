--------------------------- MODULE PipelineProofs ---------------------------
(***************************************************************************)
(* What is proved of Delivery and of CircuitBreaker by themselves is true  *)
(* of them together: Pipeline implements both, restarts included.  And the *)
(* breaker's slots are in the hands of workers that are on their way.      *)
(***************************************************************************)
EXTENDS Pipeline, DeliveryProofs, TLAPS

\* A step of Pipeline is one of Delivery, or touches only the breaker.
LEMMA DeliveryStep == [PipelineNext]_<<vars, circuit>> => [Next]_vars
<1> SUFFICES ASSUME [PipelineNext]_<<vars, circuit>> PROVE [Next]_vars
  OBVIOUS
<1>1. ASSUME NEW w \in Worker, AskBreaker(w) \/ AskLimiter(w) \/ Failed(w) \/ Succeeded(w)
      PROVE  Next
  <2>1. Gate(w) \/ Limit(w) \/ LogFailure(w) \/ LogSuccess(w)
    BY <1>1 DEF AskBreaker, AskLimiter, Failed, Succeeded
  <2>2. WorkerStep(w)
    BY <2>1 DEF WorkerStep
  <2>3. QED BY <2>2 DEF Next
<1>2. ASSUME NEW h \in Host, Restart(h) PROVE Next
  BY <1>2 DEF Restart, Next
<1>3. CASE ResetTimeout
  BY <1>3 DEF ResetTimeout
<1>4. CASE Elsewhere
  <2>1. ASSUME NEW w \in Worker,
               \/ Dequeue(w) \/ Load(w) \/ Claim(w) \/ Requeue(w) \/ Unclaim(w)
               \/ Send(w) \/ HandleRetry(w) \/ DeadLetter(w) \/ Settle(w) \/ Ack(w)
        PROVE  Next
    <3>1. WorkerStep(w)
      BY <2>1 DEF WorkerStep
    <3>2. QED BY <3>1 DEF Next
  <2>2. QED BY <1>4, <2>1 DEF Elsewhere, Next
<1>5. CASE UNCHANGED <<vars, circuit>>
  BY <1>5
<1>6. QED BY <1>1, <1>2, <1>3, <1>4, <1>5 DEF PipelineNext

\* A step of Pipeline is one of its breaker, leaves the breaker alone, or is a restart.
LEMMA StepOrRestart ==
    ASSUME [PipelineNext]_<<vars, circuit>>
    PROVE  [Breaker!Next]_(Breaker!vars) \/ \E h \in Host : Restart(h)
<1>1. circuit' = circuit => UNCHANGED Breaker!vars
  BY DEF circuit, Breaker!vars, Breaker!breaker, Breaker!underWay
<1>2. ASSUME NEW w \in Worker, AskBreaker(w) \/ AskLimiter(w) \/ Failed(w) \/ Succeeded(w)
      PROVE  Breaker!Next \/ UNCHANGED circuit
  <2>1. \/ Breaker!Allow(w) \/ Breaker!Abandon(w)
        \/ Breaker!RecordFailure(w) \/ Breaker!RecordSuccess(w)
        \/ UNCHANGED circuit
    BY <1>2 DEF AskBreaker, AskLimiter, Failed, Succeeded
  <2>2. Breaker!Allow(w) \/ Breaker!Finish(w) \/ UNCHANGED circuit
    BY <2>1 DEF Breaker!Finish
  <2>3. QED BY <2>2 DEF Breaker!Next
<1>3. ResetTimeout => Breaker!Next
  BY DEF ResetTimeout, Breaker!Next
<1>4. Elsewhere => UNCHANGED circuit
  BY DEF Elsewhere
<1>5. UNCHANGED <<vars, circuit>> => UNCHANGED circuit
  OBVIOUS
<1>6. QED BY <1>1, <1>2, <1>3, <1>4, <1>5 DEF PipelineNext

(***************************************************************************)
(* Whatever the breaker answers, the workers behave as Delivery says: the  *)
(* breaker only resolves a choice that Delivery leaves open.               *)
(***************************************************************************)
THEOREM WorkersAreDelivery == PipelineSpec => Spec
<1>1. PipelineInit => Init
  BY DEF PipelineInit
<1>2. QED BY <1>1, DeliveryStep, PTL DEF PipelineSpec, Spec

(***************************************************************************)
(* However the workers of a process interleave, their calls of its breaker *)
(* are those that CircuitBreaker allows, until the process stops.          *)
(***************************************************************************)
THEOREM GateIsBreaker ==
    ASSUME "crash" \notin Faults
    PROVE  PipelineSpec => Breaker!Spec
<1>1. PipelineInit => Breaker!Init
  BY DEF PipelineInit
<1>2. [PipelineNext]_<<vars, circuit>> => [Breaker!Next]_(Breaker!vars)
  BY StepOrRestart DEF Restart, Crash
<1>3. QED BY <1>1, <1>2, PTL DEF PipelineSpec, Breaker!Spec

(***************************************************************************)
(* With the real breaker, too, a notification has one custodian at a time. *)
(***************************************************************************)
THEOREM SoleCustodyInPipeline ==
    ASSUME "resend" \notin Faults
    PROVE  PipelineSpec => []SoleCustodian
<1>1. Spec => []SoleCustodian
  BY SoleCustody
<1>2. QED BY <1>1, WorkersAreDelivery, PTL

-----------------------------------------------------------------------------
(* The breaker's own invariants, kept by the workers and by restarts.      *)

Proved == INSTANCE CircuitBreakerProofs WITH Call <- Worker

\* The lemmas about the breaker speak of the breaker that Pipeline has.
LEMMA SameBreaker ==
    /\ Breaker!Init <=> Proved!Init
    /\ [Breaker!Next]_(Breaker!vars) <=> [Proved!Next]_(Proved!vars)
  BY DEF Breaker!Init, Proved!Init, Breaker!Next, Proved!Next, Breaker!vars, Proved!vars,
         Breaker!Finish, Proved!Finish, Breaker!Allow, Proved!Allow, Breaker!Abandon, Proved!Abandon,
         Breaker!RecordSuccess, Proved!RecordSuccess, Breaker!RecordFailure, Proved!RecordFailure,
         Breaker!SuccessWhenClosed, Proved!SuccessWhenClosed, Breaker!CountSuccess, Proved!CountSuccess,
         Breaker!Close, Proved!Close, Breaker!FailureWhenClosed, Proved!FailureWhenClosed,
         Breaker!Reopen, Proved!Reopen, Breaker!Report, Proved!Report, Breaker!Return, Proved!Return,
         Breaker!EndEpisode, Proved!EndEpisode, Breaker!UnderWay, Proved!UnderWay,
         Breaker!Cool, Proved!Cool, Breaker!ProviderRecovers, Proved!ProviderRecovers,
         Breaker!breaker, Proved!breaker, Breaker!underWay, Proved!underWay


LEMMA Given ==
    ASSUME OneBreaker
    PROVE  Proved!Parameters
  BY DEF OneBreaker, Breaker!Parameters, Proved!Parameters, Breaker!IsFiniteSet, Proved!IsFiniteSet

\* What the breaker's proofs show to be inductive survives a restart as well.
LEMMA RestartedBreaker ==
    ASSUME OneBreaker, Proved!NoLeakInv, NEW h \in Host, Restart(h)
    PROVE  Proved!NoLeakInv'
<1>1. /\ state' = "closed" /\ failureCount' = 0 /\ successCount' = 0 /\ halfOpenCount' = 0
      /\ probes' = {} /\ calls' = {}
  BY DEF Restart
<1>2. cooled' \in BOOLEAN /\ leaked' \in BOOLEAN
  BY Zenon DEF Restart
<1>3. healthy' \in BOOLEAN
  BY Zenon DEF Restart, Proved!NoLeakInv, Proved!SlotsInv, Proved!LimitsInv, Proved!TypeOK
<1>4. Proved!LimitsInv'
  BY <1>1, <1>2, <1>3, Given, Proved!Numbers
     DEF Proved!LimitsInv, Proved!TypeOK, Proved!ClosedHasRoom
<1>5. QED BY <1>1, <1>4 DEF Proved!NoLeakInv, Proved!SlotsInv

LEMMA BreakerStep ==
    ASSUME OneBreaker
    PROVE  Proved!NoLeakInv /\ [PipelineNext]_<<vars, circuit>> => Proved!NoLeakInv'
<1>1. Proved!NoLeakInv /\ [Breaker!Next]_(Breaker!vars) => Proved!NoLeakInv'
  BY SameBreaker, Given, Proved!NoLeakStep
<1>2. QED BY <1>1, StepOrRestart, RestartedBreaker

LEMMA InitBreaker ==
    ASSUME OneBreaker
    PROVE  PipelineInit => Proved!NoLeakInv
  BY SameBreaker, Given, Proved!InitNoLeak DEF PipelineInit

(***************************************************************************)
(* Also when the process stops and starts again in between, its breaker    *)
(* limits the test calls, has room for failures when closed, and is not    *)
(* stuck half-open unless a test call never reported.                      *)
(***************************************************************************)
THEOREM BreakerSurvivesRestarts ==
    ASSUME OneBreaker
    PROVE  PipelineSpec => [](/\ Breaker!TypeOK /\ Breaker!ClosedHasRoom
                              /\ Breaker!ProbeLimit /\ Breaker!NotWedged)
<1>1. Proved!NoLeakInv => Proved!SlotsInv /\ Proved!LimitsInv
  BY DEF Proved!NoLeakInv, Proved!SlotsInv
<1>2. Proved!LimitsInv => Breaker!TypeOK /\ Breaker!ClosedHasRoom
  BY Zenon DEF Proved!LimitsInv, Proved!TypeOK, Breaker!TypeOK, Proved!ClosedHasRoom, Breaker!ClosedHasRoom
<1>3. Proved!SlotsInv => Breaker!ProbeLimit
  <2>1. Proved!SlotsInv => Proved!ProbeLimit
    BY Given, Proved!SlotsSuffice
  <2>2. QED BY <2>1
    DEF Proved!ProbeLimit, Breaker!ProbeLimit, Proved!Cardinality, Breaker!Cardinality
<1>4. Proved!NoLeakInv => Breaker!NotWedged
  <2>1. Proved!NoLeakInv => Proved!NotWedged
    BY Given, Proved!NoLeakSuffices
  <2>2. QED BY <2>1 DEF Proved!NotWedged, Breaker!NotWedged
<1>5. PipelineInit => Proved!NoLeakInv
  BY InitBreaker
<1>6. Proved!NoLeakInv /\ [PipelineNext]_<<vars, circuit>> => Proved!NoLeakInv'
  BY BreakerStep
<1>7. QED BY <1>1, <1>2, <1>3, <1>4, <1>5, <1>6, PTL DEF PipelineSpec

-----------------------------------------------------------------------------
(* The calls the breaker waits for are those of workers on their way.      *)

CallersInv ==
    /\ TypeOK
    /\ Proved!NoLeakInv
    /\ probes \cup calls = Admitted

LEMMA CallersStep ==
    ASSUME OneBreaker, CallersInv, [PipelineNext]_<<vars, circuit>>
    PROVE  CallersInv'
<1>1. TypeOK'
  BY DeliveryStep, StepTypeOK DEF CallersInv
<1>2. Proved!NoLeakInv'
  BY BreakerStep DEF CallersInv
<1>3. SUFFICES (probes \cup calls = Admitted)'
  BY <1>1, <1>2 DEF CallersInv
<1>4. pc \in [Worker -> Label] /\ probes \cup calls = Admitted
  BY DEF CallersInv, TypeOK
<1>5. state # "halfOpen" => probes = {}
  BY DEF CallersInv, Proved!NoLeakInv, Proved!SlotsInv
<1> USE <1>4, <1>5 DEF Admitted, Calling, Goto, circuit
<1>6. ASSUME NEW w \in Worker, AskBreaker(w) PROVE (probes \cup calls = Admitted)'
  <2>1. CASE pc'[w] = "retry" /\ UNCHANGED circuit
    BY <1>6, <2>1 DEF AskBreaker, Gate
  <2>2. CASE pc'[w] = "limit" /\ Breaker!Allow(w)
    <3>1. probes' \cup calls' = probes \cup calls \cup {w}
      BY <2>2 DEF Breaker!Allow
    <3>2. Admitted' = Admitted \cup {w}
      BY <1>6, <2>2 DEF AskBreaker, Gate
    <3>3. QED BY <3>1, <3>2
  <2>3. QED BY <1>6, <2>1, <2>2 DEF AskBreaker
<1>7. ASSUME NEW w \in Worker, AskLimiter(w) PROVE (probes \cup calls = Admitted)'
  <2>1. CASE pc'[w] = "send" /\ UNCHANGED circuit
    BY <1>7, <2>1 DEF AskLimiter, Limit, Return
  <2>2. CASE pc'[w] # "send" /\ Breaker!Abandon(w)
    <3>1. probes' \cup calls' = (probes \cup calls) \ {w}
      BY <2>2 DEF Breaker!Abandon, Breaker!Return
    <3>2. Admitted' = Admitted \ {w}
      BY <1>7, <2>2 DEF AskLimiter, Limit, Return
    <3>3. QED BY <3>1, <3>2
  <2>3. QED BY <1>7, <2>1, <2>2 DEF AskLimiter
<1>8. ASSUME NEW w \in Worker, Failed(w) \/ Succeeded(w) PROVE (probes \cup calls = Admitted)'
  <2>1. Breaker!Report(w) \/ Breaker!EndEpisode(w)
    BY <1>8 DEF Failed, Succeeded, Breaker!RecordFailure, Breaker!RecordSuccess,
         Breaker!SuccessWhenClosed, Breaker!CountSuccess, Breaker!Close,
         Breaker!FailureWhenClosed, Breaker!Reopen
  <2>2. probes' \cup calls' = (probes \cup calls) \ {w}
    BY <2>1 DEF Breaker!Report, Breaker!Return, Breaker!EndEpisode, Breaker!UnderWay
  <2>3. Admitted' = Admitted \ {w}
    BY <1>8 DEF Failed, Succeeded, LogFailure, LogSuccess
  <2>4. QED BY <2>2, <2>3
<1>9. ASSUME NEW h \in Host, Restart(h) PROVE (probes \cup calls = Admitted)'
  <2>1. \A w \in Worker : pc'[w] = "idle"
    BY <1>9 DEF Restart, Crash, OneBreaker
  <2>2. QED BY <1>9, <2>1 DEF Restart
<1>10. CASE Elsewhere
  <2>1. UNCHANGED circuit
    BY <1>10 DEF Elsewhere
  <2>2. ASSUME NEW w \in Worker,
               \/ Dequeue(w) \/ Load(w) \/ Claim(w) \/ Requeue(w) \/ Unclaim(w)
               \/ Send(w) \/ HandleRetry(w) \/ DeadLetter(w) \/ Settle(w) \/ Ack(w)
        PROVE  Admitted' = Admitted
    BY <2>2 DEF Dequeue, Load, Claim, Requeue, Unclaim, Send, HandleRetry, DeadLetter, Settle, Ack, Return
  <2>3. UNCHANGED pc => Admitted' = Admitted
    OBVIOUS
  <2>4. Admitted' = Admitted
    BY <1>10, <2>2, <2>3
       DEF Elsewhere, Create, CreatorStep, MarkQueued, EnqueueCreated, Cancel, CreateBatch, CancelBatch,
           ApiCrash, PollerStep, Poll, EnqueuePolled, workers
  <2>5. QED BY <2>1, <2>4
<1>11. CASE ResetTimeout \/ UNCHANGED <<vars, circuit>>
  BY <1>11 DEF ResetTimeout, Breaker!Cool, Breaker!underWay, vars
<1>12. QED BY <1>6, <1>7, <1>8, <1>9, <1>10, <1>11 DEF PipelineNext

(***************************************************************************)
(* While a half-open breaker has no slot left, one of the process's        *)
(* workers has passed Allow and is still to report, for any number of      *)
(* workers, any thresholds and whatever fails, restarts included; unless   *)
(* the limiter turned a test call of this episode away.                    *)
(***************************************************************************)
THEOREM RefusalsEnd ==
    ASSUME OneBreaker
    PROVE  PipelineSpec => []SomebodyWillReport
<1>1. PipelineInit => CallersInv
  <2> SUFFICES ASSUME PipelineInit PROVE CallersInv
    OBVIOUS
  <2>1. TypeOK
    BY InitTypeOK DEF PipelineInit
  <2>2. probes \cup calls = Admitted
    BY DEF PipelineInit, Init, Breaker!Init, Admitted, Calling
  <2>3. QED BY <2>1, <2>2, InitBreaker DEF CallersInv
<1>2. CallersInv /\ [PipelineNext]_<<vars, circuit>> => CallersInv'
  BY CallersStep
<1>3. CallersInv => SomebodyWillReport
  <2> SUFFICES ASSUME CallersInv, state = "halfOpen", ~leaked, Admitted = {}
               PROVE  ~(halfOpenCount >= HalfOpenMax)
    BY DEF SomebodyWillReport
  <2>1. Proved!NotWedged
    BY Given, Proved!NoLeakSuffices DEF CallersInv
  <2>2. halfOpenCount < HalfOpenMax
    BY <2>1 DEF CallersInv, Proved!NotWedged
  <2>3. halfOpenCount \in Nat /\ HalfOpenMax \in Nat
    BY Given, Proved!Numbers
       DEF CallersInv, Proved!NoLeakInv, Proved!SlotsInv, Proved!LimitsInv, Proved!TypeOK
  <2>4. QED BY <2>2, <2>3
<1>4. QED BY <1>1, <1>2, <1>3, PTL DEF PipelineSpec

\* Only the limiter's refusals and failures keep a call from reporting.
LEMMA NothingLeaks ==
    ASSUME {"limiter", "throttle"} \cap Faults = {}, TypeOK, ~leaked, [PipelineNext]_<<vars, circuit>>
    PROVE  ~leaked'
<1>1. ASSUME NEW w \in Worker, AskBreaker(w) PROVE ~leaked'
  BY <1>1, Zenon DEF AskBreaker, Breaker!Allow, circuit
<1>2. ASSUME NEW w \in Worker, AskLimiter(w) PROVE ~leaked'
  <2>1. Limit(w) /\ "throttle" \notin Faults /\ "limiter" \notin Faults
    BY <1>2 DEF AskLimiter
  <2>2. pc[w] = "limit" /\ Goto(w, "send")
    BY <2>1 DEF Limit
  <2>3. pc'[w] = "send"
    BY <2>2 DEF Goto, TypeOK
  <2>4. UNCHANGED circuit
    BY <1>2, <2>3, Zenon DEF AskLimiter
  <2>5. QED BY <2>4, Zenon DEF circuit
<1>3. ASSUME NEW w \in Worker, Failed(w) \/ Succeeded(w) PROVE ~leaked'
  BY <1>3, Zenon
     DEF Failed, Succeeded, Breaker!RecordFailure, Breaker!RecordSuccess, Breaker!SuccessWhenClosed,
         Breaker!CountSuccess, Breaker!Close, Breaker!FailureWhenClosed, Breaker!Reopen,
         Breaker!Report, Breaker!EndEpisode
<1>4. ASSUME NEW h \in Host, Restart(h) PROVE ~leaked'
  BY <1>4, Zenon DEF Restart
<1>5. CASE Elsewhere \/ ResetTimeout \/ UNCHANGED <<vars, circuit>>
  BY <1>5, Zenon DEF Elsewhere, ResetTimeout, Breaker!Cool, Breaker!underWay, circuit
<1>6. QED BY <1>1, <1>2, <1>3, <1>4, <1>5 DEF PipelineNext

(***************************************************************************)
(* With a limiter that answers and never says no there is no exception:    *)
(* a half-open breaker without a slot always has a worker on its way to    *)
(* report.  What leaves it stuck in the run breaker_abandon is the limiter *)
(* alone.                                                                  *)
(***************************************************************************)
THEOREM OnlyTheLimiterLeaks ==
    ASSUME OneBreaker, {"limiter", "throttle"} \cap Faults = {}
    PROVE  PipelineSpec => [](state = "halfOpen" /\ halfOpenCount >= HalfOpenMax => Admitted # {})
<1>1. PipelineInit => ~leaked
  BY Zenon DEF PipelineInit, Breaker!Init
<1>2. TypeOK /\ ~leaked /\ [PipelineNext]_<<vars, circuit>> => ~leaked'
  BY NothingLeaks
<1>3. SomebodyWillReport /\ ~leaked
      => (state = "halfOpen" /\ halfOpenCount >= HalfOpenMax => Admitted # {})
  BY DEF SomebodyWillReport
<1>4. PipelineSpec => []SomebodyWillReport
  BY RefusalsEnd
<1>5. QED BY <1>1, <1>2, <1>3, <1>4, WorkersAreDelivery, TypeCorrect, PTL DEF PipelineSpec
=============================================================================
