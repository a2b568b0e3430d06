--------------------------- MODULE DispatchProofs ---------------------------
(***************************************************************************)
(* The sliding window bounds what is admitted, and refuses nobody without  *)
(* cause, for any limit, window and error of the clocks; and the queue     *)
(* serves in order as long as no clock reaches into the priority.          *)
(***************************************************************************)
EXTENDS Dispatch, FiniteSetTheorems, TLAPS

LEMMA OneMore ==
    ASSUME NEW S, NEW x, IsFiniteSet(S)
    PROVE  /\ IsFiniteSet(S \cup {x})
           /\ Cardinality(S \cup {x}) <= Cardinality(S) + 1
<1>1. CASE x \in S
  <2>1. S \cup {x} = S
    BY <1>1
  <2>2. Cardinality(S \cup {x}) = Cardinality(S) /\ IsFiniteSet(S \cup {x})
    BY <2>1, Zenon
  <2>3. Cardinality(S) \in Nat
    BY FS_CardinalityType
  <2>4. QED BY <2>2, <2>3
<1>2. CASE x \notin S
  <2>1. /\ IsFiniteSet(S \cup {x}) /\ Cardinality(S \cup {x}) = Cardinality(S) + 1
    BY <1>2, FS_AddElement
  <2>2. Cardinality(S) \in Nat
    BY FS_CardinalityType
  <2>3. QED BY <2>1, <2>2
<1>3. QED BY <1>1, <1>2

-----------------------------------------------------------------------------
(* The window.                                                             *)

\* What the callers' clocks said of a call, and how long Redis keeps it.
Stamped(d) ==
    /\ d.id <= served
    /\ d.at <= time
    /\ d.stamp <= d.at + Lead
    /\ d.at <= d.stamp + Lag
    /\ d.at + Window <= expires

\* The sorted set has every call that must still be counted, and nothing else
\* but calls that were admitted.
WindowInv ==
    /\ LimiterTypeOK
    /\ IsFiniteSet(admitted)
    /\ entries \subseteq admitted
    /\ \A d \in admitted : Stamped(d)
    /\ \A d \in admitted : d.at + Window > time + Lag + Lead => d \in entries
    /\ WindowBound

LEMMA InitWindow == LimiterInit => WindowInv
  BY FS_EmptySet DEF LimiterInit, WindowInv, LimiterTypeOK, WindowBound

\* What is dropped need not be counted any more, whatever the caller's clock.
LEMMA KeptCounts ==
    ASSUME WindowInv, NEW now \in Stamps
    PROVE  /\ Kept(now) \subseteq entries /\ IsFiniteSet(Kept(now))
           /\ Cardinality(Kept(now)) \in Nat
           /\ \A d \in admitted : d.at + Window > time + Lag + Lead => d \in Kept(now)
<1>1. Kept(now) \subseteq entries
  BY DEF Kept, Live
<1>2. IsFiniteSet(Kept(now))
  BY <1>1, FS_Subset DEF WindowInv
<1>3. ASSUME NEW d \in admitted, d.at + Window > time + Lag + Lead PROVE d \in Kept(now)
  <2>1. /\ d.at \in Nat /\ d.stamp \in Nat /\ time \in Nat /\ now \in Nat /\ expires \in Nat
    BY DEF WindowInv, LimiterTypeOK, Entry, Stamps
  <2>2. d \in entries /\ Stamped(d)
    BY <1>3 DEF WindowInv
  <2>3. time < expires
    BY <1>3, <2>1, <2>2, LimiterAssumption DEF Stamped
  <2>4. d.stamp + Window > now
    BY <1>3, <2>1, <2>2, LimiterAssumption DEF Stamped, Stamps
  <2>5. QED BY <2>2, <2>3, <2>4 DEF Kept, Live
<1>4. QED BY <1>1, <1>2, <1>3, FS_CardinalityType

LEMMA AdmitStep ==
    ASSUME WindowInv, NEW now \in Stamps, Admit(now), UNCHANGED time
    PROVE  WindowInv'
<1> DEFINE m == Member(now)
<1>1. /\ time \in Nat /\ now \in Nat /\ served \in Nat /\ expires \in Nat
      /\ now <= time + Lead /\ time <= now + Lag
  BY LimiterAssumption DEF WindowInv, LimiterTypeOK, Stamps
<1>2. m \in Entry /\ m.id = served + 1 /\ m.stamp = now /\ m.at = time
  BY <1>1 DEF Member, Entry
<1> HIDE DEF m
<1>3. /\ entries' = Kept(now) \cup {m} /\ admitted' = admitted \cup {m}
      /\ expires' = time + Window /\ served' = served + 1 /\ time' = time
  BY DEF Admit, m
<1>4. /\ Kept(now) \subseteq admitted /\ IsFiniteSet(Kept(now)) /\ Cardinality(Kept(now)) \in Nat
      /\ \A d \in admitted : d.at + Window > time + Lag + Lead => d \in Kept(now)
  BY KeptCounts DEF WindowInv
<1>5. \A d \in admitted : d \in Entry /\ Stamped(d)
  BY DEF WindowInv, LimiterTypeOK
<1>6. LimiterTypeOK'
  BY <1>1, <1>2, <1>3, <1>4, LimiterAssumption DEF WindowInv, LimiterTypeOK
<1>7. IsFiniteSet(admitted') /\ entries' \subseteq admitted'
  BY <1>3, <1>4, FS_AddElement DEF WindowInv
<1>8. \A d \in admitted' : Stamped(d)'
  BY <1>1, <1>2, <1>3, <1>5, LimiterAssumption DEF Stamped, Entry
<1>9. \A d \in admitted' : d.at + Window > time' + Lag + Lead => d \in entries'
  BY <1>3, <1>4
<1>10. ASSUME NEW e \in admitted' PROVE Cardinality(Recent(e)') <= Limit
  <2>1. CASE e \in admitted
    <3>1. e.id <= served /\ e.id \in Nat
      BY <1>5, <2>1 DEF Stamped, Entry
    <3>2. Recent(e)' = Recent(e)
      BY <1>1, <1>2, <1>3, <3>1 DEF Recent
    <3>3. QED BY <2>1, <3>2 DEF WindowInv, WindowBound
  <2>2. CASE e = m
    <3>1. Recent(e)' \subseteq Kept(now) \cup {m}
      BY <1>2, <1>3, <1>4, <2>2 DEF Recent
    <3>2. /\ IsFiniteSet(Kept(now) \cup {m})
          /\ Cardinality(Kept(now) \cup {m}) <= Cardinality(Kept(now)) + 1
      BY <1>4, OneMore
    <3>3. /\ Cardinality(Recent(e)') \in Nat /\ Cardinality(Kept(now) \cup {m}) \in Nat
          /\ Cardinality(Recent(e)') <= Cardinality(Kept(now) \cup {m})
      BY <3>1, <3>2, FS_Subset, FS_CardinalityType
    <3>4. Cardinality(Kept(now)) < Limit
      BY DEF Admit
    <3>5. QED BY <1>4, <3>2, <3>3, <3>4, LimiterAssumption
  <2>3. QED BY <1>3, <2>1, <2>2
<1>11. WindowBound'
  BY <1>10 DEF WindowBound
<1>12. QED BY <1>6, <1>7, <1>8, <1>9, <1>11 DEF WindowInv

LEMMA WindowStep == WindowInv /\ [LimiterNext]_limiterVars => WindowInv'
<1> SUFFICES ASSUME WindowInv, [LimiterNext]_limiterVars PROVE WindowInv'
  OBVIOUS
<1>1. CASE Tick
  <2>1. time' = time + 1 /\ UNCHANGED <<entries, expires, served, admitted>>
    BY <1>1 DEF Tick, limiter
  <2>2. time \in Nat /\ \A d \in admitted : d \in Entry /\ d.at \in Nat
    BY DEF WindowInv, LimiterTypeOK, Entry
  <2>3. LimiterTypeOK' /\ IsFiniteSet(admitted') /\ entries' \subseteq admitted'
    BY <2>1, <2>2 DEF WindowInv, LimiterTypeOK
  <2>4. \A d \in admitted' : Stamped(d)'
    BY <2>1, <2>2 DEF WindowInv, Stamped
  <2>5. \A d \in admitted' : d.at + Window > time' + Lag + Lead => d \in entries'
    BY <2>1, <2>2, LimiterAssumption DEF WindowInv
  <2>6. WindowBound'
    BY <2>1 DEF WindowInv, WindowBound, Recent
  <2>7. QED BY <2>3, <2>4, <2>5, <2>6 DEF WindowInv
<1>2. ASSUME NEW now \in Stamps, Admit(now), UNCHANGED time PROVE WindowInv'
  BY <1>2, AdmitStep
<1>3. ASSUME NEW now \in Stamps, Refuse(now), UNCHANGED time PROVE WindowInv'
  <2>1. entries' = Kept(now) /\ UNCHANGED <<time, expires, served, admitted>>
    BY <1>3 DEF Refuse
  <2>2. /\ Kept(now) \subseteq entries
        /\ \A d \in admitted : d.at + Window > time + Lag + Lead => d \in Kept(now)
    BY KeptCounts
  <2>3. LimiterTypeOK' /\ IsFiniteSet(admitted') /\ entries' \subseteq admitted'
    BY <2>1, <2>2 DEF WindowInv, LimiterTypeOK
  <2>4. \A d \in admitted' : Stamped(d)'
    BY <2>1 DEF WindowInv, Stamped
  <2>5. \A d \in admitted' : d.at + Window > time' + Lag + Lead => d \in entries'
    BY <2>1, <2>2
  <2>6. WindowBound'
    BY <2>1 DEF WindowInv, WindowBound, Recent
  <2>7. QED BY <2>3, <2>4, <2>5, <2>6 DEF WindowInv
<1>4. CASE UNCHANGED limiterVars
  BY <1>4 DEF limiterVars, limiter, WindowInv, LimiterTypeOK, Stamped, WindowBound, Recent
<1>5. QED BY <1>1, <1>2, <1>3, <1>4 DEF LimiterNext

\* Whatever the queue does, the limiter takes its own steps.
LEMMA DispatchLimits == [Next]_vars => [LimiterNext]_limiterVars
<1> SUFFICES ASSUME [Next]_vars PROVE [LimiterNext]_limiterVars
  OBVIOUS
<1>1. ASSUME NEW m \in Message, Arrive(m) \/ Pop(m) \/ PutBack(m) PROVE UNCHANGED limiterVars
  BY <1>1 DEF Arrive, Pop, PutBack
<1>2. ASSUME NEW m \in Message, GoAhead(m) \/ TurnAway(m) PROVE LimiterNext
  BY <1>2 DEF GoAhead, TurnAway, LimiterNext
<1>3. CASE TimePasses
  BY <1>3 DEF TimePasses, LimiterNext
<1>4. CASE UNCHANGED vars
  BY <1>4 DEF vars
<1>5. QED BY <1>1, <1>2, <1>3, <1>4 DEF Next

(***************************************************************************)
(* At most Limit calls are admitted within Window less the error of the    *)
(* clocks, for any limit, window, error and traffic.                       *)
(***************************************************************************)
THEOREM WindowHolds == Spec => []WindowBound
<1>1. Init => WindowInv
  BY InitWindow DEF Init
<1>2. WindowInv /\ [Next]_vars => WindowInv'
  BY WindowStep, DispatchLimits
<1>3. WindowInv => WindowBound
  BY DEF WindowInv
<1>4. QED BY <1>1, <1>2, <1>3, PTL DEF Spec

(***************************************************************************)
(* A caller who is refused now shares the window with Limit calls that     *)
(* were admitted within Window plus the error of the clocks.               *)
(***************************************************************************)
THEOREM RefusalsAreDue == Spec => []RefusalIsDue
<1>1. Init => WindowInv
  BY InitWindow DEF Init
<1>2. WindowInv /\ [Next]_vars => WindowInv'
  BY WindowStep, DispatchLimits
<1>3. WindowInv => RefusalIsDue
  <2> SUFFICES ASSUME WindowInv, NEW now \in Stamps, Cardinality(Kept(now)) >= Limit
               PROVE  Cardinality({d \in admitted : d.at + Window + Lag + Lead > time}) >= Limit
    BY DEF RefusalIsDue
  <2> DEFINE Late == {d \in admitted : d.at + Window + Lag + Lead > time}
  <2>1. Kept(now) \subseteq Late
    <3> SUFFICES ASSUME NEW e \in Kept(now) PROVE e \in Late
      OBVIOUS
    <3>1. e \in admitted /\ e.stamp + Window > now
      BY DEF Kept, Live, WindowInv
    <3>2. /\ Stamped(e) /\ e.at \in Nat /\ e.stamp \in Nat /\ now \in Nat /\ time \in Nat
      BY <3>1 DEF WindowInv, LimiterTypeOK, Entry, Stamps
    <3>3. e.at + Window + Lag + Lead > time
      BY <3>1, <3>2, LimiterAssumption DEF Stamped, Stamps
    <3>4. QED BY <3>1, <3>3
  <2>2. IsFiniteSet(Late)
    BY FS_Subset DEF WindowInv
  <2>3. Cardinality(Kept(now)) <= Cardinality(Late) /\ Cardinality(Late) \in Nat
        /\ Cardinality(Kept(now)) \in Nat
    BY <2>1, <2>2, KeptCounts, FS_Subset, FS_CardinalityType
  <2>4. QED BY <2>3, LimiterAssumption
<1>4. QED BY <1>1, <1>2, <1>3, PTL DEF Spec

-----------------------------------------------------------------------------
(* The queue.                                                              *)

\* A score is made of the priority and a time near that of the enqueueing.
ScoredNear(m, s) ==
    /\ score[m] = PriorityOf[m] * Weight + s
    /\ s <= since[m] + Lead
    /\ since[m] <= s + Lag

QueueInv ==
    /\ QueueTypeOK
    /\ time \in Nat /\ time <= MaxTime
    /\ since \in [Message -> Nat]
    /\ \A m \in Message : since[m] <= time
    /\ \A m \in waiting : \E s \in Nat : ScoredNear(m, s)

LEMMA Numbers == /\ PriorityOf \in [Message -> Nat] /\ Weight \in Nat /\ MaxTime \in Nat
                 /\ Lag \in Nat /\ Lead \in Nat /\ Weight > MaxTime + Lead
  BY LimiterAssumption, QueueAssumption, DispatchAssumption

LEMMA Product == ASSUME NEW p \in Nat, NEW w \in Nat PROVE p * w \in Nat
  OBVIOUS

\* One step of priority weighs more than any clock shows.
LEMMA PriorityOutweighs ==
    ASSUME NEW p \in Nat, NEW q \in Nat, NEW w \in Nat, q < p
    PROVE  q * w + w <= p * w
<1>1. PICK k \in Nat : p = q + 1 + k
  <2>1. p - q - 1 \in Nat /\ p = q + 1 + (p - q - 1)
    OBVIOUS
  <2>2. QED BY <2>1
<1>2. p * w = q * w + w + k * w
  BY <1>1
<1>3. k * w \in Nat /\ q * w \in Nat
  BY Product
<1>4. QED BY <1>2, <1>3

LEMMA InitQueue == Init => QueueInv
  BY Numbers DEF Init, LimiterInit, QueueInit, QueueInv, QueueTypeOK

LEMMA PushStep ==
    ASSUME QueueInv, NEW m \in Message, Push(m), UNCHANGED time
    PROVE  QueueInv'
<1>1. PICK now \in Stamps : Enqueue(m, now)
  BY DEF Push
<1>2. now \in Nat /\ now <= time + Lead /\ time <= now + Lag /\ time \in Nat
  BY Numbers DEF Stamps, QueueInv
<1>3. /\ waiting' = waiting \cup {m} /\ since' = [since EXCEPT ![m] = time]
      /\ score' = [score EXCEPT ![m] = PriorityOf[m] * Weight + now]
  BY <1>1 DEF Push, Enqueue, calcScore
<1>4. PriorityOf[m] * Weight + now \in Nat
  BY <1>2, Numbers, Product
<1>5. QueueTypeOK' /\ since' \in [Message -> Nat]
  BY <1>2, <1>3, <1>4 DEF QueueInv, QueueTypeOK
<1>6. \A n \in Message : since'[n] <= time'
  BY <1>2, <1>3 DEF QueueInv
<1>7. ASSUME NEW n \in waiting' PROVE \E s \in Nat : ScoredNear(n, s)'
  <2>1. CASE n = m
    <3>1. ScoredNear(n, now)'
      BY <1>2, <1>3, <2>1, Numbers DEF ScoredNear, QueueInv, QueueTypeOK
    <3>2. QED BY <1>2, <3>1
  <2>2. CASE n # m
    <3>1. PICK s \in Nat : ScoredNear(n, s)
      BY <1>3, <2>2 DEF QueueInv
    <3>2. ScoredNear(n, s)'
      BY <1>3, <2>2, <3>1 DEF ScoredNear, QueueInv, QueueTypeOK
    <3>3. QED BY <3>2
  <2>3. QED BY <2>1, <2>2
<1>8. QED BY <1>5, <1>6, <1>7 DEF QueueInv

LEMMA QueueStep == QueueInv /\ [Next]_vars => QueueInv'
<1> SUFFICES ASSUME QueueInv, [Next]_vars PROVE QueueInv'
  OBVIOUS
<1>1. ASSUME NEW m \in Message, Arrive(m) \/ PutBack(m) PROVE QueueInv'
  BY <1>1, PushStep DEF Arrive, PutBack, limiterVars
<1>2. ASSUME NEW m \in Message, Pop(m) PROVE QueueInv'
  <2>1. /\ waiting' = waiting \ {m} /\ score' = [score EXCEPT ![m] = 0]
        /\ UNCHANGED <<time, since>>
    BY <1>2 DEF Pop, Dequeue, limiterVars
  <2>2. QueueTypeOK'
    BY <2>1 DEF QueueInv, QueueTypeOK
  <2>3. ASSUME NEW n \in waiting' PROVE \E s \in Nat : ScoredNear(n, s)'
    <3>1. n \in waiting /\ n # m /\ n \in Message
      BY <2>1 DEF QueueInv, QueueTypeOK
    <3>2. PICK s \in Nat : ScoredNear(n, s)
      BY <3>1 DEF QueueInv
    <3>3. ScoredNear(n, s)'
      BY <2>1, <3>1, <3>2 DEF ScoredNear, QueueInv, QueueTypeOK
    <3>4. QED BY <3>3
  <2>4. QED BY <2>1, <2>2, <2>3 DEF QueueInv
<1>3. ASSUME NEW m \in Message, GoAhead(m) \/ TurnAway(m) PROVE QueueInv'
  BY <1>3 DEF GoAhead, TurnAway, queue, QueueInv, QueueTypeOK, ScoredNear
<1>4. CASE TimePasses
  <2>1. time' = time + 1 /\ time < MaxTime /\ UNCHANGED <<waiting, score, since>>
    BY <1>4 DEF TimePasses, Tick, queue
  <2>2. QED BY <2>1, Numbers DEF QueueInv, QueueTypeOK, ScoredNear
<1>5. CASE UNCHANGED vars
  BY <1>5 DEF vars, limiterVars, queue, QueueInv, QueueTypeOK, ScoredNear
<1>6. QED BY <1>1, <1>2, <1>3, <1>4, <1>5 DEF Next

\* A message is in one place.
PlaceInv ==
    /\ waiting \subseteq Message
    /\ held \in SUBSET Message /\ refused \in SUBSET Message /\ sent \in SUBSET Message
    /\ waiting \cap (held \cup refused \cup sent) = {}
    /\ held \cap (refused \cup sent) = {}
    /\ refused \cap sent = {}

LEMMA PlaceStep == PlaceInv /\ [Next]_vars => PlaceInv'
<1> SUFFICES ASSUME PlaceInv, [Next]_vars PROVE PlaceInv'
  OBVIOUS
<1> USE DEF PlaceInv
<1>1. ASSUME NEW m \in Message, Arrive(m) PROVE PlaceInv'
  BY <1>1 DEF Arrive, Push, Enqueue, messages
<1>2. ASSUME NEW m \in Message, Pop(m) PROVE PlaceInv'
  BY <1>2 DEF Pop, Dequeue
<1>3. ASSUME NEW m \in Message, GoAhead(m) PROVE PlaceInv'
  BY <1>3 DEF GoAhead, queue
<1>4. ASSUME NEW m \in Message, TurnAway(m) PROVE PlaceInv'
  BY <1>4 DEF TurnAway, queue
<1>5. ASSUME NEW m \in Message, PutBack(m) PROVE PlaceInv'
  BY <1>5 DEF PutBack, Push, Enqueue
<1>6. CASE TimePasses \/ UNCHANGED vars
  BY <1>6 DEF TimePasses, vars, queue, messages
<1>7. QED BY <1>1, <1>2, <1>3, <1>4, <1>5, <1>6 DEF Next

(***************************************************************************)
(* What Redis and the workers have: every message is waiting, held by one  *)
(* worker, to be put back or sent, and only one of these.                  *)
(***************************************************************************)
THEOREM DispatchTypeCorrect == Spec => []TypeOK
<1> DEFINE I == WindowInv /\ QueueInv /\ PlaceInv
<1>1. Init => I
  <2>1. Init => PlaceInv
    BY DEF Init, QueueInit, PlaceInv
  <2>2. QED BY InitWindow, InitQueue, <2>1 DEF Init
<1>2. I /\ [Next]_vars => I'
  BY WindowStep, DispatchLimits, QueueStep, PlaceStep
<1>3. I => TypeOK
  BY DEF WindowInv, QueueInv, PlaceInv, TypeOK
<1>4. QED BY <1>1, <1>2, <1>3, PTL DEF Spec

(***************************************************************************)
(* Urgent messages first, and within a priority those enqueued first up to *)
(* the error of the clocks, for any messages, priorities and weight above  *)
(* what a clock can show.                                                  *)
(***************************************************************************)
THEOREM UrgentFirst == Spec => ServedInOrder
<1> DEFINE Order == \A m, n \in waiting :
                       m \notin waiting' /\ n \in waiting' =>
                          \/ PriorityOf[m] < PriorityOf[n]
                          \/ PriorityOf[m] = PriorityOf[n] /\ since[m] <= since[n] + Lag + Lead
<1>1. QueueInv /\ [Next]_vars => [Order]_vars
  <2> SUFFICES ASSUME QueueInv, Next,
                      NEW m \in waiting, NEW n \in waiting, m \notin waiting', n \in waiting'
               PROVE  \/ PriorityOf[m] < PriorityOf[n]
                      \/ PriorityOf[m] = PriorityOf[n] /\ since[m] <= since[n] + Lag + Lead
    OBVIOUS
  <2>1. Pop(m)
    BY DEF Next, Arrive, PutBack, Push, Pop, Enqueue, Dequeue, GoAhead, TurnAway, TimePasses, queue
  <2>2. score[m] <= score[n]
    BY <2>1 DEF Pop, Dequeue
  <2>3. /\ m \in Message /\ n \in Message
        /\ PriorityOf[m] \in Nat /\ PriorityOf[n] \in Nat /\ since[m] \in Nat /\ since[n] \in Nat
        /\ since[n] <= MaxTime /\ Weight \in Nat
    BY Numbers DEF QueueInv, QueueTypeOK
  <2>4. PICK s \in Nat : ScoredNear(m, s)
    BY DEF QueueInv
  <2>5. PICK u \in Nat : ScoredNear(n, u)
    BY DEF QueueInv
  <2> DEFINE a == PriorityOf[m] * Weight
             b == PriorityOf[n] * Weight
  <2>6. /\ a \in Nat /\ b \in Nat /\ a + s <= b + u
        /\ u <= since[n] + Lead /\ since[m] <= s + Lag
    BY <2>2, <2>3, <2>4, <2>5, Product DEF ScoredNear
  <2>7. PriorityOf[n] < PriorityOf[m] => b + Weight <= a
    BY <2>3, PriorityOutweighs
  <2> HIDE DEF a, b
  <2>8. ~(PriorityOf[n] < PriorityOf[m])
    BY <2>3, <2>6, <2>7, Numbers
  <2>9. PriorityOf[m] = PriorityOf[n] => a = b
    BY DEF a, b
  <2>10. QED BY <2>3, <2>6, <2>8, <2>9, Numbers
<1>2. QED BY InitQueue, QueueStep, <1>1, PTL DEF Spec, ServedInOrder
=============================================================================
