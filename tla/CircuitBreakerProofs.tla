------------------------ MODULE CircuitBreakerProofs ------------------------
(***************************************************************************)
(* The circuit breaker limits its test calls, for any number of calls and  *)
(* any thresholds; and as long as its test calls report, it is never stuck *)
(* half-open.                                                              *)
(***************************************************************************)
EXTENDS CircuitBreaker, FiniteSetTheorems, TLAPS

\* What the fields hold, and that the calls under way can be counted.
LEMMA ProbesFinite ==
    ASSUME Parameters, TypeOK
    PROVE  IsFiniteSet(probes) /\ Cardinality(probes) \in Nat
  BY FS_Subset, FS_CardinalityType DEF Parameters, TypeOK

LEMMA OneMore ==
    ASSUME NEW S, NEW c, IsFiniteSet(S), c \notin S
    PROVE  IsFiniteSet(S \cup {c}) /\ Cardinality(S \cup {c}) = Cardinality(S) + 1
  BY FS_AddElement

LEMMA OneLess ==
    ASSUME NEW S, NEW c, IsFiniteSet(S)
    PROVE  /\ IsFiniteSet(S \ {c})
           /\ Cardinality(S \ {c}) = IF c \in S THEN Cardinality(S) - 1 ELSE Cardinality(S)
  BY FS_RemoveElement

LEMMA Numbers ==
    ASSUME Parameters
    PROVE  /\ FailureThreshold \in Nat \ {0} /\ SuccessThreshold \in Nat \ {0}
           /\ HalfOpenMax \in Nat \ {0} /\ SuccessThreshold <= HalfOpenMax
  BY DEF Parameters

\* A closed breaker is below its threshold, a half-open one has handed out a slot.
LimitsInv == TypeOK /\ ClosedHasRoom

LEMMA InitLimits ==
    ASSUME Parameters
    PROVE  Init => LimitsInv
<1> SUFFICES ASSUME Init PROVE LimitsInv
  OBVIOUS
<1>1. cooled \in BOOLEAN /\ healthy \in BOOLEAN /\ leaked \in BOOLEAN
  BY Zenon DEF Init
<1>2. /\ state = "closed" /\ failureCount = 0 /\ successCount = 0 /\ halfOpenCount = 0
      /\ probes = {} /\ calls = {}
  BY DEF Init
<1>3. QED BY <1>1, <1>2, Numbers DEF LimitsInv, TypeOK, ClosedHasRoom

\* The three flags, by themselves: the provers treat Booleans apart.
Flags == cooled \in BOOLEAN /\ healthy \in BOOLEAN /\ leaked \in BOOLEAN

LEMMA FlagsStep ==
    ASSUME TypeOK, [Next]_vars
    PROVE  Flags'
<1> USE DEF Flags
<1>0. Flags
  BY Zenon DEF TypeOK
<1>1. ASSUME NEW c \in Call, Allow(c) PROVE Flags'
  BY <1>0, <1>1, Zenon DEF Allow
<1>2. ASSUME NEW c \in Call, RecordSuccess(c) PROVE Flags'
  BY <1>0, <1>2, Zenon
     DEF RecordSuccess, SuccessWhenClosed, CountSuccess, Close, Report, EndEpisode
<1>3. ASSUME NEW c \in Call, RecordFailure(c) PROVE Flags'
  BY <1>0, <1>3, Zenon DEF RecordFailure, FailureWhenClosed, Reopen, Report, EndEpisode
<1>4. ASSUME NEW c \in Call, Abandon(c) PROVE Flags'
  <2>1. leaked' \in BOOLEAN
    BY <1>4, Zenon DEF Abandon
  <2>2. QED BY <1>0, <1>4, <2>1, Zenon DEF Abandon
<1>5. CASE Cool
  BY <1>0, <1>5, Zenon DEF Cool, underWay
<1>6. CASE ProviderRecovers
  BY <1>0, <1>6, Zenon DEF ProviderRecovers, underWay
<1>7. CASE UNCHANGED vars
  BY <1>0, <1>7, Zenon DEF vars, underWay
<1>8. QED BY <1>1, <1>2, <1>3, <1>4, <1>5, <1>6, <1>7 DEF Next, Finish

LEMMA LimitsStep ==
    ASSUME Parameters
    PROVE  LimitsInv /\ [Next]_vars => LimitsInv'
<1> SUFFICES ASSUME LimitsInv, [Next]_vars PROVE LimitsInv'
  OBVIOUS
<1>0. Flags'
  BY FlagsStep DEF LimitsInv
<1> USE <1>0, Numbers DEF LimitsInv, TypeOK, Flags, ClosedHasRoom, breaker
<1>1. ASSUME NEW c \in Call, Allow(c) PROVE LimitsInv'
  BY <1>1 DEF Allow
<1>2. ASSUME NEW c \in Call, RecordSuccess(c) PROVE LimitsInv'
  <2>1. CASE SuccessWhenClosed(c)
    BY <1>2, <2>1 DEF SuccessWhenClosed, Report, Return
  <2>2. CASE CountSuccess(c)
    BY <1>2, <2>2 DEF CountSuccess, Report, Return
  <2>3. CASE Close(c)
    BY <1>2, <2>3 DEF Close, EndEpisode, UnderWay
  <2>4. CASE Report(c) /\ UNCHANGED breaker
    BY <1>2, <2>4 DEF Report, Return
  <2>5. QED BY <1>2, <2>1, <2>2, <2>3, <2>4 DEF RecordSuccess
<1>3. ASSUME NEW c \in Call, RecordFailure(c) PROVE LimitsInv'
  <2>1. CASE FailureWhenClosed(c)
    BY <2>1 DEF FailureWhenClosed, Report, Return
  <2>2. CASE Reopen(c)
    BY <2>2 DEF Reopen, EndEpisode, UnderWay
  <2>3. CASE Report(c) /\ UNCHANGED breaker
    BY <2>3 DEF Report, Return
  <2>4. QED BY <1>3, <2>1, <2>2, <2>3 DEF RecordFailure
<1>4. ASSUME NEW c \in Call, Abandon(c) PROVE LimitsInv'
  BY <1>4 DEF Abandon, Return
<1>5. CASE Cool \/ ProviderRecovers \/ UNCHANGED vars
  BY <1>5 DEF Cool, ProviderRecovers, vars, underWay
<1>6. QED BY <1>1, <1>2, <1>3, <1>4, <1>5 DEF Next, Finish

(***************************************************************************)
(* No counter passes its limit, and the calls of an episode and the others *)
(* are apart.                                                              *)
(***************************************************************************)
THEOREM BreakerTypeCorrect ==
    ASSUME Parameters
    PROVE  Spec => []TypeOK
<1>1. LimitsInv => TypeOK
  BY DEF LimitsInv
<1>2. Init => LimitsInv
  BY InitLimits
<1>3. LimitsInv /\ [Next]_vars => LimitsInv'
  BY LimitsStep
<1>4. QED BY <1>1, <1>2, <1>3, PTL DEF Spec

(***************************************************************************)
(* A closed breaker has room for a failure before it opens: closing (again)*)
(* always forgets the failures that opened it.                             *)
(***************************************************************************)
THEOREM RoomWhenClosed ==
    ASSUME Parameters
    PROVE  Spec => []ClosedHasRoom
<1>1. LimitsInv => ClosedHasRoom
  BY DEF LimitsInv
<1>2. Init => LimitsInv
  BY InitLimits
<1>3. LimitsInv /\ [Next]_vars => LimitsInv'
  BY LimitsStep
<1>4. QED BY <1>1, <1>2, <1>3, PTL DEF Spec

-----------------------------------------------------------------------------
(* Slots: what the current half-open episode has handed out.               *)

\* Test calls are under way only while half-open, each in a slot of its own.
SlotsInv ==
    /\ LimitsInv
    /\ state # "halfOpen" => probes = {}
    /\ state = "halfOpen" => Cardinality(probes) <= halfOpenCount

\* Every slot is in use or was turned into a success, unless a call was lost.
NoLeakInv ==
    /\ SlotsInv
    /\ state = "halfOpen" /\ ~leaked => halfOpenCount <= successCount + Cardinality(probes)

LEMMA InitSlots ==
    ASSUME Parameters
    PROVE  Init => SlotsInv
  BY InitLimits DEF Init, SlotsInv

LEMMA InitNoLeak ==
    ASSUME Parameters
    PROVE  Init => NoLeakInv
  BY InitSlots DEF Init, NoLeakInv

\* An admission to an episode takes one slot and adds one test call.
LEMMA AllowStep ==
    ASSUME Parameters, SlotsInv, NEW c \in Call, Allow(c)
    PROVE  \/ UNCHANGED <<breaker, probes, leaked>>
           \/ /\ state = "open" /\ state' = "halfOpen" /\ halfOpenCount' = 1
              /\ successCount' = 0 /\ probes' = {c} /\ Cardinality(probes') = 1
           \/ /\ state = "halfOpen" /\ UNCHANGED <<state, successCount>>
              /\ halfOpenCount' = halfOpenCount + 1
              /\ Cardinality(probes') = Cardinality(probes) + 1
              /\ leaked' = leaked
<1>1. IsFiniteSet(probes)
  BY ProbesFinite DEF SlotsInv, LimitsInv
<1>2. Cardinality({c}) = 1
  BY FS_Singleton
<1>3. c \notin probes => Cardinality(probes \cup {c}) = Cardinality(probes) + 1
  BY <1>1, OneMore
<1>4. QED BY <1>2, <1>3 DEF Allow

LEMMA SlotsStep ==
    ASSUME Parameters
    PROVE  SlotsInv /\ [Next]_vars => SlotsInv'
<1> SUFFICES ASSUME SlotsInv, [Next]_vars PROVE SlotsInv'
  OBVIOUS
<1>1. LimitsInv'
  BY LimitsStep DEF SlotsInv
<1>2. Cardinality({}) = 0
  BY FS_EmptySet
<1> DEFINE Goal == /\ state' # "halfOpen" => probes' = {}
                   /\ state' = "halfOpen" => Cardinality(probes') <= halfOpenCount'
<1>3. SUFFICES Goal
  BY <1>1 DEF SlotsInv
<1>4. IsFiniteSet(probes) /\ Cardinality(probes) \in Nat
      /\ halfOpenCount \in Nat /\ halfOpenCount' \in Nat
  BY ProbesFinite, <1>1, Numbers DEF SlotsInv, LimitsInv, TypeOK
<1>5. ASSUME NEW c \in Call, Return(c) PROVE Cardinality(probes') <= Cardinality(probes)
  <2>1. probes' = probes \ {c}
    BY <1>5 DEF Return
  <2>2. Cardinality(probes \ {c}) = IF c \in probes THEN Cardinality(probes) - 1 ELSE Cardinality(probes)
    BY <1>4, OneLess
  <2>3. QED BY <1>4, <2>1, <2>2
<1>6. ASSUME NEW c \in Call, Return(c), UNCHANGED <<state, halfOpenCount>>,
             Cardinality(probes') \in Nat
      PROVE  Goal
  <2>1. probes = {} => probes' = {}
    BY <1>6 DEF Return
  <2>2. Cardinality(probes') <= Cardinality(probes)
    BY <1>5, <1>6
  <2>3. QED BY <1>4, <1>6, <2>1, <2>2 DEF SlotsInv
<1>7. Cardinality(probes') \in Nat
  <2>1. TypeOK'
    BY <1>1 DEF LimitsInv
  <2>2. IsFiniteSet(probes')
    BY <2>1, FS_Subset DEF TypeOK, Parameters
  <2>3. QED BY <2>2, FS_CardinalityType
<1>8. ASSUME NEW c \in Call, Allow(c) PROVE Goal
  BY <1>4, <1>8, AllowStep DEF SlotsInv, breaker
<1>9. ASSUME NEW c \in Call, RecordSuccess(c) \/ RecordFailure(c) \/ Abandon(c) PROVE Goal
  <2>1. CASE EndEpisode(c) /\ state' # "halfOpen"
    BY <2>1 DEF EndEpisode
  <2>2. CASE Return(c) /\ UNCHANGED <<state, halfOpenCount>>
    BY <1>6, <1>7, <2>2
  <2>3. CASE FailureWhenClosed(c)
    BY <2>3 DEF FailureWhenClosed, Report, Return, SlotsInv
  <2>4. QED
    BY <1>9, <2>1, <2>2, <2>3
       DEF RecordSuccess, RecordFailure, Abandon, Report, SuccessWhenClosed, CountSuccess, Close, Reopen, breaker
<1>10. CASE Cool \/ ProviderRecovers \/ UNCHANGED vars
  BY <1>10 DEF Cool, ProviderRecovers, vars, breaker, underWay, SlotsInv
<1>11. QED BY <1>8, <1>9, <1>10 DEF Next, Finish

LEMMA SlotsSuffice ==
    ASSUME Parameters
    PROVE  SlotsInv => ProbeLimit
<1> SUFFICES ASSUME SlotsInv PROVE ProbeLimit
  OBVIOUS
<1>1. Cardinality({}) = 0
  BY FS_EmptySet
<1>2. Cardinality(probes) \in Nat
  BY ProbesFinite DEF SlotsInv, LimitsInv
<1>3. QED BY <1>1, <1>2, Numbers DEF SlotsInv, LimitsInv, TypeOK, ProbeLimit

(***************************************************************************)
(* A half-open breaker never has more than halfOpenMax of its test calls   *)
(* under way, whatever calls admitted earlier report meanwhile.            *)
(***************************************************************************)
THEOREM ProbesAreLimited ==
    ASSUME Parameters
    PROVE  Spec => []ProbeLimit
<1>1. Init => SlotsInv
  BY InitSlots
<1>2. SlotsInv /\ [Next]_vars => SlotsInv'
  BY SlotsStep
<1>3. SlotsInv => ProbeLimit
  BY SlotsSuffice
<1>4. QED BY <1>1, <1>2, <1>3, PTL DEF Spec

LEMMA NoLeakStep ==
    ASSUME Parameters
    PROVE  NoLeakInv /\ [Next]_vars => NoLeakInv'
<1> SUFFICES ASSUME NoLeakInv, [Next]_vars PROVE NoLeakInv'
  OBVIOUS
<1>1. SlotsInv'
  BY SlotsStep DEF NoLeakInv
<1> DEFINE Goal == state' = "halfOpen" /\ ~leaked' => halfOpenCount' <= successCount' + Cardinality(probes')
<1>2. SUFFICES Goal
  BY <1>1 DEF NoLeakInv
<1>3. /\ IsFiniteSet(probes) /\ Cardinality(probes) \in Nat
      /\ halfOpenCount \in Nat /\ successCount \in Nat
  BY ProbesFinite, Numbers DEF NoLeakInv, SlotsInv, LimitsInv, TypeOK
<1>4. ASSUME NEW c \in Call, Allow(c) PROVE Goal
  BY <1>3, <1>4, AllowStep DEF NoLeakInv, breaker
<1>5. ASSUME NEW c \in Call, RecordSuccess(c) PROVE Goal
  <2>1. CASE CountSuccess(c)
    <3>1. probes' = probes \ {c}
      BY <2>1 DEF CountSuccess, Report, Return
    <3>0. leaked' = leaked
      BY <2>1 DEF CountSuccess, Report
    <3>2. Cardinality(probes \ {c}) = IF c \in probes THEN Cardinality(probes) - 1 ELSE Cardinality(probes)
      BY <1>3, OneLess
    <3>3. QED BY <1>3, <2>1, <3>0, <3>1, <3>2 DEF CountSuccess, NoLeakInv
  <2>2. CASE state' # "halfOpen"
    BY <2>2
  <2>3. QED
    BY <1>5, <2>1, <2>2 DEF RecordSuccess, SuccessWhenClosed, Close, breaker
<1>6. ASSUME NEW c \in Call, RecordFailure(c) PROVE Goal
  BY <1>6 DEF RecordFailure, FailureWhenClosed, Reopen, breaker
<1>7. ASSUME NEW c \in Call, Abandon(c) PROVE Goal
  <2>1. CASE c \in probes
    <3>1. leaked'
      BY <1>7, <2>1 DEF Abandon
    <3>2. QED BY <3>1
  <2>2. CASE c \notin probes
    <3>1. probes' = probes
      BY <1>7, <2>2 DEF Abandon, Return
    <3>2. ~leaked' => ~leaked
      BY <1>7 DEF Abandon
    <3>3. QED BY <1>7, <3>1, <3>2 DEF Abandon, breaker, NoLeakInv
  <2>3. QED BY <2>1, <2>2
<1>8. CASE Cool \/ ProviderRecovers \/ UNCHANGED vars
  BY <1>8 DEF Cool, ProviderRecovers, vars, breaker, underWay, NoLeakInv
<1>9. QED BY <1>4, <1>5, <1>6, <1>7, <1>8 DEF Next, Finish

LEMMA NoLeakSuffices ==
    ASSUME Parameters
    PROVE  NoLeakInv => NotWedged
<1>1. Cardinality({}) = 0
  BY FS_EmptySet
<1>2. QED BY <1>1, Numbers DEF NoLeakInv, SlotsInv, LimitsInv, TypeOK, NotWedged

(***************************************************************************)
(* As long as its test calls report, a half-open breaker with none of them *)
(* under way admits another one: it cannot refuse everybody for ever.      *)
(***************************************************************************)
THEOREM NeverWedged ==
    ASSUME Parameters
    PROVE  Spec => []NotWedged
<1>1. Init => NoLeakInv
  BY InitNoLeak
<1>2. NoLeakInv /\ [Next]_vars => NoLeakInv'
  BY NoLeakStep
<1>3. NoLeakInv => NotWedged
  BY NoLeakSuffices
<1>4. QED BY <1>1, <1>2, <1>3, PTL DEF Spec

=============================================================================
