--------------------------- MODULE CircuitBreaker ---------------------------
(***************************************************************************)
(* pkg/circuitbreaker, as the workers of one channel in one process use    *)
(* it: Allow before a call, RecordSuccess or RecordFailure after it.  Each *)
(* method holds the mutex, so each is one step; what is concurrent is the  *)
(* calls.  A call may report long after the state that admitted it is over.*)
(*                                                                         *)
(* Time is reduced to one bit: whether resetTimeout has passed since the   *)
(* last failure.                                                           *)
(***************************************************************************)
EXTENDS Naturals, FiniteSets

CONSTANTS
    Call,              \* calls that may be under way at the same time
    FailureThreshold,  \* New's parameters; the service uses 5, 3, 3
    SuccessThreshold,
    HalfOpenMax

\* What the properties ask of them; assumed wherever they get values.
Parameters ==
    /\ IsFiniteSet(Call)
    /\ FailureThreshold \in Nat \ {0}
    /\ SuccessThreshold \in Nat \ {0}
    /\ HalfOpenMax \in Nat \ {0}
    /\ SuccessThreshold <= HalfOpenMax

VARIABLES
    state, failureCount, successCount, halfOpenCount,   \* the struct's fields
    cooled,   \* time.Since(lastFailure) > resetTimeout
    probes,   \* calls under way that this half-open episode admitted
    calls,    \* calls under way that anything else admitted
    leaked,   \* (history) one of this episode's test calls never reported
    healthy   \* from now on the provider answers every call

breaker == <<state, failureCount, successCount, halfOpenCount>>
underWay == <<probes, calls, leaked>>
vars == <<breaker, cooled, underWay, healthy>>

\* What the fields hold; in particular no counter passes the limit it is
\* compared with in Allow, RecordSuccess and RecordFailure.
TypeOK ==
    /\ state \in {"closed", "open", "halfOpen"}
    /\ failureCount \in 0 .. FailureThreshold
    /\ successCount \in 0 .. SuccessThreshold - 1
    /\ halfOpenCount \in 0 .. HalfOpenMax
    /\ cooled \in BOOLEAN /\ healthy \in BOOLEAN /\ leaked \in BOOLEAN
    /\ probes \subseteq Call /\ calls \subseteq Call
    /\ probes \cap calls = {}

Init ==
    /\ state = "closed"
    /\ failureCount = 0 /\ successCount = 0 /\ halfOpenCount = 0
    /\ cooled = TRUE            \* lastFailure is the zero time
    /\ probes = {} /\ calls = {} /\ leaked = FALSE
    /\ healthy = FALSE

-----------------------------------------------------------------------------
(* Slips the code might contain: a property below fails with one of them.  *)

\* Entering half-open without starting the count anew.
AllowKeepingCount(c) ==
    /\ c \notin calls \cup probes
    /\ \/ state = "closed" /\ calls' = calls \cup {c} /\ UNCHANGED <<breaker, probes, leaked>>
       \/ /\ (state = "open" /\ cooled) \/ state = "halfOpen"
          /\ halfOpenCount < HalfOpenMax
          /\ state' = "halfOpen" /\ halfOpenCount' = halfOpenCount + 1
          /\ successCount' = IF state = "open" THEN 0 ELSE successCount
          /\ probes' = probes \cup {c} /\ UNCHANGED <<failureCount, calls>>
          /\ leaked' = (state = "halfOpen" /\ leaked)
    /\ UNCHANGED <<cooled, healthy>>

\* halfOpenCount <= halfOpenMax.
AllowOneMore(c) ==
    /\ c \notin calls \cup probes
    /\ state = "halfOpen" => halfOpenCount <= HalfOpenMax
    /\ \/ state = "closed" /\ calls' = calls \cup {c} /\ UNCHANGED <<breaker, probes, leaked>>
       \/ /\ (state = "open" /\ cooled) \/ state = "halfOpen"
          /\ state' = "halfOpen"
          /\ halfOpenCount' = IF state = "open" THEN 1 ELSE halfOpenCount + 1
          /\ successCount' = IF state = "open" THEN 0 ELSE successCount
          /\ probes' = probes \cup {c} /\ UNCHANGED <<failureCount, calls>>
          /\ leaked' = (state = "halfOpen" /\ leaked)
    /\ UNCHANGED <<cooled, healthy>>

\* A half-open breaker that does not count what it admits.
AllowUncounted(c) ==
    /\ c \notin calls \cup probes
    /\ \/ state = "closed" /\ calls' = calls \cup {c} /\ UNCHANGED <<breaker, probes, leaked>>
       \/ /\ (state = "open" /\ cooled) \/ state = "halfOpen"
          /\ state' = "halfOpen"
          /\ successCount' = IF state = "open" THEN 0 ELSE successCount
          /\ probes' = probes \cup {c} /\ UNCHANGED <<failureCount, halfOpenCount, calls>>
          /\ leaked' = (state = "halfOpen" /\ leaked)
    /\ UNCHANGED <<cooled, healthy>>

\* Letting calls through after the timeout without becoming half-open.
AllowStayingOpen(c) ==
    /\ c \notin calls \cup probes
    /\ \/ state = "closed"
       \/ state = "open" /\ cooled
       \/ state = "halfOpen" /\ halfOpenCount < HalfOpenMax
    /\ calls' = calls \cup {c}
    /\ UNCHANGED <<breaker, cooled, probes, leaked, healthy>>

\* Closing without failureCount = 0.
CloseKeepingFailures(c) ==
    /\ state = "halfOpen"
    /\ successCount + 1 >= SuccessThreshold
    /\ state' = "closed" /\ successCount' = 0
    /\ calls' = (calls \cup probes) \ {c} /\ probes' = {} /\ leaked' = FALSE
    /\ UNCHANGED <<failureCount, halfOpenCount>>

-----------------------------------------------------------------------------
(* Allow                                                                   *)

\* A refused caller changes nothing, so only admissions are steps.
Allow(c) ==
    /\ c \notin calls \cup probes
    /\ \/ state = "closed" /\ calls' = calls \cup {c} /\ UNCHANGED <<breaker, probes, leaked>>
       \/ /\ state = "open" /\ cooled
          /\ state' = "halfOpen" /\ halfOpenCount' = 1 /\ successCount' = 0
          /\ probes' = {c} /\ leaked' = FALSE /\ UNCHANGED <<failureCount, calls>>
       \/ /\ state = "halfOpen" /\ halfOpenCount < HalfOpenMax
          /\ halfOpenCount' = halfOpenCount + 1
          /\ probes' = probes \cup {c}
          /\ UNCHANGED <<state, failureCount, successCount, calls, leaked>>
    /\ UNCHANGED <<cooled, healthy>>

-----------------------------------------------------------------------------
(* RecordSuccess and RecordFailure.  The breaker does not know which call  *)
(* reports: in half-open, a call admitted before counts like a probe.      *)

UnderWay == calls \cup probes
Return(c) == calls' = calls \ {c} /\ probes' = probes \ {c}
Report(c) == Return(c) /\ UNCHANGED leaked

\* A half-open episode ends: probes still under way are no longer its own.
EndEpisode(c) == calls' = UnderWay \ {c} /\ probes' = {} /\ leaked' = FALSE

SuccessWhenClosed(c) ==
    /\ state = "closed"
    /\ failureCount' = 0
    /\ Report(c) /\ UNCHANGED <<state, successCount, halfOpenCount>>

CountSuccess(c) ==
    /\ state = "halfOpen"
    /\ successCount + 1 < SuccessThreshold
    /\ successCount' = successCount + 1
    /\ Report(c) /\ UNCHANGED <<state, failureCount, halfOpenCount>>

Close(c) ==
    /\ state = "halfOpen"
    /\ successCount + 1 >= SuccessThreshold
    /\ state' = "closed" /\ failureCount' = 0 /\ successCount' = 0
    /\ EndEpisode(c) /\ UNCHANGED halfOpenCount

RecordSuccess(c) ==
    /\ c \in UnderWay
    /\ \/ SuccessWhenClosed(c) \/ CountSuccess(c) \/ Close(c)
       \/ state = "open" /\ Report(c) /\ UNCHANGED breaker
    /\ UNCHANGED <<cooled, healthy>>

FailureWhenClosed(c) ==
    /\ state = "closed"
    /\ failureCount' = failureCount + 1
    /\ state' = IF failureCount + 1 >= FailureThreshold THEN "open" ELSE "closed"
    /\ Report(c) /\ UNCHANGED <<successCount, halfOpenCount>>

Reopen(c) ==
    /\ state = "halfOpen"
    /\ state' = "open" /\ halfOpenCount' = 0
    /\ EndEpisode(c) /\ UNCHANGED <<failureCount, successCount>>

RecordFailure(c) ==
    /\ c \in UnderWay
    /\ ~healthy
    /\ \/ FailureWhenClosed(c) \/ Reopen(c)
       \/ state = "open" /\ Report(c) /\ UNCHANGED breaker
    /\ cooled' = FALSE
    /\ UNCHANGED healthy

-----------------------------------------------------------------------------
(* The surroundings.                                                       *)

\* Process returns between Allow and Send: the limiter refused or failed.
Abandon(c) ==
    /\ c \in UnderWay
    /\ Return(c) /\ leaked' = (leaked \/ c \in probes)
    /\ UNCHANGED <<breaker, cooled, healthy>>

Cool ==
    /\ ~cooled /\ cooled' = TRUE
    /\ UNCHANGED <<breaker, underWay, healthy>>

ProviderRecovers ==
    /\ ~healthy /\ healthy' = TRUE
    /\ UNCHANGED <<breaker, cooled, underWay>>

Finish(c) == RecordSuccess(c) \/ RecordFailure(c) \/ Abandon(c)

Next ==
    \/ \E c \in Call : Allow(c) \/ Finish(c)
    \/ Cool
    \/ ProviderRecovers

Spec == Init /\ [][Next]_vars

\* Traffic keeps arriving, every call ends, and time passes.
Fairness ==
    /\ \A c \in Call : WF_vars(Allow(c)) /\ WF_vars(Finish(c))
    /\ WF_vars(Cool)

FairSpec == Spec /\ Fairness

-----------------------------------------------------------------------------
(***************************************************************************)
(* A half-open breaker never has more of its test calls at the provider    *)
(* than halfOpenMax, however calls admitted earlier interleave with them.  *)
(***************************************************************************)
ProbeLimit == Cardinality(probes) <= HalfOpenMax

(***************************************************************************)
(* Every slot a half-open breaker has handed out is either still in use or *)
(* has been turned into a recorded success, and failures end the episode.  *)
(* So as long as its test calls report, and none of them is under way, it  *)
(* admits another one, whatever older calls report meanwhile; a breaker    *)
(* that refuses everybody while nobody can report to it would stay         *)
(* half-open for ever.                                                     *)
(***************************************************************************)
NotWedged ==
    state = "halfOpen" /\ probes = {} /\ ~leaked => halfOpenCount < HalfOpenMax

(***************************************************************************)
(* A closed breaker has room for a failure: it never starts (again) with   *)
(* the failures that opened it.                                            *)
(***************************************************************************)
ClosedHasRoom == state = "closed" => failureCount < FailureThreshold

(***************************************************************************)
(* Once the provider is well the breaker closes, however calls from before *)
(* are mixed with its test calls, unless one of these never reports.       *)
(***************************************************************************)
Recovers == healthy ~> (state = "closed" \/ leaked)

(***************************************************************************)
(* README.md:103 "Circuit breaker: ... with automatic recovery", and       *)
(* scripts/run-integration-tests.sh:415-416: "half-open state allows 3     *)
(* test requests - If tests pass - circuit closes".  Once the provider is  *)
(* well, the breaker closes, also when the limiter turned a test call away.*)
(***************************************************************************)
AlwaysRecovers == healthy ~> state = "closed"
=============================================================================
