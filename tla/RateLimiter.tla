---------------------------- MODULE RateLimiter ----------------------------
(***************************************************************************)
(* pkg/ratelimit: a sliding window over a Redis sorted set that all the    *)
(* workers of a channel share.  The script is atomic, but the time it goes *)
(* by is the caller's: taken from the clock of the worker's machine before *)
(* the call is sent.  Redis's own clock only runs the expiry of the key.   *)
(*                                                                         *)
(* Time is in units, and is Redis's; Lag and Lead say how far a caller's   *)
(* time may be off when the script runs, by skew of the clocks and by the  *)
(* way the call has travelled.                                             *)
(***************************************************************************)
EXTENDS Naturals, FiniteSets

CONSTANTS
    Limit,   \* NewLimiter's limitPerSec
    Window,  \* windowMs
    Lag,     \* how much a caller's time may be behind Redis's ...
    Lead     \* ... or ahead of it

ASSUME LimiterAssumption ==
    /\ Limit \in Nat \ {0} /\ Window \in Nat
    /\ Lag \in Nat /\ Lead \in Nat

VARIABLES
    time,      \* Redis's clock
    entries,   \* the sorted set ratelimit:<channel>, its members and their scores
    expires,   \* when PEXPIRE lets the key go
    served,    \* (history) how many calls were admitted; numbers the members
    admitted   \* (history) the calls that were admitted, and when

limiter == <<entries, expires, served, admitted>>
limiterVars == <<time, limiter>>

Entry == [id : Nat, stamp : Nat, at : Nat]

LimiterTypeOK ==
    /\ time \in Nat /\ expires \in Nat /\ served \in Nat
    /\ entries \in SUBSET Entry /\ admitted \in SUBSET Entry

LimiterInit ==
    /\ time = 0
    /\ entries = {} /\ expires = 0
    /\ served = 0 /\ admitted = {}

\* What a caller's clock may have said.
Stamps == {s \in 0 .. (time + Lead) : time <= s + Lag}

\* The members there are, and those ZREMRANGEBYSCORE leaves.
Live == IF time < expires THEN entries ELSE {}
Kept(now) == {e \in Live : e.stamp + Window > now}

Member(now) == [id |-> served + 1, stamp |-> now, at |-> time]

-----------------------------------------------------------------------------
(* Slips the script might contain.                                         *)

\* count <= limit.
AdmitOneMore(now) ==
    /\ Cardinality(Kept(now)) <= Limit
    /\ entries' = Kept(now) \cup {Member(now)}
    /\ expires' = time + Window
    /\ served' = served + 1
    /\ admitted' = admitted \cup {Member(now)}

\* ZADD before the count, so that a refused call is counted, too.
RefuseCounting(now) ==
    /\ Cardinality(Kept(now)) >= Limit
    /\ entries' = Kept(now) \cup {Member(now)}
    /\ expires' = time + Window
    /\ served' = served + 1
    /\ UNCHANGED admitted

-----------------------------------------------------------------------------
(* Limiter.Allow                                                           *)

Admit(now) ==
    /\ Cardinality(Kept(now)) < Limit
    /\ entries' = Kept(now) \cup {Member(now)}
    /\ expires' = time + Window
    /\ served' = served + 1
    /\ admitted' = admitted \cup {Member(now)}

Refuse(now) ==
    /\ Cardinality(Kept(now)) >= Limit
    /\ entries' = Kept(now)
    /\ UNCHANGED <<expires, served, admitted>>

Tick == time' = time + 1 /\ UNCHANGED limiter

LimiterNext ==
    \/ Tick
    \/ \E now \in Stamps : (Admit(now) \/ Refuse(now)) /\ UNCHANGED time

LimiterSpec == LimiterInit /\ [][LimiterNext]_limiterVars

-----------------------------------------------------------------------------
(***************************************************************************)
(* No more than Limit calls are admitted in any interval of Window less    *)
(* what clocks and transport may be off: late and early stamps, calls that *)
(* overtake each other and the expiry of the key included.  (In a whole    *)
(* Window it may be more, as soon as Lag or Lead is not zero.)             *)
(***************************************************************************)
Recent(e) == {d \in admitted : d.id <= e.id /\ d.at + Window > e.at + Lag + Lead}
WindowBound == \A e \in admitted : Cardinality(Recent(e)) <= Limit

(***************************************************************************)
(* A call is only refused when Limit calls were admitted a short while     *)
(* ago: refused calls do not count, so that callers who keep asking do not *)
(* keep the window closed, and no stamp from the future does.              *)
(***************************************************************************)
RefusalIsDue ==
    \A now \in Stamps :
        Cardinality(Kept(now)) >= Limit =>
            Cardinality({d \in admitted : d.at + Window + Lag + Lead > time}) >= Limit
=============================================================================
