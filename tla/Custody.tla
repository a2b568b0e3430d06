------------------------------ MODULE Custody ------------------------------
(***************************************************************************)
(* What the delivery pipeline promises about one notification, whatever    *)
(* fails along the way.  A notification is carried by the system from the  *)
(* moment its row exists until the system lets go of it; it is let go of   *)
(* once and never picked up again; and while it is carried it reaches at   *)
(* most one outcome: the provider accepted it, or it was dead-lettered.    *)
(* A notification may be let go of with no outcome (cancelled, or lost).   *)
(***************************************************************************)
EXTENDS Naturals

CONSTANT Notification

VARIABLES
    life,       \* "unborn", "carried" or "closed"
    accepted,   \* how often the provider answered 2xx for it
    buried      \* how many dead-letter entries it has

vars == <<life, accepted, buried>>

TypeOK ==
    /\ life \in [Notification -> {"unborn", "carried", "closed"}]
    /\ accepted \in [Notification -> Nat]
    /\ buried \in [Notification -> Nat]

Init ==
    /\ life = [n \in Notification |-> "unborn"]
    /\ accepted = [n \in Notification |-> 0]
    /\ buried = [n \in Notification |-> 0]

NoOutcome(n) == accepted[n] = 0 /\ buried[n] = 0

(***************************************************************************)
(* Some notifications come into being; one whose creator died at that very *)
(* moment is carried by nobody.                                            *)
(***************************************************************************)
Arrive(S) ==
    /\ \A n \in S : life[n] = "unborn"
    /\ \E born \in SUBSET S :
         life' = [n \in Notification |->
                     IF n \in born THEN "carried"
                     ELSE IF n \in S THEN "closed" ELSE life[n]]
    /\ UNCHANGED <<accepted, buried>>

Accept(n) ==
    /\ life[n] = "carried" /\ NoOutcome(n)
    /\ accepted' = [accepted EXCEPT ![n] = 1]
    /\ UNCHANGED <<life, buried>>

Bury(n) ==
    /\ life[n] = "carried" /\ NoOutcome(n)
    /\ buried' = [buried EXCEPT ![n] = 1]
    /\ life' = [life EXCEPT ![n] = "closed"]
    /\ UNCHANGED accepted

LetGo(S) ==
    /\ \A n \in S : life[n] = "carried"
    /\ life' = [n \in Notification |-> IF n \in S THEN "closed" ELSE life[n]]
    /\ UNCHANGED <<accepted, buried>>

Next ==
    \/ \E S \in SUBSET Notification : Arrive(S) \/ LetGo(S)
    \/ \E n \in Notification : Accept(n) \/ Bury(n)

Spec == Init /\ [][Next]_vars
=============================================================================
