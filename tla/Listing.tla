------------------------------ MODULE Listing ------------------------------
(***************************************************************************)
(* GET /notifications while notifications are being created: a client asks *)
(* for page after page until it gets one that is not full.  Every page is  *)
(* a query of its own (ORDER BY created_at DESC, LIMIT, OFFSET), so the    *)
(* table may grow between two of them, also by a row that was built, and   *)
(* got its created_at, before rows the client has already seen.            *)
(*                                                                         *)
(* Rows do not leave the list: the client filters by nothing that changes. *)
(* The COUNT that a page also carries is not modelled.                     *)
(***************************************************************************)
EXTENDS Intake

CONSTANTS
    Asked,         \* the page_size the client asks for
    DefaultSize,   \* 20 in the code
    LargestSize    \* 100 in the code

ASSUME ListingAssumption ==
    Asked \in Nat /\ DefaultSize \in Nat \ {0} /\ LargestSize \in Nat

VARIABLES
    page,   \* the page the client asks for next; 0 when it has the last one
    unseen  \* (history) the rows there were when it began and it was not shown

pager == <<page, unseen>>
listVars == <<vars, pager>>

ListTypeOK ==
    /\ TypeOK
    /\ page \in Nat
    /\ unseen \in SUBSET rows

ListInit == Init /\ page = 1 /\ unseen = {}

\* What List makes of page_size, and tells the client.
PageSize == IF Asked < 1 \/ Asked > LargestSize THEN DefaultSize ELSE Asked

\* A slip: pages counted from zero.
OffsetFromZero(p) == p * PageSize

Offset(p) == (p - 1) * PageSize

Least(a, b) == IF a < b THEN a ELSE b

\* The ways to take the k newest of S; rows of one created_at come in any order.
Newest(k, S) ==
    {T \in SUBSET S : /\ Cardinality(T) = Least(k, Cardinality(S))
                      /\ \A r \in T, q \in S \ T : created[q] <= created[r]}

List ==
    /\ page > 0
    /\ \E skipped \in Newest(Offset(page), rows) :
         \E shown \in Newest(PageSize, rows \ skipped) :
           /\ unseen' = (IF page = 1 THEN rows ELSE unseen) \ shown
           /\ page' = IF Cardinality(shown) < PageSize THEN 0 ELSE page + 1
    /\ UNCHANGED vars

ListNext == (Next /\ UNCHANGED pager) \/ List
ListSpec == ListInit /\ [][ListNext]_listVars

(***************************************************************************)
(* Reading to the first page that is not full misses nothing that was      *)
(* there when the client began, whatever is created meanwhile, except      *)
(* among rows that share their created_at, which have no fixed order.      *)
(***************************************************************************)
NothingMissed ==
    page = 0 =>
        \A r \in unseen : \E q \in rows \ {r} : created[q] = created[r]
=============================================================================
