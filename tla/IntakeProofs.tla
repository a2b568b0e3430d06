---------------------------- MODULE IntakeProofs ----------------------------
(***************************************************************************)
(* Idempotency, whole batches and the retirement of templates, for any     *)
(* requests, keys, templates and editors, and with a client that pages     *)
(* through the list meanwhile.                                             *)
(***************************************************************************)
EXTENDS Listing, FiniteSetTheorems, TLAPS

\* A single request has a row only once it is done, a batch only once it has
\* inserted it, and what is about to be inserted is dated.
PlaceInv ==
    /\ TypeOK
    /\ clock > 0
    /\ \A r \in Single :
         /\ r \in rows => pc[r] = "done"
         /\ pc[r] = "insert" => created[r] > 0
    /\ batchPc = "start" => accepted = {}
    /\ batchPc # "done" => rows \cap Item = {}
    /\ batchPc = "insert" => \A i \in accepted : created[i] > 0

\* The rows of the batch are all of the accepted items or none, and its items
\* are answered in the step that inserts them.
WholeInv ==
    /\ rows \cap Item \in {{}, accepted}
    /\ batchPc # "done" => \A i \in Item : answer[i] \notin Request
    /\ \A i \in accepted : answer[i] \in Request => accepted \subseteq rows

IntakeInv == PlaceInv /\ OneNotificationPerKey /\ WholeInv

LEMMA Apart ==
    /\ Single \cap Item = {} /\ Single \subseteq Request /\ Item \subseteq Request
    /\ "none" \notin Request /\ "error" \notin Request
    /\ "none" \in Outcome /\ "error" \in Outcome
  BY IntakeAssumption DEF Request, Outcome

-----------------------------------------------------------------------------
LEMMA InitIntake == Init => IntakeInv
  BY Apart DEF Init, IntakeInv, PlaceInv, TypeOK, OneNotificationPerKey, WholeInv

LEMMA BeginStep ==
    ASSUME IntakeInv, NEW r \in Single, Begin(r)
    PROVE  IntakeInv'
<1>1. /\ r \in Request /\ r \notin Item /\ r \notin rows
  BY Apart DEF Begin, Refuse, IntakeInv, PlaceInv
<1>2. PlaceInv'
  BY <1>1, Apart DEF Begin, Refuse, Build, Goto, Finish, IntakeInv, PlaceInv, TypeOK
<1>3. OneNotificationPerKey'
  BY <1>1, Apart DEF Begin, Refuse, Build, Goto, Finish, IntakeInv, PlaceInv, TypeOK, OneNotificationPerKey
<1>4. WholeInv'
  BY <1>1, Apart DEF Begin, Refuse, Build, Goto, Finish, IntakeInv, PlaceInv, TypeOK, WholeInv
<1>5. QED BY <1>2, <1>3, <1>4 DEF IntakeInv

LEMMA LookupStep ==
    ASSUME IntakeInv, NEW r \in Single, Lookup(r)
    PROVE  IntakeInv'
<1>1. /\ r \in Request /\ r \notin Item /\ r \notin rows
  BY Apart DEF Lookup, Refuse, IntakeInv, PlaceInv
<1>2. PlaceInv'
  BY <1>1, Apart DEF Lookup, Refuse, WithKey, Build, Goto, Finish, IntakeInv, PlaceInv, TypeOK
<1>3. OneNotificationPerKey'
  BY <1>1, Apart
     DEF Lookup, Refuse, WithKey, Build, Goto, Finish, IntakeInv, PlaceInv, TypeOK, OneNotificationPerKey
<1>4. WholeInv'
  BY <1>1, Apart DEF Lookup, Refuse, WithKey, Build, Goto, Finish, IntakeInv, PlaceInv, TypeOK, WholeInv
<1>5. QED BY <1>2, <1>3, <1>4 DEF IntakeInv

LEMMA InsertStep ==
    ASSUME IntakeInv, NEW r \in Single, Insert(r)
    PROVE  IntakeInv'
<1>1. /\ r \in Request /\ r \notin Item /\ r \notin rows /\ created[r] > 0
  BY Apart DEF Insert, IntakeInv, PlaceInv
<1>2. PlaceInv'
  BY <1>1, Apart DEF Insert, Discard, Goto, Finish, IntakeInv, PlaceInv, TypeOK
<1>3. OneNotificationPerKey'
  BY <1>1, Apart
     DEF Insert, Discard, Insertable, WithKey, Goto, Finish, IntakeInv, PlaceInv, TypeOK,
         OneNotificationPerKey
<1>4. WholeInv'
  BY <1>1, Apart DEF Insert, Discard, Goto, Finish, IntakeInv, PlaceInv, TypeOK, WholeInv
<1>5. QED BY <1>2, <1>3, <1>4 DEF IntakeInv

LEMMA BeginBatchStep == ASSUME IntakeInv, BeginBatch PROVE IntakeInv'
<1>1. rows \cap Item = {} /\ UNCHANGED rows
  BY DEF BeginBatch, IntakeInv, PlaceInv
<1>2. PlaceInv'
  BY <1>1, Apart DEF BeginBatch, IntakeInv, PlaceInv, TypeOK
<1>3. OneNotificationPerKey'
  BY <1>1, Apart DEF BeginBatch, IntakeInv, PlaceInv, TypeOK, OneNotificationPerKey
<1>4. WholeInv'
  BY <1>1, Apart DEF BeginBatch, IntakeInv, PlaceInv, TypeOK, WholeInv
<1>5. QED BY <1>2, <1>3, <1>4 DEF IntakeInv

LEMMA InsertBatchStep == ASSUME IntakeInv, InsertBatch PROVE IntakeInv'
<1>1. /\ rows \cap Item = {} /\ accepted \subseteq Item /\ UNCHANGED accepted
      /\ \A i \in accepted : created[i] > 0
  BY DEF InsertBatch, IntakeInv, PlaceInv, TypeOK
<1>2. PlaceInv'
  BY <1>1, Apart DEF InsertBatch, Discard, IntakeInv, PlaceInv, TypeOK
<1>3. OneNotificationPerKey'
  BY <1>1, Apart
     DEF InsertBatch, Discard, Insertable, WithKey, IntakeInv, PlaceInv, TypeOK, OneNotificationPerKey
<1>4. WholeInv'
  BY <1>1, Apart DEF InsertBatch, Discard, IntakeInv, PlaceInv, TypeOK, WholeInv
<1>5. QED BY <1>2, <1>3, <1>4 DEF IntakeInv

\* The templates are apart from all this.
LEMMA TemplateStep ==
    ASSUME IntakeInv, UNCHANGED intake,
           \/ \E t \in Template : CreateTemplate(t) \/ DeleteTemplate(t)
           \/ \E e \in Editor : ReadTemplate(e) \/ WriteTemplate(e)
           \/ UNCHANGED <<template, draft>>
    PROVE  IntakeInv'
<1> DEFINE Typed == /\ template' \in [Template -> {"absent", "active", "deleted"}]
                    /\ draft' \in [Editor -> Draft \cup {NoDraft}]
<1>1. Typed
  <2>1. ASSUME NEW t \in Template, CreateTemplate(t) \/ DeleteTemplate(t) PROVE Typed
    BY <2>1 DEF CreateTemplate, DeleteTemplate, IntakeInv, PlaceInv, TypeOK
  <2>2. ASSUME NEW e \in Editor, ReadTemplate(e) PROVE Typed
    BY <2>2 DEF ReadTemplate, Draft, IntakeInv, PlaceInv, TypeOK
  <2>3. ASSUME NEW e \in Editor, WriteTemplate(e) PROVE Typed
    BY <2>3 DEF WriteTemplate, Draft, NoDraft, IntakeInv, PlaceInv, TypeOK
  <2>4. CASE UNCHANGED <<template, draft>>
    BY <2>4 DEF IntakeInv, PlaceInv, TypeOK
  <2>5. QED BY <2>1, <2>2, <2>3, <2>4
<1>2. PlaceInv'
  BY <1>1 DEF intake, IntakeInv, PlaceInv, TypeOK
<1>3. OneNotificationPerKey' /\ WholeInv'
  BY DEF intake, IntakeInv, OneNotificationPerKey, WholeInv
<1>4. QED BY <1>2, <1>3 DEF IntakeInv

LEMMA IntakeStep == IntakeInv /\ [Next]_vars => IntakeInv'
<1> SUFFICES ASSUME IntakeInv, [Next]_vars PROVE IntakeInv'
  OBVIOUS
<1>1. ASSUME NEW r \in Single, Begin(r) \/ Lookup(r) \/ Insert(r) PROVE IntakeInv'
  BY <1>1, BeginStep, LookupStep, InsertStep
<1>2. CASE BeginBatch \/ InsertBatch
  BY <1>2, BeginBatchStep, InsertBatchStep
<1>3. CASE \/ \E t \in Template : CreateTemplate(t) \/ DeleteTemplate(t)
           \/ \E e \in Editor : ReadTemplate(e) \/ WriteTemplate(e)
  <2>1. UNCHANGED intake
    BY <1>3 DEF CreateTemplate, DeleteTemplate, ReadTemplate, WriteTemplate
  <2>2. QED BY <1>3, <2>1, TemplateStep
<1>4. CASE UNCHANGED vars
  BY <1>4, TemplateStep DEF vars
<1>5. QED BY <1>1, <1>2, <1>3, <1>4 DEF Next

-----------------------------------------------------------------------------
(***************************************************************************)
(* A key has one notification, and every answer with a notification names  *)
(* the one that exists, for any requests and however they interleave.      *)
(***************************************************************************)
THEOREM KeysAreUnique == Spec => []OneNotificationPerKey
<1>1. IntakeInv => OneNotificationPerKey
  BY DEF IntakeInv
<1>2. QED BY InitIntake, IntakeStep, <1>1, PTL DEF Spec

(***************************************************************************)
(* The accepted items of a batch are inserted together or not at all.      *)
(***************************************************************************)
THEOREM BatchesAreWhole == Spec => []BatchIsWhole
<1>1. IntakeInv => BatchIsWhole
  BY DEF IntakeInv, WholeInv, BatchIsWhole
<1>2. QED BY InitIntake, IntakeStep, <1>1, PTL DEF Spec

-----------------------------------------------------------------------------
LEMMA RetiredStep ==
    ASSUME IntakeInv, Next, NEW t \in Template, Retired(t)
    PROVE  Retired(t)' /\ MadeFrom(t)' = MadeFrom(t)
<1> DEFINE Goal == Retired(t)' /\ MadeFrom(t)' = MadeFrom(t)
<1>1. TypeOK /\ template[t] = "deleted" /\ t # NoTemplate
  BY IntakeAssumption DEF IntakeInv, PlaceInv, Retired
<1>2. ASSUME NEW r \in Single, Begin(r) PROVE Goal
  BY <1>1, <1>2 DEF Begin, Refuse, Renderable, Build, Goto, Finish, TypeOK, Retired, MadeFrom
<1>3. ASSUME NEW r \in Single, Lookup(r) PROVE Goal
  BY <1>1, <1>3 DEF Lookup, Refuse, Build, Goto, Finish, TypeOK, Retired, MadeFrom
<1>4. ASSUME NEW r \in Single, Insert(r) PROVE Goal
  BY <1>1, <1>4 DEF Insert, Discard, Goto, Finish, TypeOK, Retired, MadeFrom
<1>5. CASE BeginBatch
  BY <1>1, <1>5 DEF BeginBatch, Retired, MadeFrom
<1>6. CASE InsertBatch
  BY <1>1, <1>6, Apart DEF InsertBatch, Discard, TypeOK, Retired, MadeFrom
<1>7. ASSUME NEW u \in Template, CreateTemplate(u) \/ DeleteTemplate(u) PROVE Goal
  BY <1>1, <1>7 DEF CreateTemplate, DeleteTemplate, intake, TypeOK, Retired, MadeFrom
<1>8. ASSUME NEW e \in Editor, ReadTemplate(e) PROVE Goal
  BY <1>1, <1>8 DEF ReadTemplate, intake, TypeOK, Retired, MadeFrom
<1>9. ASSUME NEW e \in Editor, WriteTemplate(e) PROVE Goal
  BY <1>1, <1>9 DEF WriteTemplate, NoDraft, intake, TypeOK, Retired, MadeFrom
<1>10. QED BY <1>2, <1>3, <1>4, <1>5, <1>6, <1>7, <1>8, <1>9 DEF Next

(***************************************************************************)
(* A template that is deleted, and that nobody who read it before is about *)
(* to write back or has rendered, stays out of use for good.               *)
(***************************************************************************)
THEOREM RetirementIsFinal == Spec => DeletedForGood
<1> DEFINE Stays == \A t \in Template : Retired(t) => Retired(t)' /\ MadeFrom(t)' = MadeFrom(t)
<1>1. IntakeInv /\ [Next]_vars => [Stays]_vars
  BY RetiredStep
<1>2. QED BY InitIntake, IntakeStep, <1>1, PTL DEF Spec, DeletedForGood

-----------------------------------------------------------------------------
(***************************************************************************)
(* What the tables and requests under way hold, and where the client who   *)
(* reads the list is: what it has still to be shown are rows.              *)
(***************************************************************************)
THEOREM ListTypeCorrect == ListSpec => []ListTypeOK
<1> DEFINE I == IntakeInv /\ ListTypeOK
<1>1. ListInit => I
  BY InitIntake DEF ListInit, ListTypeOK, Init, IntakeInv, PlaceInv
<1>2. I /\ [ListNext]_listVars => I'
  <2> SUFFICES ASSUME I, [ListNext]_listVars PROVE I'
    OBVIOUS
  <2>1. [Next]_vars
    BY DEF ListNext, List, listVars
  <2>2. IntakeInv'
    BY <2>1, IntakeStep
  <2>3. page' \in Nat /\ unseen' \in SUBSET rows'
    <3>1. CASE Next /\ UNCHANGED pager
      <4>1. rows \subseteq rows'
        BY <3>1
           DEF Next, Begin, Lookup, Refuse, Insert, BeginBatch, InsertBatch, Discard, CreateTemplate,
               DeleteTemplate, ReadTemplate, WriteTemplate, intake
      <4>2. QED BY <3>1, <4>1 DEF pager, ListTypeOK
    <3>2. CASE List
      BY <3>2 DEF List, vars, intake, ListTypeOK
    <3>3. CASE UNCHANGED listVars
      BY <3>3 DEF listVars, vars, intake, pager, ListTypeOK
    <3>4. QED BY <3>1, <3>2, <3>3 DEF ListNext
  <2>4. QED BY <2>2, <2>3 DEF ListTypeOK, IntakeInv, PlaceInv
<1>3. QED BY <1>1, <1>2, PTL DEF ListSpec

-----------------------------------------------------------------------------
(* The list.  A row that was not shown is preceded by all the rows of the  *)
(* pages that were, so the pages to come start before it.                  *)

Newer(r) == {q \in rows : created[r] < created[q]}
Tied(r) == \E q \in rows \ {r} : created[q] = created[r]

PagingInv ==
    /\ IsFiniteSet(rows)
    /\ page \in Nat /\ unseen \subseteq rows
    /\ \A r \in unseen : Tied(r) \/ (page > 0 /\ Offset(page) <= Cardinality(Newer(r)))

LEMMA Sizes == PageSize \in Nat \ {0}
  BY ListingAssumption DEF PageSize

LEMMA NewestOf ==
    ASSUME NEW k \in Nat, NEW S, IsFiniteSet(S), NEW T \in Newest(k, S)
    PROVE  /\ T \subseteq S /\ IsFiniteSet(T) /\ Cardinality(T) \in Nat
           /\ Cardinality(S) \in Nat
           /\ Cardinality(T) = IF k < Cardinality(S) THEN k ELSE Cardinality(S)
           /\ \A r \in T, q \in S \ T : created[q] <= created[r]
<1>1. T \subseteq S /\ \A r \in T, q \in S \ T : created[q] <= created[r]
  BY DEF Newest
<1>2. IsFiniteSet(T) /\ Cardinality(T) \in Nat /\ Cardinality(S) \in Nat
  BY <1>1, FS_Subset, FS_CardinalityType
<1>3. Cardinality(T) = IF k < Cardinality(S) THEN k ELSE Cardinality(S)
  BY DEF Newest, Least
<1>4. QED BY <1>1, <1>2, <1>3

\* The size of a subset that leaves something out.
LEMMA Fewer ==
    ASSUME NEW S, IsFiniteSet(S), NEW T, T \subseteq S, NEW x \in S, x \notin T
    PROVE  IsFiniteSet(T) /\ Cardinality(T) + 1 <= Cardinality(S)
           /\ Cardinality(T) \in Nat /\ Cardinality(S) \in Nat
<1>1. IsFiniteSet(T)
  BY FS_Subset
<1>2. IsFiniteSet(T \cup {x}) /\ Cardinality(T \cup {x}) = Cardinality(T) + 1
  BY <1>1, FS_AddElement
<1>3. T \cup {x} \subseteq S
  OBVIOUS
<1>4. Cardinality(T \cup {x}) <= Cardinality(S)
  BY <1>3, FS_Subset
<1>5. QED BY <1>1, <1>2, <1>4, FS_CardinalityType

LEMMA PageShown ==
    ASSUME TypeOK, IsFiniteSet(rows), NEW k \in Nat, NEW size \in Nat \ {0},
           NEW skipped \in Newest(k, rows), NEW shown \in Newest(size, rows \ skipped),
           NEW r \in rows, r \notin shown, ~Tied(r), k <= Cardinality(Newer(r))
    PROVE  /\ Cardinality(shown) = size
           /\ k + size <= Cardinality(Newer(r))
<1>1. \A q \in rows : created[q] \in Nat
  BY DEF TypeOK
<1>2. \A q \in rows : q # r => created[q] # created[r]
  BY DEF Tied
<1>3. /\ skipped \subseteq rows /\ IsFiniteSet(skipped)
      /\ Cardinality(skipped) \in Nat /\ Cardinality(rows) \in Nat
      /\ Cardinality(skipped) = IF k < Cardinality(rows) THEN k ELSE Cardinality(rows)
      /\ \A q \in skipped, u \in rows \ skipped : created[u] <= created[q]
  BY NewestOf
<1>4. Newer(r) \subseteq rows /\ r \notin Newer(r)
  BY <1>1 DEF Newer
<1>5. /\ IsFiniteSet(Newer(r)) /\ Cardinality(Newer(r)) \in Nat
      /\ Cardinality(Newer(r)) + 1 <= Cardinality(rows)
  BY <1>4, Fewer
<1>6. Cardinality(skipped) = k
  BY <1>3, <1>5
<1>7. r \notin skipped
  <2> SUFFICES ASSUME r \in skipped PROVE FALSE
    OBVIOUS
  <2>1. Newer(r) \subseteq skipped
    BY <1>1, <1>3 DEF Newer
  <2>2. Cardinality(Newer(r)) + 1 <= Cardinality(skipped)
    BY <1>3, <1>4, <2>1, Fewer
  <2>3. QED BY <1>5, <1>6, <2>2
<1>8. IsFiniteSet(rows \ skipped)
  BY FS_Subset
<1>9. /\ shown \subseteq rows \ skipped /\ IsFiniteSet(shown)
      /\ Cardinality(shown) \in Nat /\ Cardinality(rows \ skipped) \in Nat
      /\ Cardinality(shown) = IF size < Cardinality(rows \ skipped) THEN size
                             ELSE Cardinality(rows \ skipped)
      /\ \A q \in shown, u \in (rows \ skipped) \ shown : created[u] <= created[q]
  BY <1>8, NewestOf
<1>10. Cardinality(shown) = size
  <2>1. Cardinality(shown) + 1 <= Cardinality(rows \ skipped)
    BY <1>7, <1>8, <1>9, Fewer
  <2>2. QED BY <1>9, <2>1
<1>11. skipped \cup shown \subseteq Newer(r)
  BY <1>1, <1>2, <1>3, <1>7, <1>9 DEF Newer
<1>12. Cardinality(skipped \cup shown) = Cardinality(skipped) + Cardinality(shown)
  <2>1. skipped \cap shown = {}
    BY <1>9
  <2>2. Cardinality(skipped \cap shown) = 0
    BY <2>1, FS_EmptySet
  <2>3. Cardinality(skipped \cup shown)
          = Cardinality(skipped) + Cardinality(shown) - Cardinality(skipped \cap shown)
    BY <1>3, <1>9, FS_Union
  <2>4. QED BY <1>3, <1>9, <2>2, <2>3
<1>13. Cardinality(skipped \cup shown) <= Cardinality(Newer(r))
  BY <1>5, <1>11, FS_Subset
<1>14. QED BY <1>6, <1>10, <1>12, <1>13

\* Rows stay, with the created_at they were inserted with.
LEMMA RowsStay ==
    ASSUME IntakeInv, IsFiniteSet(rows), [Next]_vars
    PROVE  /\ rows \subseteq rows' /\ IsFiniteSet(rows')
           /\ \A r \in rows : created'[r] = created[r]
<1> DEFINE Kept == rows \subseteq rows' /\ IsFiniteSet(rows') /\ \A r \in rows : created'[r] = created[r]
<1>1. TypeOK /\ rows \subseteq Request
  BY DEF IntakeInv, PlaceInv, TypeOK
<1>2. ASSUME NEW r \in Single, Begin(r) \/ Lookup(r) PROVE Kept
  <2>1. r \notin rows /\ UNCHANGED rows
    BY <1>2 DEF Begin, Lookup, Refuse, IntakeInv, PlaceInv
  <2>2. QED BY <1>1, <1>2, <2>1, Apart DEF Begin, Lookup, Refuse, Build, TypeOK
<1>3. ASSUME NEW r \in Single, Insert(r) PROVE Kept
  <2>1. r \notin rows
    BY <1>3 DEF Insert, IntakeInv, PlaceInv
  <2>2. rows' = rows \/ rows' = rows \cup {r}
    BY <1>3 DEF Insert, Discard
  <2>3. IsFiniteSet(rows')
    BY <2>2, FS_AddElement
  <2>4. QED BY <1>1, <1>3, <2>1, <2>2, <2>3, Apart DEF Insert, Discard, TypeOK
<1>4. CASE BeginBatch
  <2>1. rows \cap Item = {} /\ UNCHANGED rows
    BY <1>4 DEF BeginBatch, IntakeInv, PlaceInv
  <2>2. QED BY <1>1, <1>4, <2>1 DEF BeginBatch, TypeOK
<1>5. CASE InsertBatch
  <2>1. rows \cap Item = {} /\ accepted \subseteq Item
    BY <1>1, <1>5 DEF InsertBatch, IntakeInv, PlaceInv, TypeOK
  <2>2. rows' = rows \/ rows' = rows \cup accepted
    BY <1>5 DEF InsertBatch, Discard
  <2>3. IsFiniteSet(accepted)
    BY <2>1, IntakeAssumption, FS_Subset
  <2>4. IsFiniteSet(rows \cup accepted)
    BY <2>3, FS_Union
  <2>5. QED BY <1>1, <1>5, <2>1, <2>2, <2>4 DEF InsertBatch, Discard, TypeOK
<1>6. CASE UNCHANGED intake
  BY <1>6 DEF intake
<1>7. CASE \/ \E t \in Template : CreateTemplate(t) \/ DeleteTemplate(t)
           \/ \E e \in Editor : ReadTemplate(e) \/ WriteTemplate(e)
  BY <1>6, <1>7 DEF CreateTemplate, DeleteTemplate, ReadTemplate, WriteTemplate
<1>8. QED BY <1>2, <1>3, <1>4, <1>5, <1>6, <1>7 DEF Next, vars

LEMMA PagingStep == IntakeInv /\ PagingInv /\ [ListNext]_listVars => PagingInv'
<1> SUFFICES ASSUME IntakeInv, PagingInv, [ListNext]_listVars PROVE PagingInv'
  OBVIOUS
<1>1. TypeOK /\ \A r \in rows : created[r] \in Nat
  BY DEF IntakeInv, PlaceInv, TypeOK
<1>2. ASSUME [Next]_vars, UNCHANGED pager PROVE PagingInv'
  <2>1. /\ rows \subseteq rows' /\ IsFiniteSet(rows')
        /\ \A r \in rows : created'[r] = created[r]
    BY <1>2, RowsStay DEF PagingInv
  <2>2. page' = page /\ unseen' = unseen
    BY <1>2 DEF pager
  <2>3. ASSUME NEW r \in unseen
        PROVE  Tied(r)' \/ (page > 0 /\ Offset(page) <= Cardinality(Newer(r)'))
    <3>1. r \in rows
      BY DEF PagingInv
    <3>2. Tied(r) => Tied(r)'
      BY <2>1, <3>1 DEF Tied
    <3>3. Newer(r) \subseteq Newer(r)' /\ Newer(r)' \subseteq rows'
      BY <2>1, <3>1 DEF Newer
    <3>4. IsFiniteSet(Newer(r)')
      BY <2>1, <3>3, FS_Subset
    <3>5. Cardinality(Newer(r)) <= Cardinality(Newer(r)')
          /\ Cardinality(Newer(r)) \in Nat /\ Cardinality(Newer(r)') \in Nat
      BY <3>3, <3>4, FS_Subset, FS_CardinalityType
    <3>6. page > 0 => Offset(page) \in Nat
      BY Sizes DEF Offset, PagingInv
    <3>7. QED BY <3>2, <3>5, <3>6 DEF PagingInv
  <2>4. QED BY <2>1, <2>2, <2>3 DEF PagingInv
<1>3. CASE List
  <2>1. page > 0 /\ page \in Nat /\ UNCHANGED <<rows, created>>
    BY <1>3 DEF List, vars, intake, PagingInv
  <2>2. PICK skipped \in Newest(Offset(page), rows) : \E shown \in Newest(PageSize, rows \ skipped) :
           /\ unseen' = (IF page = 1 THEN rows ELSE unseen) \ shown
           /\ page' = IF Cardinality(shown) < PageSize THEN 0 ELSE page + 1
    BY <1>3 DEF List
  <2>3. PICK shown \in Newest(PageSize, rows \ skipped) :
           /\ unseen' = (IF page = 1 THEN rows ELSE unseen) \ shown
           /\ page' = IF Cardinality(shown) < PageSize THEN 0 ELSE page + 1
    BY <2>2
  <2>4. Offset(page) \in Nat /\ Offset(page + 1) = Offset(page) + PageSize
        /\ (page = 1 => Offset(page) = 0)
    BY <2>1, Sizes DEF Offset
  <2>5. ASSUME NEW r \in unseen', ~Tied(r)
        PROVE  page' > 0 /\ Offset(page') <= Cardinality(Newer(r))
    <3>1. r \in rows /\ r \notin shown /\ (page = 1 \/ r \in unseen)
      BY <2>3 DEF PagingInv
    <3>2. Cardinality(Newer(r)) \in Nat
      BY FS_Subset, FS_CardinalityType DEF Newer, PagingInv
    <3>3. Offset(page) <= Cardinality(Newer(r))
      BY <2>4, <2>5, <3>1, <3>2 DEF PagingInv
    <3>4. Cardinality(shown) = PageSize /\ Offset(page) + PageSize <= Cardinality(Newer(r))
      BY <1>1, <2>4, <2>5, <3>1, <3>3, Sizes, PageShown DEF PagingInv
    <3>5. page' = page + 1
      BY <2>3, <3>4, Sizes
    <3>6. QED BY <2>1, <2>4, <3>4, <3>5
  <2>6. page' \in Nat /\ unseen' \subseteq rows
    BY <2>1, <2>3 DEF PagingInv
  <2>7. \A r : (Tied(r)' <=> Tied(r)) /\ Newer(r)' = Newer(r)
    BY <2>1 DEF Tied, Newer
  <2>8. QED BY <2>1, <2>5, <2>6, <2>7 DEF PagingInv
<1>4. CASE UNCHANGED listVars
  BY <1>2, <1>4 DEF listVars
<1>5. QED BY <1>2, <1>3, <1>4 DEF ListNext

(***************************************************************************)
(* A client that reads the list to its first page that is not full was     *)
(* shown every row there was when it began, except among rows that share   *)
(* their created_at: for any page size, and whatever is created meanwhile. *)
(***************************************************************************)
THEOREM PagesAreComplete == ListSpec => []NothingMissed
<1> DEFINE I == IntakeInv /\ PagingInv
<1>1. ListInit => I
  BY InitIntake, FS_EmptySet DEF ListInit, Init, PagingInv
<1>2. I /\ [ListNext]_listVars => I'
  <2>1. [ListNext]_listVars => [Next]_vars
    BY DEF ListNext, List, listVars
  <2>2. QED BY <2>1, IntakeStep, PagingStep
<1>3. I => NothingMissed
  BY DEF PagingInv, Tied, NothingMissed
<1>4. QED BY <1>1, <1>2, <1>3, PTL DEF ListSpec
=============================================================================
