------------------------------- MODULE Intake -------------------------------
(***************************************************************************)
(* The API's POST handlers up to the row they insert, and the templates    *)
(* they render from.  Requests run concurrently, share no lock, and read   *)
(* before they write: the idempotency key is looked up, then inserted      *)
(* under a UNIQUE constraint; a template is read, then rendered; an editor *)
(* reads a template, then writes all of it back.  A step is one round trip *)
(* to the database, and each of them may fail.  What becomes of a          *)
(* notification after its insertion is the matter of Delivery, and cannot  *)
(* change the answer any more.  A request whose process stops is one whose *)
(* next call fails.                                                        *)
(*                                                                         *)
(* A notification is known by the request (or item of a batch) it came     *)
(* from, since NewNotification makes one fresh ID for each.                *)
(***************************************************************************)
EXTENDS Naturals, FiniteSets

CONSTANTS
    Single,      \* POST /notifications requests, a client's retries included
    Item,        \* the items of one POST /notifications/batch
    KeyOf,       \* their idempotency keys, or NoKey
    NoKey,
    TemplateOf,  \* the templates they name, or NoTemplate
    NoTemplate,
    Template,
    Editor       \* PUT /templates/{id} requests

Request == Single \cup Item
Outcome == {"none", "error"}    \* "error" is every answer that is not 2xx

ASSUME IntakeAssumption ==
    /\ Single \cap Item = {} /\ Request \cap Outcome = {}
    /\ IsFiniteSet(Item)
    /\ NoTemplate \notin Template
    /\ TemplateOf \in [Request -> Template \cup {NoTemplate}]

VARIABLES
    rows,      \* the notifications table: whose notification was inserted
    created,   \* created_at of each notification that is built, else 0
    clock,     \* the API process's clock
    pc,        \* where each single request is
    batchPc,   \* where the batch request is
    accepted,  \* the items of the batch that passed validation
    answer,    \* the notification a request was answered with, or an Outcome
    template,  \* the templates table: absent, active or deleted
    draft      \* what each editor has read and will write

intake == <<rows, created, clock, pc, batchPc, accepted, answer>>
vars == <<intake, template, draft>>

NoDraft == [of |-> NoTemplate, state |-> "absent"]
Draft == [of : Template, state : {"active", "deleted"}]

\* What the tables and the requests under way hold.
TypeOK ==
    /\ rows \in SUBSET Request
    /\ created \in [Request -> Nat] /\ clock \in Nat
    /\ \A r \in rows : created[r] > 0
    /\ pc \in [Single -> {"start", "lookup", "insert", "done"}]
    /\ batchPc \in {"start", "insert", "done"}
    /\ accepted \in SUBSET Item
    /\ answer \in [Request -> Request \cup Outcome]
    /\ template \in [Template -> {"absent", "active", "deleted"}]
    /\ draft \in [Editor -> Draft \cup {NoDraft}]

Init ==
    /\ rows = {}
    /\ created = [r \in Request |-> 0] /\ clock = 1
    /\ pc = [r \in Single |-> "start"]
    /\ batchPc = "start" /\ accepted = {}
    /\ answer = [r \in Request |-> "none"]
    /\ template = [t \in Template |-> "absent"]
    /\ draft = [e \in Editor |-> NoDraft]

-----------------------------------------------------------------------------
(* The database.                                                           *)

WithKey(k) == {r \in rows : k # NoKey /\ KeyOf[r] = k}

\* UNIQUE (idempotency_key), and the foreign key to templates.
Insertable(S) ==
    /\ \A r \in S : WithKey(KeyOf[r]) = {}
    /\ \A r, q \in S : KeyOf[r] # NoKey /\ KeyOf[r] = KeyOf[q] => r = q
    /\ \A r \in S : TemplateOf[r] # NoTemplate => template[TemplateOf[r]] # "absent"

\* An insert that failed: what was built is gone.
Discard(S) ==
    /\ created' = [r \in Request |-> IF r \in S THEN 0 ELSE created[r]]
    /\ UNCHANGED rows

-----------------------------------------------------------------------------
(* One notification: NotificationService.Create.                           *)

Goto(r, l) == pc' = [pc EXCEPT ![r] = l]
Finish(r, a) == Goto(r, "done") /\ answer' = [answer EXCEPT ![r] = a]

\* A slip: CreatedAt left unset.
BuildUndated(r) == UNCHANGED <<clock, created>> /\ Goto(r, "insert")

\* NewNotification: time.Now at the microseconds the column keeps, so that
\* two notifications may have the same created_at.
Build(r) ==
    /\ \E now \in {clock, clock + 1} :
         clock' = now /\ created' = [created EXCEPT ![r] = now]
    /\ Goto(r, "insert")

\* GetByID finds it and it is active; Preview makes the same check.
Renderable(t) == t # NoTemplate => template[t] = "active"

\* The request's data will not do (a variable without a value, a text that is
\* too long, a scheduled_at in the past), or a call fails.
Refuse(r) == Finish(r, "error") /\ UNCHANGED <<clock, created>>

\* Channel, template and content are checked first; without a key the
\* notification is built at once.
Begin(r) ==
    /\ pc[r] = "start"
    /\ \/ /\ Renderable(TemplateOf[r])
          /\ \/ KeyOf[r] = NoKey /\ Build(r)
             \/ KeyOf[r] # NoKey /\ Goto(r, "lookup") /\ UNCHANGED <<clock, created>>
          /\ UNCHANGED answer
       \/ Refuse(r)
    /\ UNCHANGED <<rows, batchPc, accepted, template, draft>>

\* GetByIdempotencyKey: the notification that has the key is the answer;
\* a scheduled_at in the past is refused only where there is none.
Lookup(r) ==
    /\ pc[r] = "lookup"
    /\ \/ /\ \E n \in WithKey(KeyOf[r]) : Finish(r, n)
          /\ UNCHANGED <<clock, created>>
       \/ /\ WithKey(KeyOf[r]) = {}
          /\ Build(r) /\ UNCHANGED answer
       \/ Refuse(r)
    /\ UNCHANGED <<rows, batchPc, accepted, template, draft>>

\* A slip: INSERT ... ON CONFLICT DO NOTHING, and the answer is the new ID.
InsertOrIgnore(r) ==
    /\ pc[r] = "insert"
    /\ rows' = IF Insertable({r}) THEN rows \cup {r} ELSE rows
    /\ Finish(r, r)
    /\ UNCHANGED <<created, clock, batchPc, accepted, template, draft>>

\* NotificationRepo.Create.  A key taken since the lookup is an error like any
\* other (500), and so is a reply that is lost after the row was written.
Insert(r) ==
    /\ pc[r] = "insert"
    /\ \/ /\ Insertable({r})
          /\ rows' = rows \cup {r}
          /\ \E a \in {r, "error"} : Finish(r, a)
          /\ UNCHANGED created
       \/ Finish(r, "error") /\ Discard({r})
    /\ UNCHANGED <<clock, batchPc, accepted, template, draft>>

-----------------------------------------------------------------------------
(* Many notifications: NotificationService.CreateBatch.                    *)

\* Items are refused one by one for their data; keys and templates are not
\* looked at.  The others are built in one loop.
BeginBatch ==
    /\ batchPc = "start"
    /\ \E good \in SUBSET Item, late \in SUBSET Item :
         /\ late \subseteq good
         /\ accepted' = good
         /\ created' = [r \in Request |->
               IF r \in late THEN clock + 1 ELSE IF r \in good THEN clock ELSE created[r]]
         /\ clock' = IF late = {} THEN clock ELSE clock + 1
         /\ answer' = [r \in Request |-> IF r \in Item \ good THEN "error" ELSE answer[r]]
         /\ batchPc' = IF good = {} THEN "done" ELSE "insert"
    /\ UNCHANGED <<rows, pc, template, draft>>

\* A slip: no transaction, and an error leaves out the items it befalls.
InsertBatchOneByOne ==
    /\ batchPc = "insert" /\ batchPc' = "done"
    /\ rows' = rows \cup {i \in accepted : Insertable({i})}
    /\ answer' = [r \in Request |->
          IF r \in accepted THEN (IF Insertable({r}) THEN r ELSE "error") ELSE answer[r]]
    /\ UNCHANGED <<created, clock, pc, accepted, template, draft>>

\* NotificationRepo.CreateBatch: one transaction, and one answer for them all.
InsertBatch ==
    /\ batchPc = "insert" /\ batchPc' = "done"
    /\ \/ /\ Insertable(accepted)
          /\ rows' = rows \cup accepted
          /\ \/ answer' = [r \in Request |-> IF r \in accepted THEN r ELSE answer[r]]
             \/ answer' = [r \in Request |-> IF r \in Item THEN "error" ELSE answer[r]]
          /\ UNCHANGED created
       \/ /\ Discard(accepted)
          /\ answer' = [r \in Request |-> IF r \in Item THEN "error" ELSE answer[r]]
    /\ UNCHANGED <<clock, pc, accepted, template, draft>>

-----------------------------------------------------------------------------
(* Templates: TemplateService.  Names, like any data, may make a call fail.*)

CreateTemplate(t) ==
    /\ template[t] = "absent"
    /\ template' = [template EXCEPT ![t] = "active"]
    /\ UNCHANGED <<intake, draft>>

\* Update reads the template and changes the fields it was given ...
ReadTemplate(e) ==
    /\ draft[e] = NoDraft
    /\ \E t \in Template :
         /\ template[t] # "absent"
         /\ draft' = [draft EXCEPT ![e] = [of |-> t, state |-> template[t]]]
    /\ UNCHANGED <<intake, template>>

\* A slip: an update that builds a new template, active as NewTemplate makes it.
WriteTemplateAfresh(e) ==
    /\ draft[e] # NoDraft
    /\ template' = [template EXCEPT ![draft[e].of] = "active"]
    /\ draft' = [draft EXCEPT ![e] = NoDraft]
    /\ UNCHANGED intake

\* ... and writes every column back, active among them, unless it fails.
WriteTemplate(e) ==
    /\ draft[e] # NoDraft
    /\ \/ template' = [template EXCEPT ![draft[e].of] = draft[e].state]
       \/ UNCHANGED template
    /\ draft' = [draft EXCEPT ![e] = NoDraft]
    /\ UNCHANGED intake

DeleteTemplate(t) ==
    /\ template[t] # "absent"
    /\ template' = [template EXCEPT ![t] = "deleted"]
    /\ UNCHANGED <<intake, draft>>

Next ==
    \/ \E r \in Single : Begin(r) \/ Lookup(r) \/ Insert(r)
    \/ BeginBatch \/ InsertBatch
    \/ \E t \in Template : CreateTemplate(t) \/ DeleteTemplate(t)
    \/ \E e \in Editor : ReadTemplate(e) \/ WriteTemplate(e)

Spec == Init /\ [][Next]_vars

-----------------------------------------------------------------------------
(***************************************************************************)
(* Idempotency: however requests with one key interleave, whatever fails   *)
(* and however often a client tries again, the key has one notification,   *)
(* and every client that is given a notification is given that one, which  *)
(* exists.                                                                 *)
(***************************************************************************)
OneNotificationPerKey ==
    /\ \A r, n \in rows : KeyOf[r] # NoKey /\ KeyOf[r] = KeyOf[n] => r = n
    /\ \A r \in Request : answer[r] \in Request =>
         /\ answer[r] \in rows
         /\ answer[r] # r => KeyOf[r] # NoKey /\ KeyOf[answer[r]] = KeyOf[r]

(***************************************************************************)
(* A batch is inserted whole or not at all, and no client is told that     *)
(* some of its items were accepted when others of the accepted ones were   *)
(* not: one taken key, or one missing template, fails it all.              *)
(***************************************************************************)
BatchIsWhole ==
    /\ rows \cap Item \in {{}, accepted}
    /\ \A i \in accepted : answer[i] \in Request => accepted \subseteq rows

(***************************************************************************)
(* Once a template is deleted, no editor is about to write it back as it   *)
(* was before, and no request has already rendered it, it is out of use    *)
(* for good: nothing revives it, and no single notification is made from   *)
(* it.  (A batch does not look at the templates its items name.)           *)
(***************************************************************************)
Retired(t) ==
    /\ template[t] = "deleted"
    /\ \A e \in Editor : draft[e].of = t => draft[e].state = "deleted"
    /\ \A r \in Single : TemplateOf[r] = t => pc[r] \in {"start", "done"}
MadeFrom(t) == {r \in rows \cap Single : TemplateOf[r] = t}
DeletedForGood ==
    [][\A t \in Template : Retired(t) => Retired(t)' /\ MadeFrom(t)' = MadeFrom(t)]_vars
=============================================================================
