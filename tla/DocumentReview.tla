--------------------------- MODULE DocumentReview ---------------------------
(***************************************************************************)
(* The two-stage review of a controlled document (signAsReviewer,          *)
(* escalateReview and the reviewer's decision in                           *)
(* approvals/approval.service.ts) and what edits do to it                  *)
(* (implementation/implementation.service.ts, updateRecord).               *)
(*                                                                         *)
(* The sign-offs and the stage live in the row's JSON column `data`.  A    *)
(* handler loads the row, decides on its copy and writes the column as a   *)
(* whole; a client edits by sending back the whole column it once read.    *)
(* The status is a column of its own and written only where the handler    *)
(* changed it.  DocumentLineage follows the versions of a document, this   *)
(* module what one version's reviewers said.                               *)
(***************************************************************************)
EXTENDS FiniteSets, Naturals, Sequelize

CONSTANTS
  Versions,   \* rows of the document's lineage
  Root,       \* the first one
  Reviewers,  \* users a document may list as initial reviewers
  Requests,   \* client forms and HTTP requests open at once
  MaxForms    \* bound: forms a client opens

VARIABLES
  doc,      \* doc[v]: status and data of version v
  own,      \* own[v]: the reviewers who signed v itself (history)
  excused,  \* excused[v]: the reviewers listed by an edit after an escalation, or by a fork
            \* from a form older than it (history)
  overlap,  \* versions two slots held a copy of at once (history)
  forms,    \* forms opened so far
  req       \* req[q]: the form or request in slot q

vars == <<doc, own, excused, overlap, forms, req>>

Statuses == {"absent", "Draft", "Under Review", "Revision Requested", "Approved", "Rejected", "Published",
             "Superseded"}

\* data: the listed reviewers, those with a sign-off ({}: the key is absent), and
\* reviewStage: absent, null, or final.
Bag(reviewers, signed, stage) == [reviewers |-> reviewers, signed |-> signed, stage |-> stage]

NoBag == Bag({}, {}, "absent")

Row(status, bag) == [status |-> status, bag |-> bag]

Absent == Row("absent", NoBag)

Exists(v) == doc[v].status # "absent"

\* reviewStageOf.
Stage(bag) == IF bag.stage # "final" /\ bag.reviewers # {} THEN "initial" ELSE "final"

InInitialReview(row) == row.status = "Under Review" /\ Stage(row.bag) = "initial"

\* was: the status the row was loaded with; now: the row as the handler will save it
\* (in a form: as it was shown); by: who signs.
Slot(pc, v, was, now, by) == [pc |-> pc, v |-> v, was |-> was, now |-> now, by |-> by]

Idle == Slot("idle", Root, "absent", Absent, {})

Move(q, r) == req' = [req EXCEPT ![q] = r]

\* Another slot has a copy of v already.
Meet(q, v) ==
  overlap' = IF \E p \in Requests \ {q} : req[p].pc # "idle" /\ req[p].v = v
             THEN overlap \cup {v} ELSE overlap

\* Slot q takes a copy of v.
Take(q, pc, v, now, by) ==
  /\ req[q].pc = "idle" /\ Exists(v)
  /\ Move(q, Slot(pc, v, doc[v].status, now, by))
  /\ Meet(q, v)
  /\ UNCHANGED <<doc, own, excused>>

\* A handler loads v and decides to save it as `now`.
Begin(q, pc, v, now, by) == Take(q, pc, v, now, by) /\ UNCHANGED forms

\* save(): the status if it was changed, data as a whole.
Saved(q) == Row(Changed(doc[req[q].v].status, req[q].was, req[q].now.status), req[q].now.bag)

End(q, rows) == doc' = rows /\ Move(q, Idle)

-----------------------------------------------------------------------------
Init ==
  /\ \E reviewers \in SUBSET Reviewers :
       doc = [v \in Versions |-> IF v = Root THEN Row("Draft", Bag(reviewers, {}, "absent")) ELSE Absent]
  /\ own = [v \in Versions |-> {}]
  /\ excused = [v \in Versions |-> {}]
  /\ overlap = {}
  /\ forms = 0
  /\ req = [q \in Requests |-> Idle]

\* A client opens the document.
OpenForm(q, v) ==
  /\ forms < MaxForms
  /\ forms' = forms + 1
  /\ Take(q, "form", v, doc[v], {})

\* Mutant: whether the document is published is not looked at.
EditsPublished(status, allowed) == "edit"

\* An edit of a Published version forks a draft, unless the organization's settings allow
\* (allowEditPublished) to amend it in place.
EditOrFork(status, allowed) ==
  IF status # "Published" THEN "edit" ELSE IF allowed THEN "amend" ELSE "fork"

\* The bag a form sends: other reviewers, perhaps. A fork takes from the published
\* row what the form does not name.
Sent(form, reviewers, kept) ==
  Bag(reviewers, IF form.signed = {} THEN kept.signed ELSE form.signed,
      IF form.stage = "absent" THEN kept.stage ELSE form.stage)

\* updateRecord with data: the form's bag replaces the row's, with a plain status perhaps,
\* or becomes a draft of its own. An administrator may switch the setting whenever he
\* likes: an edit finds it one way or the other.
LoadEdit(q, reviewers, to, allowed) ==
  LET v == req[q].v
      form == req[q].now.bag
      status == doc[v].status
      pc == EditOrFork(status, allowed)
      sent == Sent(form, reviewers, IF pc = "fork" THEN doc[v].bag ELSE NoBag) IN
  /\ req[q].pc = "form"
  /\ to \in {status, "Draft"} /\ (pc = "fork" => to = status)
  /\ Move(q, Slot(pc, v, status, Row(to, sent), {}))
  /\ excused' = IF sent.stage # "final" THEN excused
                ELSE [excused EXCEPT ![v] = @ \cup IF form.stage = "final" THEN reviewers \ form.reviewers ELSE reviewers]
  /\ UNCHANGED <<doc, own, overlap, forms>>

\* forkPublishedRecord: a draft of its own, sign-offs and stage included; the
\* original stays.
Fork(q, d) ==
  /\ req[q].pc = "fork" /\ ~Exists(d)
  /\ End(q, [doc EXCEPT ![d] = Row("Draft", req[q].now.bag)])
  /\ excused' = [excused EXCEPT ![d] = excused[req[q].v]]
  /\ UNCHANGED <<own, overlap, forms>>

LoadSubmit(q, v) ==
  /\ doc[v].status \in {"Draft", "Revision Requested"}
  /\ Begin(q, "submit", v, Row("Under Review", doc[v].bag), {})

WithSignoff(bag, u) == bag.signed \cup {u}

\* signAsReviewer: a listed reviewer who has no sign-off yet, in whatever round.
\* "Request changes" returns the document and clears the stage.
LoadSign(q, v, u, changes) ==
  LET bag == doc[v].bag IN
  /\ InInitialReview(doc[v])
  /\ u \notin bag.signed /\ u \in bag.reviewers
  /\ Begin(q, "sign", v, Row(IF changes THEN "Revision Requested" ELSE "Under Review",
                             Bag(bag.reviewers, WithSignoff(bag, u),
                                 IF changes THEN "null" ELSE bag.stage)), {u})

\* Mutant: one sign-off is enough.
AllSignedOne(bag) == bag.reviewers \cap bag.signed # {}

AllSigned(bag) == bag.reviewers # {} /\ bag.reviewers \subseteq bag.signed

LoadEscalate(q, v) ==
  LET bag == doc[v].bag IN
  /\ InInitialReview(doc[v]) /\ AllSigned(bag)
  /\ Begin(q, "escalate", v, Row("Under Review", Bag(bag.reviewers, bag.signed, "final")), {})

\* reviewDocument does not ask for the stage.
LoadReview(q, v, decision) ==
  /\ doc[v].status = "Under Review"
  /\ Begin(q, "review", v, Row(decision, doc[v].bag), {})

LoadPublish(q, v) ==
  /\ doc[v].status = "Approved"
  /\ Begin(q, "publish", v, Row("Published", doc[v].bag), {})

\* publishWithLineage: a Published sibling is superseded first. (Its own interleavings
\* are those of DocumentLineage.)
Supersede(q, p) ==
  /\ req[q].pc = "publish" /\ p # req[q].v /\ doc[p].status = "Published"
  /\ doc' = [doc EXCEPT ![p].status = "Superseded"]
  /\ Move(q, [req[q] EXCEPT !.pc = "publishSave"])
  /\ UNCHANGED <<own, excused, overlap, forms>>

NoneToSupersede(q) ==
  /\ req[q].pc = "publish"
  /\ \A p \in Versions \ {req[q].v} : doc[p].status # "Published"
  /\ Move(q, [req[q] EXCEPT !.pc = "publishSave"])
  /\ UNCHANGED <<doc, own, excused, overlap, forms>>

\* reconfirmPeriodicReview of a published document.
LoadReconfirm(q, v) ==
  /\ doc[v].status = "Published"
  /\ Begin(q, "reconfirm", v, doc[v], {})

\* A status change without data, from any status.
LoadPlain(q, v) == Begin(q, "plain", v, Row("Draft", NoBag), {})

SavePlain(q) ==
  /\ req[q].pc = "plain"
  /\ End(q, [doc EXCEPT ![req[q].v].status = Changed(@, req[q].was, "Draft")])
  /\ UNCHANGED <<own, excused, overlap, forms>>

\* save() of every handler that assigned data.
Save(q) ==
  LET v == req[q].v IN
  /\ req[q].pc \in {"edit", "amend", "submit", "sign", "escalate", "review", "publishSave", "reconfirm"}
  /\ End(q, [doc EXCEPT ![v] = Saved(q)])
  /\ own' = [own EXCEPT ![v] = @ \cup req[q].by]
  /\ UNCHANGED <<excused, overlap, forms>>

\* A decision and comments the row has already are not written again.
SaveStatusOnly(q) ==
  /\ req[q].pc = "review" /\ req[q].now.status # "Approved"
  /\ End(q, [doc EXCEPT ![req[q].v].status = req[q].now.status])
  /\ UNCHANGED <<own, excused, overlap, forms>>

\* The client closes the form, or a process dies before it saves.
Abandon(q) ==
  /\ req[q].pc # "idle"
  /\ Move(q, Idle)
  /\ UNCHANGED <<doc, own, excused, overlap, forms>>

-----------------------------------------------------------------------------
Step(q) ==
  \/ \E reviewers \in SUBSET Reviewers, to \in Statuses, allowed \in BOOLEAN :
       LoadEdit(q, reviewers, to, allowed)
  \/ \E v \in Versions :
       \/ OpenForm(q, v) \/ Fork(q, v) \/ LoadSubmit(q, v) \/ LoadEscalate(q, v) \/ LoadPublish(q, v)
       \/ Supersede(q, v) \/ LoadReconfirm(q, v) \/ LoadPlain(q, v)
       \/ \E u \in Reviewers, changes \in BOOLEAN : LoadSign(q, v, u, changes)
       \/ \E decision \in {"Approved", "Revision Requested", "Rejected"} : LoadReview(q, v, decision)
  \/ NoneToSupersede(q) \/ SavePlain(q) \/ Save(q) \/ SaveStatusOnly(q) \/ Abandon(q)

Next == \E q \in Requests : Step(q)

Spec == Init /\ [][Next]_vars

-----------------------------------------------------------------------------
Bags == [reviewers : SUBSET Reviewers, signed : SUBSET Reviewers, stage : {"absent", "null", "final"}]

Rows == [status : Statuses, bag : Bags]

TypeOK ==
  /\ doc \in [Versions -> Rows]
  /\ own \in [Versions -> SUBSET Reviewers]
  /\ excused \in [Versions -> SUBSET Reviewers]
  /\ overlap \subseteq Versions
  /\ forms \in 0..MaxForms
  /\ req \in [Requests -> [pc : {"idle", "form", "edit", "amend", "fork", "submit", "sign", "escalate", "review",
                                 "publish", "publishSave", "reconfirm", "plain"},
                           v : Versions, was : Statuses, now : Rows, by : SUBSET Reviewers]]

\* "Gated on every assigned reviewer having signed": a version in the final stage has
\* the sign-off of every reviewer it lists, but those listed later, or by a form
\* older than the escalation, however handlers and forms overlap.
EscalatedInFull ==
  \A v \in Versions :
    doc[v].bag.stage = "final" => doc[v].bag.reviewers \subseteq doc[v].bag.signed \cup excused[v]

\* Handlers and forms that come one after the other lose no sign-off.
SignoffsKept == \A v \in Versions \ overlap : own[v] \subseteq doc[v].bag.signed

\* Under Review is entered by a submission and by nothing else: a sign-off, an
\* escalation or an edit that loaded the document in review does not take back a
\* decision made since.
ReviewEntered ==
  [][\A v \in Versions :
       doc[v].status # "Under Review" /\ doc'[v].status = "Under Review" =>
         \E q \in Requests : req[q].pc = "submit" /\ req[q].v = v /\ req'[q] = Idle]_vars

\* "Editing a Published document forks a new Draft instead of changing it": what a
\* Published version says changes only by an edit that found the organization allowing to
\* amend it, by a handler that read it before it was published, or by a reconfirmation
\* that had read it before one of these saved.
ContentFrozen ==
  [][\A v \in Versions :
       doc[v].status = "Published" /\ doc'[v].status = "Published" /\ doc'[v].bag # doc[v].bag =>
         \E q \in Requests : /\ req[q].v = v /\ req'[q] = Idle
                             /\ \/ req[q].pc = "amend"
                                \/ req[q].was # "Published"
                                \/ req[q].pc = "reconfirm" /\ v \in overlap]_vars

\* "The fresh draft carries no approval history of its own": every sign-off on a version
\* was made on that version.
FreshDraft == \A v \in Versions : doc[v].bag.signed \subseteq own[v]

\* The sign-offs a document shows are those its reviewers gave, all of them.
SignoffsCounted == EscalatedInFull /\ SignoffsKept

\* Neither a review nor a published text is disturbed by a handler that comes late.
ReviewSteps == ReviewEntered /\ ContentFrozen
=============================================================================
