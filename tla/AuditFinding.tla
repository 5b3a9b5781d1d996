---------------------------- MODULE AuditFinding ----------------------------
(***************************************************************************)
(* A finding of an internal audit (internal-audit/internalAudit.service.ts *)
(* 478-636): drafted, submitted, reviewed by the lead auditor if the       *)
(* settings ask for it, issued, and routed into a record of another        *)
(* register.  Every handler loads the finding, checks and saves it without *)
(* a lock; routing creates the record by a transaction in between.         *)
(*                                                                         *)
(* Left out: the texts, who is to act and until when, whose absence may    *)
(* refuse a step, and reviewRequired, which nothing reads.                 *)
(***************************************************************************)
EXTENDS FiniteSets, Sequelize

CONSTANTS
  Records,   \* records that may be created
  Requests,  \* requests in flight at once
  NoRecord

VARIABLES
  finding,    \* its row: type, review and issue status, and the records it names
  mandatory,  \* the setting mandatoryReview
  record,     \* record[r]: the register r was created in, or absent
  cleared,    \* the last submission was approved, or needed no approval (history)
  upset,      \* what the statuses and the links may have been mixed up by (history)
  req         \* req[q]: the request in slot q

vars == <<finding, mandatory, record, cleared, upset, req>>

Columns == {"type", "review", "issue", "nc", "imp"}

Row(type, review, issue) == [type |-> type, review |-> review, issue |-> issue, nc |-> NoRecord, imp |-> NoRecord]

NoFinding == [type |-> "none"]

\* was: the finding as it was loaded; now: as it will be saved; free: it is issued and no
\* review was asked for when that was decided (history).
Slot(pc, was, now) == [pc |-> pc, was |-> was, now |-> now, free |-> pc = "issue" /\ ~mandatory]

Idle == [pc |-> "idle"]

Move(q, r) == req' = [req EXCEPT ![q] = r]

Pending == "Pending Lead Auditor Review"

\* The types that can be routed; the other three go nowhere.
Types == {"Nonconformity", "Observation"}

Init ==
  /\ finding = NoFinding
  /\ mandatory \in BOOLEAN
  /\ record = [r \in Records |-> "absent"]
  /\ cleared = FALSE
  /\ upset = {}
  /\ req = [q \in Requests |-> Idle]

-----------------------------------------------------------------------------
\* applyFindingSubmit.
Submitted(row) ==
  [row EXCEPT !.review = IF mandatory THEN Pending ELSE "Not Required",
              !.issue = IF mandatory THEN Pending ELSE "Ready to Issue"]

\* createFinding. Nobody knows the finding before its insert, so the setting is as good
\* as read then.
Create(type, submit) ==
  LET draft == Row(type, "Not Required", "Draft") IN
  /\ finding = NoFinding
  /\ finding' = IF submit THEN Submitted(draft) ELSE draft
  /\ cleared' = (submit /\ ~mandatory)
  /\ UNCHANGED <<mandatory, record, upset, req>>

Ready(q) == req[q] = Idle /\ finding # NoFinding

Load(q, pc, now) ==
  /\ Move(q, Slot(pc, finding, now))
  /\ UNCHANGED <<finding, mandatory, record, cleared, upset>>

\* updateFinding, whatever the status.
LoadEdit(q, type) == Ready(q) /\ type # finding.type /\ Load(q, "edit", [finding EXCEPT !.type = type])
LoadSubmit(q, type) == Ready(q) /\ Load(q, "submit", Submitted([finding EXCEPT !.type = type]))

\* reviewFinding, which may change the type as well.
LoadApprove(q, type) ==
  /\ Ready(q) /\ finding.review = Pending
  /\ Load(q, "approve", [finding EXCEPT !.type = type, !.review = "Approved", !.issue = "Ready to Issue"])

LoadReturn(q, type, decision) ==
  /\ Ready(q) /\ finding.review = Pending
  /\ Load(q, "return", [finding EXCEPT !.type = type, !.review = decision, !.issue = decision])

\* Mutant: drafts are issued whatever the settings say.
LoadIssueDraft(q) ==
  /\ Ready(q) /\ finding.issue \in {"Ready to Issue", "Draft"}
  /\ Load(q, "issue", [finding EXCEPT !.issue = "Issued"])

\* issueFinding.
LoadIssue(q) ==
  /\ Ready(q)
  /\ finding.issue = "Ready to Issue" \/ (~mandatory /\ finding.issue = "Draft")
  /\ Load(q, "issue", [finding EXCEPT !.issue = "Issued"])

\* Mutant: the link is not looked at.
LoadRouteAgain(q) ==
  /\ Ready(q)
  /\ \/ finding.type = "Nonconformity" /\ Load(q, "create nc", finding)
     \/ finding.type = "Observation" /\ Load(q, "create imp", finding)

\* routeFinding up to its checks, which are about the type and the link.
LoadRoute(q) ==
  /\ Ready(q)
  /\ \/ finding.type = "Nonconformity" /\ finding.nc = NoRecord /\ Load(q, "create nc", finding)
     \/ finding.type = "Observation" /\ finding.imp = NoRecord /\ Load(q, "create imp", finding)

\* createRecord, a transaction of its own.
CreateRecord(q, r) ==
  LET register == IF req[q].pc = "create nc" THEN "nc" ELSE "imp" IN
  /\ req[q].pc \in {"create nc", "create imp"} /\ record[r] = "absent"
  /\ record' = [record EXCEPT ![r] = register]
  /\ Move(q, Slot("route", req[q].was, [req[q].was EXCEPT ![register] = r, !.issue = "Follow-up Created"]))
  /\ UNCHANGED <<finding, mandatory, cleared, upset>>

\* What the finding is cleared for, once the handler saved.
ClearedBy(q) ==
  CASE req[q].pc = "approve" -> TRUE
    [] req[q].pc = "return" -> FALSE
    [] req[q].pc = "submit" -> req[q].now.review # Pending
    [] req[q].pc = "issue" -> cleared \/ req[q].free
    [] OTHER -> cleared

\* A save over a finding that changed since it was read, or the routing of one that was
\* not issued.
Mixed(q) ==
  {k \in {"stale", "early"} :
     \/ k = "stale" /\ req[q].pc # "edit" /\ [req[q].was EXCEPT !.type = finding.type] # finding
     \/ k = "early" /\ req[q].pc = "route" /\ req[q].was.issue # "Issued"}

\* save() of any of them.
Save(q) ==
  /\ req[q].pc \in {"edit", "submit", "approve", "return", "issue", "route"}
  /\ finding' = [c \in Columns |-> Changed(finding[c], req[q].was[c], req[q].now[c])]
  /\ cleared' = ClearedBy(q)
  /\ upset' = upset \cup Mixed(q)
  /\ Move(q, Idle)
  /\ UNCHANGED <<mandatory, record>>

\* The request fails or the process dies; a record it created stays.
Crash(q) ==
  /\ req[q].pc # "idle"
  /\ Move(q, Idle)
  /\ upset' = IF req[q].pc = "route" THEN upset \cup {"died"} ELSE upset
  /\ UNCHANGED <<finding, mandatory, record, cleared>>

\* updateSettings.
SetMandatory ==
  /\ mandatory' = ~mandatory
  /\ UNCHANGED <<finding, record, cleared, upset, req>>

-----------------------------------------------------------------------------
Next ==
  \/ \E type \in Types, submit \in BOOLEAN : Create(type, submit)
  \/ \E q \in Requests :
       \/ LoadIssue(q) \/ LoadRoute(q) \/ Save(q) \/ Crash(q)
       \/ \E type \in Types :
            \/ LoadEdit(q, type) \/ LoadSubmit(q, type) \/ LoadApprove(q, type)
            \/ \E decision \in {"Revision Requested", "Rejected"} : LoadReturn(q, type, decision)
       \/ \E r \in Records : CreateRecord(q, r)
  \/ SetMandatory

Spec == Init /\ [][Next]_vars

-----------------------------------------------------------------------------
Rows == [type : Types, review : {"Not Required", Pending, "Approved", "Revision Requested", "Rejected"},
         issue : {"Draft", Pending, "Revision Requested", "Rejected", "Ready to Issue", "Issued", "Follow-up Created"},
         nc : Records \cup {NoRecord}, imp : Records \cup {NoRecord}]

TypeOK ==
  /\ finding \in Rows \cup {NoFinding}
  /\ mandatory \in BOOLEAN /\ cleared \in BOOLEAN
  /\ record \in [Records -> {"absent", "nc", "imp"}]
  /\ upset \subseteq {"stale", "early", "died"}
  /\ req \in [Requests -> {Idle} \cup
                           [pc : {"edit", "submit", "approve", "return", "issue", "create nc", "create imp", "route"},
                            was : Rows, now : Rows, free : BOOLEAN]]

\* A finding is issued only if the lead auditor approved what was submitted last or no
\* review was asked for, then or when it was issued, whoever switches the setting when.
IssuedCleared == "stale" \notin upset /\ finding # NoFinding /\ finding.issue = "Issued" => cleared

\* A finding is pending review for the lead auditor exactly when it is for everybody
\* else, so what was issued cannot be rejected; unless it was routed before it was issued.
PendingForAll == upset \subseteq {"died"} /\ finding # NoFinding => (finding.review = Pending <=> finding.issue = Pending)

\* "Already linked": a register gets one record of a finding, the one the finding names
\* or is about to.
RoutedOnce ==
  upset \subseteq {"early"} =>
    \A r \in Records :
      record[r] # "absent" =>
        \/ finding[record[r]] = r
        \/ \E q \in Requests : req[q].pc = "route" /\ req[q].now[record[r]] = r

\* What the statuses of a finding say is so.
FindingSound == IssuedCleared /\ PendingForAll /\ RoutedOnce
=============================================================================
