-------------------------- MODULE DocumentLineage --------------------------
(***************************************************************************)
(* The versions of one controlled document (approvals/approval.service.ts, *)
(* implementation/implementation.service.ts): drafting, submission, the    *)
(* reviewer's decision, publication, which supersedes the version that is  *)
(* live, the periodic reconfirmation, and plain edits, which fork a draft  *)
(* when they meet a published version.                                     *)
(*                                                                         *)
(* Every handler loads rows, decides on its copies, and saves, statement   *)
(* by statement and without a transaction.  Of a row only the status is    *)
(* kept; edits of the data of a version that is not published change       *)
(* nothing here.                                                           *)
(***************************************************************************)
EXTENDS Naturals, FiniteSets, Sequelize

CONSTANTS
  Versions,      \* rows that may come to belong to the lineage
  Root,          \* the first one
  Requests,      \* requests that may be in flight at once
  PlainStatuses, \* what clients set by a plain status change
  OnePublish,    \* TRUE: publications of the lineage come one after the other
  Crashes        \* TRUE: the process may die between two statements

NoVersion == "no version"

\* The row does not exist yet.
None == "none"

Statuses == {"Draft", "Under Review", "Revision Requested", "Approved", "Published",
             "Review Due", "Superseded", "Obsolete", "Archived", "Rejected"}

\* APPROVAL_CONTROLLED_STATUSES: a plain status change may not set these.
Controlled == {"Under Review", "Revision Requested", "Approved", "Rejected", "Published", "Superseded"}

ASSUME LineageAssumption ==
  /\ Root \in Versions
  /\ NoVersion \notin Versions
  /\ PlainStatuses \subseteq Statuses \ Controlled
  /\ OnePublish \in BOOLEAN /\ Crashes \in BOOLEAN

VARIABLES
  status,    \* status[v]: the status column of version v
  req,       \* req[q]: the request in slot q, with the copies it holds
  approved,  \* history: the versions a reviewer approved
  released   \* history: the versions that were published

vars == <<status, req, approved, released>>

\* version: the version the handler works on; loaded: the status of its copy;
\* prior: the version it supersedes.
Idle == [pc |-> "idle", version |-> Root, loaded |-> None, prior |-> NoVersion]

\* The statuses each handler starts from.
Accepts ==
  [submit |-> {"Draft", "Revision Requested"}, review |-> {"Under Review"},
   publish |-> {"Approved"}, reconfirm |-> {"Published", "Review Due"},
   fork |-> {"Published"}, plain |-> Statuses]

Publishing == {q \in Requests : req[q].pc \in {"publish", "supersede", "publishSave"}}

Quiet == \A q \in Requests : req[q].pc = "idle"

\* A request that died: its slot is not used again.
Dead == [pc |-> "crashed", version |-> Root, loaded |-> None, prior |-> NoVersion]

End(q) == req' = [req EXCEPT ![q] = Idle]

\* save() of a handler that changed the status of the copy it holds.
Save(v, loaded, new) == status' = [status EXCEPT ![v] = Changed(@, loaded, new)]

-----------------------------------------------------------------------------
Init ==
  /\ status = [v \in Versions |-> IF v = Root THEN "Draft" ELSE None]
  /\ req = [q \in Requests |-> Idle]
  /\ approved = {}
  /\ released = {}

\* A handler loads the record and checks its status.
Load(q, op, v) ==
  /\ req[q].pc = "idle"
  /\ status[v] \in Accepts[op]
  /\ op = "publish" /\ OnePublish => Publishing = {}
  /\ req' = [req EXCEPT ![q] = [pc |-> op, version |-> v, loaded |-> status[v], prior |-> NoVersion]]
  /\ UNCHANGED <<status, approved, released>>

\* submitDocument
Submit(q) ==
  /\ req[q].pc = "submit"
  /\ Save(req[q].version, req[q].loaded, "Under Review")
  /\ End(q)
  /\ UNCHANGED <<approved, released>>

\* reviewDocument
Review(q, decision) ==
  /\ req[q].pc = "review"
  /\ Save(req[q].version, req[q].loaded, decision)
  /\ approved' = IF decision = "Approved" THEN approved \cup {req[q].version} ELSE approved
  /\ End(q)
  /\ UNCHANGED released

\* Mutant: a look-up that finds nothing is not told from one that does.
FindPriorUnchecked(q) ==
  /\ req[q].pc = "publish"
  /\ req' = [req EXCEPT ![q] = [req[q] EXCEPT !.pc = "supersede"]]
  /\ UNCHANGED <<status, approved, released>>

\* publishWithLineage looks for another published version of the lineage.
FindPrior(q) ==
  LET siblings == {x \in Versions \ {req[q].version} : status[x] = "Published"}
  IN /\ req[q].pc = "publish"
     /\ \/ /\ siblings = {}
           /\ req' = [req EXCEPT ![q] = [req[q] EXCEPT !.pc = "publishSave"]]
        \/ \E x \in siblings :
             req' = [req EXCEPT ![q] = [req[q] EXCEPT !.pc = "supersede", !.prior = x]]
     /\ UNCHANGED <<status, approved, released>>

\* Mutant: the prior version is only linked to the new one.
SupersedeLinkOnly(q) ==
  /\ req[q].pc = "supersede"
  /\ req' = [req EXCEPT ![q] = [req[q] EXCEPT !.pc = "publishSave"]]
  /\ UNCHANGED <<status, approved, released>>

\* It saves that version, which it loaded as published, as superseded.
Supersede(q) ==
  /\ req[q].pc = "supersede"
  /\ Save(req[q].prior, "Published", "Superseded")
  /\ req' = [req EXCEPT ![q] = [req[q] EXCEPT !.pc = "publishSave"]]
  /\ UNCHANGED <<approved, released>>

\* publishDocument saves the new version.
Publish(q) ==
  /\ req[q].pc = "publishSave"
  /\ Save(req[q].version, req[q].loaded, "Published")
  /\ released' = released \cup {req[q].version}
  /\ End(q)
  /\ UNCHANGED approved

\* reconfirmPeriodicReview
Reconfirm(q) ==
  /\ req[q].pc = "reconfirm"
  /\ Save(req[q].version, req[q].loaded, "Published")
  /\ released' = IF req[q].loaded = "Published" THEN released ELSE released \cup {req[q].version}
  /\ End(q)
  /\ UNCHANGED approved

\* forkPublishedRecord: a draft of its own; the published original stays as it
\* is. (The row is created whatever became of the original meanwhile. Where the settings
\* allow to amend a Published document in place, the edit changes no status at all.)
Fork(q, w) ==
  /\ req[q].pc = "fork"
  /\ status[w] = None
  /\ status' = [status EXCEPT ![w] = "Draft"]
  /\ End(q)
  /\ UNCHANGED <<approved, released>>

\* The bound on versions is reached: the fork is not followed up.
ForkBeyondBound(q) ==
  /\ req[q].pc = "fork"
  /\ \A w \in Versions : status[w] # None
  /\ End(q)
  /\ UNCHANGED <<status, approved, released>>

\* updateRecord with a status: any that is not controlled, whatever the record's own.
SetStatus(q, s) ==
  /\ req[q].pc = "plain"
  /\ Save(req[q].version, req[q].loaded, s)
  /\ End(q)
  /\ UNCHANGED <<approved, released>>

\* The process dies between two statements: the rest of them is never executed.
Crash(q) ==
  /\ Crashes
  /\ req[q].pc \notin {"idle", "crashed"}
  /\ req' = [req EXCEPT ![q] = Dead]
  /\ UNCHANGED <<status, approved, released>>

-----------------------------------------------------------------------------
Step(q) ==
  \/ \E op \in DOMAIN Accepts, v \in Versions : Load(q, op, v)
  \/ Submit(q)
  \/ \E decision \in {"Approved", "Revision Requested", "Rejected"} : Review(q, decision)
  \/ FindPrior(q) \/ Supersede(q) \/ Publish(q) \/ Reconfirm(q)
  \/ \E w \in Versions : Fork(q, w)
  \/ ForkBeyondBound(q)
  \/ \E s \in PlainStatuses : SetStatus(q, s)
  \/ Crash(q)

Next == \E q \in Requests : Step(q)

Spec == Init /\ [][Next]_vars

-----------------------------------------------------------------------------
Slots == [pc : DOMAIN Accepts \cup {"idle", "crashed", "supersede", "publishSave"}, version : Versions,
          loaded : Statuses \cup {None}, prior : Versions \cup {NoVersion}]

TypeOK ==
  /\ status \in [Versions -> Statuses \cup {None}]
  /\ req \in [Requests -> Slots]
  /\ \A q \in Requests : req[q].pc = "supersede" => req[q].prior \in Versions \ {req[q].version}
  /\ approved \subseteq Versions
  /\ released \subseteq Versions

\* "Only one version is ever live": no two versions of a lineage are published.
OneLive ==
  \A v, w \in Versions : status[v] = "Published" /\ status[w] = "Published" => v = w

\* Publication passes an approver: what is published, a reviewer approved.
PublishedApproved == \A v \in Versions : status[v] = "Published" => v \in approved

\* The published original "is superseded only when the new version itself is
\* published": with nothing in flight and nothing cut off, whatever is superseded gave way to another
\* version that was published.
SupersededByPublished ==
  Quiet => \A v \in Versions : status[v] = "Superseded" => released \ {v} # {}

\* One approved version is live, and the others gave way to it.
LineageSafe == OneLive /\ PublishedApproved /\ SupersededByPublished
=============================================================================
