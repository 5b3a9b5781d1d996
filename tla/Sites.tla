-------------------------------- MODULE Sites --------------------------------
(***************************************************************************)
(* The sites of a tenant (sites/site.service.ts) and the requests to add,  *)
(* change or close one (site-requests/siteRequest.service.ts).  Tenants    *)
(* share no site, so one stands for all.                                   *)
(*                                                                         *)
(* createSite and updateSite demote the old primary site and promote the   *)
(* new one in a transaction; approveSiteRequest does it by statements of   *)
(* its own.  An UPDATE that waits for a row does not see the rows inserted *)
(* meanwhile, so the rows it will demote are those it began with.          *)
(***************************************************************************)
EXTENDS Naturals, FiniteSets, Sequelize

CONSTANTS
  Ids,       \* ids of sites
  Firsts,    \* the sites a tenant may be created with; None: without any
  SiteReqs,  \* site requests
  Requests,  \* HTTP requests that may be in flight at once
  None

VARIABLES
  site,  \* site[s]: the columns of a row that are modelled
  sreq,  \* sreq[r]: a row of site_requests
  made,  \* made[r]: the sites provisioned for r (history)
  overlap,  \* the requests two handlers worked on at once, or one died on (history)
  req    \* req[q]: the request in slot q

vars == <<site, sreq, made, overlap, req>>

Row(status, primary) == [status |-> status, primary |-> primary]

Absent == Row("absent", FALSE)

Exists(s) == site[s].status # "absent"
Existing == {s \in Ids : Exists(s)}
Primaries == {s \in Existing : site[s].primary}

Types == {"Site Addition", "Site Change", "Site Closure"}

Open == {"Submitted", "Under Review"}

NoRequest == [status |-> "absent", type |-> "Site Addition", site |-> None, provisioned |-> FALSE]

\* r, s: the rows worked on; seen: the request's status when it was loaded; was,
\* now: the site's columns when it was loaded, and what they will be; rows: the
\* sites to demote.
Slot(pc, r, s, seen, was, now, rows) ==
  [pc |-> pc, r |-> r, s |-> s, seen |-> seen, was |-> was, now |-> now, rows |-> rows]

Idle == Slot("idle", None, None, "none", Absent, Absent, {})
Dead == Slot("crashed", None, None, "none", Absent, Absent, {})

Free(q) == req[q].pc = "idle"
Move(q, r) == req' = [req EXCEPT ![q] = r]

\* The columns of site s after a save by q.
Saved(q, s) ==
  Row(IF Exists(s) THEN Changed(site[s].status, req[q].was.status, req[q].now.status) ELSE "absent",
      Exists(s) /\ Changed(site[s].primary, req[q].was.primary, req[q].now.primary))

Demoted(s) == Row(site[s].status, FALSE)

-----------------------------------------------------------------------------
\* A tenant made by provisionTenant or createTenantFromPipeline has an Active primary site,
\* one made by approveRegistration or createOrganization has none.
Init ==
  /\ \E f \in Firsts : site = [s \in Ids |-> IF s = f THEN Row("Active", TRUE) ELSE Absent]
  /\ sreq = [r \in SiteReqs |-> NoRequest]
  /\ made = [r \in SiteReqs |-> {}]
  /\ overlap = {}
  /\ req = [q \in Requests |-> Idle]

-----------------------------------------------------------------------------
(* Sites. *)

\* createSite of a site that is not primary.
CreateSite(s, status) ==
  /\ ~Exists(s)
  /\ site' = [site EXCEPT ![s] = Row(status, FALSE)]
  /\ UNCHANGED <<sreq, made, overlap, req>>

\* createSite of a primary site: the demotion begins.
BeginCreate(q) ==
  /\ Free(q)
  /\ Move(q, Slot("create", None, None, "none", Absent, Row("Active", TRUE), Existing))
  /\ UNCHANGED <<site, sreq, made, overlap>>

\* The insert and the commit.
CommitCreate(q, s) ==
  /\ req[q].pc = "create" /\ ~Exists(s)
  /\ site' = [x \in Ids |-> IF x = s THEN req[q].now
                            ELSE IF x \in req[q].rows /\ Exists(x) THEN Demoted(x) ELSE site[x]]
  /\ Move(q, Idle)
  /\ UNCHANGED <<sreq, made, overlap>>

\* Mutant: the primary site may be demoted and deactivated in place.
EditsAnything(s, new) == new.status # "absent"

\* updateSite: the primary is not demoted in place, and a primary site is Active.
Edits(s, new) ==
  /\ new.status # "absent"
  /\ site[s].primary => new.primary
  /\ new.primary => new.status = "Active"

\* updateSite, up to its checks.
LoadSite(q, s, new) ==
  /\ Free(q) /\ Exists(s) /\ Edits(s, new)
  /\ Move(q, Slot("edit", None, s, "none", site[s], new, {}))
  /\ UNCHANGED <<site, sreq, made, overlap>>

Promotes(q) == req[q].now.primary /\ ~req[q].was.primary

SaveSite(q) ==
  /\ req[q].pc = "edit" /\ ~Promotes(q)
  /\ site' = [site EXCEPT ![req[q].s] = Saved(q, req[q].s)]
  /\ Move(q, Idle)
  /\ UNCHANGED <<sreq, made, overlap>>

BeginPromote(q) ==
  /\ req[q].pc = "edit" /\ Promotes(q)
  /\ Move(q, [req[q] EXCEPT !.pc = "promote", !.rows = Existing \ {req[q].s}])
  /\ UNCHANGED <<site, sreq, made, overlap>>

\* The other sites demoted, this one saved, in one commit. Its row may have been
\* deleted: the statement then updates nothing.
CommitPromote(q) ==
  /\ req[q].pc = "promote"
  /\ site' = [x \in Ids |-> IF x = req[q].s THEN Saved(q, x)
                            ELSE IF x \in req[q].rows /\ Exists(x) THEN Demoted(x) ELSE site[x]]
  /\ Move(q, Idle)
  /\ UNCHANGED <<sreq, made, overlap>>

\* A deadlock or a failure within a transaction.
Rollback(q) ==
  /\ req[q].pc \in {"create", "promote"}
  /\ Move(q, Idle)
  /\ UNCHANGED <<site, sreq, made, overlap>>

LoadDelete(q, s) ==
  /\ Free(q) /\ Exists(s) /\ ~site[s].primary
  /\ Move(q, Slot("delete", None, s, "none", site[s], Absent, {}))
  /\ UNCHANGED <<site, sreq, made, overlap>>

\* deleteSite: the row goes, primary or not by now.
DeleteSite(q) ==
  /\ req[q].pc = "delete"
  /\ site' = [site EXCEPT ![req[q].s] = Absent]
  /\ Move(q, Idle)
  /\ UNCHANGED <<sreq, made, overlap>>

-----------------------------------------------------------------------------
(* Requests. *)

\* Any id passes for the site to change or close, one of no site included. The one of
\* an addition is never read.
CreateSiteRequest(r, type, s) ==
  /\ sreq[r].status = "absent"
  /\ type = "Site Addition" <=> s = None
  /\ sreq' = [sreq EXCEPT ![r] = [status |-> "Submitted", type |-> type, site |-> s, provisioned |-> FALSE]]
  /\ UNCHANGED <<site, made, overlap, req>>

\* A handler loads request r: it overlaps those that work on r.
Share(r) == overlap' = IF \E p \in Requests : req[p].r = r THEN overlap \cup {r} ELSE overlap

\* Mutant: a decided request may be decided again.
FromAny(pc) == Open \cup {"Approved", "Rejected"}

\* reviewSiteRequest, rejectSiteRequest and approveSiteRequest begin alike. pc
\* names what is done.
From(pc) == IF pc = "review" THEN {"Submitted"} ELSE Open

LoadRequest(q, pc, r) ==
  /\ Free(q) /\ sreq[r].status \in From(pc)
  /\ Move(q, Slot(pc, r, None, sreq[r].status, Absent, Absent, {}))
  /\ Share(r)
  /\ UNCHANGED <<site, sreq, made>>

To(pc) == CASE pc = "review" -> "Under Review"
            [] pc = "reject" -> "Rejected"
            [] pc = "approved" -> "Approved"

\* setStatus, and the end of approveSiteRequest.
SaveStatus(q) ==
  /\ req[q].pc \in {"review", "reject", "approved"}
  /\ sreq' = [sreq EXCEPT ![req[q].r].status = To(req[q].pc)]
  /\ Move(q, Idle)
  /\ UNCHANGED <<site, made, overlap>>

ApproveAddition(q) ==
  /\ req[q].pc = "approve" /\ sreq[req[q].r].type = "Site Addition"
  /\ Move(q, [req[q] EXCEPT !.pc = "approved"])
  /\ UNCHANGED <<site, sreq, made, overlap>>

\* The target site of a closure must not be primary.
LoadClosure(q) ==
  LET s == sreq[req[q].r].site IN
  /\ req[q].pc = "approve" /\ sreq[req[q].r].type = "Site Closure"
  /\ Exists(s) /\ ~site[s].primary
  /\ Move(q, Slot("apply", req[q].r, s, req[q].seen, site[s], Row("Inactive", FALSE), {}))
  /\ UNCHANGED <<site, sreq, made, overlap>>

\* A change of address and the like, or one that makes the site the primary one.
LoadChange(q, promote) ==
  LET s == sreq[req[q].r].site IN
  /\ req[q].pc = "approve" /\ sreq[req[q].r].type = "Site Change"
  /\ Exists(s)
  /\ Move(q, Slot(IF promote THEN "clear" ELSE "apply", req[q].r, s, req[q].seen, site[s],
                  Row(site[s].status, site[s].primary \/ promote), {}))
  /\ UNCHANGED <<site, sreq, made, overlap>>

\* The site a closure or a change is about is gone, or a primary one is to be closed.
RefuseTarget(q) ==
  LET r == sreq[req[q].r] IN
  /\ req[q].pc = "approve" /\ r.type # "Site Addition"
  /\ \/ ~Exists(r.site)
     \/ r.type = "Site Closure" /\ site[r.site].primary
  /\ Move(q, Idle)
  /\ UNCHANGED <<site, sreq, made, overlap>>

\* Site.update({ isPrimary: false }) of all sites, committed at once.
ClearPrimary(q) ==
  /\ req[q].pc = "clear"
  /\ site' = [s \in Ids |-> Demoted(s)]
  /\ Move(q, [req[q] EXCEPT !.pc = "apply"])
  /\ UNCHANGED <<sreq, made, overlap>>

\* site.save().
ApplyToSite(q) ==
  /\ req[q].pc = "apply"
  /\ site' = [site EXCEPT ![req[q].s] = Saved(q, req[q].s)]
  /\ Move(q, [req[q] EXCEPT !.pc = "approved"])
  /\ UNCHANGED <<sreq, made, overlap>>

Provisionable(r) ==
  sreq[r].type = "Site Addition" /\ sreq[r].status = "Approved" /\ ~sreq[r].provisioned

\* provisionSiteRequest, up to its checks.
LoadProvision(q, r) ==
  /\ Free(q) /\ Provisionable(r)
  /\ Move(q, Slot("provision", r, None, sreq[r].status, Absent, Absent, {}))
  /\ Share(r)
  /\ UNCHANGED <<site, sreq, made>>

ProvisionSite(q, s) ==
  /\ req[q].pc = "provision" /\ ~Exists(s)
  /\ site' = [site EXCEPT ![s] = Row("Active", FALSE)]
  /\ made' = [made EXCEPT ![req[q].r] = @ \cup {s}]
  /\ Move(q, [req[q] EXCEPT !.pc = "link", !.s = s])
  /\ UNCHANGED <<sreq, overlap>>

\* provisioned and provisionedSiteId.
SaveProvisioned(q) ==
  /\ req[q].pc = "link"
  /\ sreq' = [sreq EXCEPT ![req[q].r].provisioned = TRUE, ![req[q].r].site = req[q].s]
  /\ Move(q, Idle)
  /\ UNCHANGED <<site, made, overlap>>

\* The process dies between two statements of an approval or a provisioning.
Crash(q) ==
  /\ req[q].pc \in {"apply", "approved", "link"}
  /\ Move(q, Dead)
  /\ overlap' = overlap \cup {req[q].r}
  /\ UNCHANGED <<site, sreq, made>>

-----------------------------------------------------------------------------
SiteSteps(q) ==
  \/ BeginCreate(q) \/ SaveSite(q) \/ BeginPromote(q) \/ CommitPromote(q) \/ Rollback(q) \/ DeleteSite(q)
  \/ \E s \in Ids :
       \/ CommitCreate(q, s) \/ LoadDelete(q, s)
       \/ \E status \in {"Active", "Inactive"}, primary \in BOOLEAN : LoadSite(q, s, Row(status, primary))

RequestSteps(q) ==
  \/ SaveStatus(q) \/ ApproveAddition(q) \/ LoadClosure(q) \/ RefuseTarget(q)
  \/ ClearPrimary(q) \/ ApplyToSite(q) \/ SaveProvisioned(q)
  \/ \E promote \in BOOLEAN : LoadChange(q, promote)
  \/ \E s \in Ids : ProvisionSite(q, s)
  \/ \E r \in SiteReqs : LoadProvision(q, r) \/ \E pc \in {"review", "reject", "approve"} : LoadRequest(q, pc, r)

Next ==
  \/ \E s \in Ids, status \in {"Active", "Inactive"} : CreateSite(s, status)
  \/ \E r \in SiteReqs, type \in Types, s \in Ids \cup {None} : CreateSiteRequest(r, type, s)
  \/ \E q \in Requests : SiteSteps(q) \/ RequestSteps(q) \/ Crash(q)

Spec == Init /\ [][Next]_vars

-----------------------------------------------------------------------------
Rows == [status : {"absent", "Active", "Inactive"}, primary : BOOLEAN]

Points == {"idle", "crashed", "create", "edit", "promote", "delete", "review", "reject", "approve",
           "clear", "apply", "approved", "provision", "link"}

TypeOK ==
  /\ site \in [Ids -> Rows]
  /\ sreq \in [SiteReqs -> [status : Open \cup {"absent", "Approved", "Rejected"}, type : Types,
                            site : Ids \cup {None}, provisioned : BOOLEAN]]
  /\ made \in [SiteReqs -> SUBSET Ids]
  /\ overlap \subseteq SiteReqs
  /\ req \in [Requests -> [pc : Points, r : SiteReqs \cup {None}, s : Ids \cup {None},
                           seen : Open \cup {"none", "Approved", "Rejected"}, was : Rows, now : Rows, rows : SUBSET Ids]]

\* "An org always keeps exactly one primary site": with nothing in flight there is one,
\* and just one.
OnePrimary == (\A q \in Requests : req[q].pc = "idle") => Cardinality(Primaries) = 1

\* The steps that may leave a tenant without the primary site it has: an approval demotes
\* all sites by a statement of its own, a deletion meets a site promoted since it was
\* read, a promotion one deleted since.
Drops(q) ==
  \/ req[q].pc = "clear"
  \/ req[q].pc = "delete" /\ site[req[q].s].primary
  \/ req[q].pc = "promote" /\ ~Exists(req[q].s)

KeepsPrimary == Primaries # {} => Primaries' # {} \/ \E q \in Requests : Drops(q) /\ req'[q] # req[q]

\* A tenant that has a primary site keeps one at every step, however creations, edits and
\* deletions overlap, but for the steps of Drops.
PrimaryKept == [][KeepsPrimary]_vars

\* What was decided stands: a request leaves Approved and Rejected only through a
\* handler that had read it while it was open.
DecisionStands ==
  [][\A r \in SiteReqs :
       sreq[r].status \in {"Approved", "Rejected"} /\ sreq'[r].status # sreq[r].status =>
         \E q \in Requests : req[q].r = r /\ req[q].seen \in Open /\ req'[q] = Idle]_vars

\* A request whose handlers came one after the other and ran to their end has its site
\* when it is provisioned and only then, the one it names and no second one, and was
\* approved.
Settled(r) == r \notin overlap /\ \A q \in Requests : req[q].r # r

ProvisionedOnce ==
  \A r \in SiteReqs :
    Settled(r) =>
      IF sreq[r].provisioned THEN made[r] = {sreq[r].site} /\ sreq[r].status = "Approved"
                             ELSE made[r] = {}

\* A site request is decided once and becomes one site at most.
RequestsSettled == []ProvisionedOnce /\ DecisionStands
=============================================================================
