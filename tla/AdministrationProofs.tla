------------------------ MODULE AdministrationProofs ------------------------
(***************************************************************************)
(* What administrators work on, for any number of sites, units, records    *)
(* and requests in flight: the sites of a tenant with the requests about   *)
(* them (SitesInv), a finding of an internal audit (FindInv), the tree of  *)
(* units (UnitInv), and the types of all, those of tenants and of accounts *)
(* among them.                                                             *)
(*                                                                         *)
(* What a handler carries stands for the checks it made (SiteSlot,         *)
(* FindSlots, UnitSlot). As long as the handlers of a site request come    *)
(* one after the other, the one that works on it finds it as it was read   *)
(* (Undisturbed). The units are a tree with the tiers of their ranks       *)
(* (InRank), where a rank counts the units above, without the limit        *)
(* depthOf has.                                                            *)
(***************************************************************************)
EXTENDS AccountsProofs, TenancyProofs, WellFoundedInduction

\* The handlers that decide a site request, from its review to the approval's last save.
Deciding == {"review", "reject", "approve", "clear", "apply", "approved"}

SiteSlot(r) ==
  /\ r.r # None <=> r.pc \in Deciding \cup {"provision", "link"}
  /\ r.r # None => sreq[r.r].status # "absent"
  /\ r.pc \in Deciding => r.seen \in Site!Open
  /\ r.pc \in {"provision", "link"} => sreq[r.r].type = "Site Addition"
  /\ r.pc \in {"edit", "promote", "delete", "clear", "apply"} => r.s \in Ids
  /\ r.pc = "create" => r.now = Site!Row("Active", TRUE)
  /\ r.pc \in {"edit", "promote", "clear", "apply"} => r.now.status # "absent"
  /\ r.pc \in {"edit", "promote", "clear", "apply"} => (r.was.primary => r.now.primary)
  /\ r.pc = "promote" => r.now.primary /\ ~r.was.primary

SiteSlots == \A q \in Requests : SiteSlot(siteReq[q])

\* A change or a closure names a site.
Targets == \A r \in SiteReqs : sreq[r].type # "Site Addition" => sreq[r].site \in Ids

Alone(r) == \A p, q \in Requests : siteReq[p].r = r /\ siteReq[q].r = r => p = q

AsRead(r) ==
  \A q \in Requests : siteReq[q].r = r =>
    /\ siteReq[q].pc \in Deciding => sreq[r].status \in Site!Open
    /\ siteReq[q].pc \in {"provision", "link"} => sreq[r].status = "Approved" /\ ~sreq[r].provisioned
    /\ siteReq[q].pc = "link" => made[r] = {siteReq[q].s}

MadeOnce(r) ==
  /\ sreq[r].provisioned => made[r] = {sreq[r].site} /\ sreq[r].status = "Approved"
  /\ ~sreq[r].provisioned /\ (\A q \in Requests : siteReq[q].r = r => siteReq[q].pc # "link") => made[r] = {}

Undisturbed == \A r \in SiteReqs \ overlap : Alone(r) /\ AsRead(r) /\ MadeOnce(r)

SitesInv == Site!TypeOK /\ SiteSlots /\ Targets /\ Undisturbed

\* What every step does.
SitesKept == SitesInv' /\ Site!KeepsPrimary

SiteForms ==
  [pc : Site!Points, r : SiteReqs \cup {None}, s : Ids \cup {None},
   seen : Site!Open \cup {"none", "Approved", "Rejected"}, was : Site!Rows, now : Site!Rows,
   rows : SUBSET Ids]

SiteRequests ==
  [status : Site!Open \cup {"absent", "Approved", "Rejected"}, type : Site!Types,
   site : Ids \cup {None}, provisioned : BOOLEAN]

OtherHandlers(q) == \A p \in Requests : p # q => siteReq'[p] = siteReq[p]

\* The rows after a step for request r.
RowsAfter(r) ==
  /\ sreq' \in [SiteReqs -> SiteRequests] /\ made' \in [SiteReqs -> SUBSET Ids]
  /\ overlap' \subseteq SiteReqs /\ overlap \subseteq overlap'
  /\ \A x \in SiteReqs : x # r => sreq'[x] = sreq[x] /\ made'[x] = made[x]
  /\ sreq'[r].type = sreq[r].type
  /\ sreq[r].status # "absent" => sreq'[r].status # "absent"
  /\ sreq'[r].type # "Site Addition" => sreq'[r].site \in Ids

OrderAfter(r) == r \notin overlap' => Alone(r)' /\ AsRead(r)' /\ MadeOnce(r)'

-----------------------------------------------------------------------------
LEMMA SiteReqUpdate ==
  ASSUME Site!TypeOK, NEW q \in Requests, NEW s \in SiteForms, Site!Move(q, s)
  PROVE  OtherHandlers(q) /\ siteReq'[q] = s /\ siteReq' \in [Requests -> SiteForms]
BY DEF Site!TypeOK, Site!Move, OtherHandlers, SiteForms

LEMMA SiteForm ==
  ASSUME NEW pc \in Site!Points, NEW r \in SiteReqs \cup {None}, NEW s \in Ids \cup {None},
         NEW seen \in Site!Open \cup {"none", "Approved", "Rejected"},
         NEW was \in Site!Rows, NEW n \in Site!Rows, NEW rows \in SUBSET Ids
  PROVE  LET f == Site!Slot(pc, r, s, seen, was, n, rows) IN
         /\ f \in SiteForms
         /\ f.pc = pc /\ f.r = r /\ f.s = s /\ f.seen = seen /\ f.was = was /\ f.now = n /\ f.rows = rows
BY DEF Site!Slot, SiteForms

LEMMA SiteRow ==
  /\ Site!Absent \in Site!Rows /\ Site!Absent.status = "absent" /\ Site!Absent.primary = FALSE
  /\ \A st \in {"absent", "Active", "Inactive"}, p \in BOOLEAN :
       Site!Row(st, p) \in Site!Rows /\ Site!Row(st, p).status = st /\ Site!Row(st, p).primary = p
BY DEF Site!Absent, Site!Row, Site!Rows

\* The slots of the handlers that are through, or dead.
LEMMA SiteRest ==
  /\ Site!Idle \in SiteForms /\ Site!Idle.pc = "idle" /\ Site!Idle.r = None
  /\ Site!Dead \in SiteForms /\ Site!Dead.pc = "crashed" /\ Site!Dead.r = None
  /\ SiteSlot(Site!Idle) /\ SiteSlot(Site!Dead)
<1>1. "idle" \in Site!Points /\ "crashed" \in Site!Points
  BY DEF Site!Points
<1>2. /\ Site!Idle \in SiteForms /\ Site!Idle.pc = "idle" /\ Site!Idle.r = None
      /\ Site!Dead \in SiteForms /\ Site!Dead.pc = "crashed" /\ Site!Dead.r = None
  BY <1>1, SiteRow, SiteForm DEF Site!Idle, Site!Dead
<1> QED BY <1>2 DEF SiteSlot, Deciding

LEMMA InitSitesInv == ASSUME Site!Init PROVE SitesInv
<1>1. Site!TypeOK
  <2>1. Site!NoRequest \in SiteRequests
    BY DEF Site!NoRequest, SiteRequests, Site!Types
  <2>2. site \in [Ids -> Site!Rows] /\ made \in [SiteReqs -> SUBSET Ids]
    BY SiteRow DEF Site!Init
  <2> QED BY <2>1, <2>2, SiteRest DEF Site!Init, Site!TypeOK, SiteForms, SiteRequests
<1>2. SiteSlots
  BY SiteRest DEF Site!Init, SiteSlots
<1>3. Targets
  BY DEF Site!Init, Targets, Site!NoRequest
<1>4. Undisturbed
  BY SiteRest, AdministrationAssumption
  DEF Site!Init, Undisturbed, Alone, AsRead, MadeOnce, Site!NoRequest
<1> QED BY <1>1, <1>2, <1>3, <1>4 DEF SitesInv

-----------------------------------------------------------------------------
\* What the other handlers carry stays right, and the new slot of q is.
LEMMA SiteSlotsKept ==
  ASSUME SitesInv, NEW q \in Requests, NEW s \in SiteForms, Site!Move(q, s), SiteSlot(s)',
         \A r \in SiteReqs : sreq[r].status # "absent" =>
           sreq'[r].status # "absent" /\ sreq'[r].type = sreq[r].type
  PROVE  SiteSlots'
<1>1. OtherHandlers(q) /\ siteReq'[q] = s
  BY SiteReqUpdate DEF SitesInv
<1>2. ASSUME NEW p \in Requests, p # q PROVE SiteSlot(siteReq[p])'
  <2>1. siteReq'[p] = siteReq[p]
    BY <1>1, <1>2 DEF OtherHandlers
  <2>2. SiteSlot(siteReq[p]) /\ siteReq[p].r \in SiteReqs \cup {None}
    BY DEF SitesInv, SiteSlots, Site!TypeOK
  <2> QED BY <2>1, <2>2 DEF SiteSlot
<1>3. SiteSlot(siteReq[q])'
  BY <1>1 DEF SiteSlot
<1> QED BY <1>2, <1>3 DEF SiteSlots

\* Nothing is new of a request whose row is as it was and that q neither works on nor did.
LEMMA RequestKept ==
  ASSUME SitesInv, NEW q \in Requests, NEW s \in SiteForms, Site!Move(q, s),
         NEW r \in SiteReqs \ overlap, siteReq[q].r # r, s.r # r,
         sreq'[r] = sreq[r], made'[r] = made[r]
  PROVE  Alone(r)' /\ AsRead(r)' /\ MadeOnce(r)'
<1>1. OtherHandlers(q) /\ siteReq'[q] = s
  BY SiteReqUpdate DEF SitesInv
<1>2. \A p \in Requests : siteReq'[p].r = r <=> siteReq[p].r = r
  BY <1>1 DEF OtherHandlers
<1>3. \A p \in Requests : siteReq'[p].r = r => siteReq'[p] = siteReq[p]
  BY <1>1 DEF OtherHandlers
<1>4. Alone(r) /\ AsRead(r) /\ MadeOnce(r)
  BY DEF SitesInv, Undisturbed
<1>5. Alone(r)'
  BY <1>2, <1>4 DEF Alone
<1>6. AsRead(r)'
  BY <1>3, <1>4 DEF AsRead
<1>7. MadeOnce(r)'
  BY <1>2, <1>3, <1>4 DEF MadeOnce
<1> QED BY <1>5, <1>6, <1>7

LEMMA PrimaryKept ==
  ASSUME SitesInv,
         \/ \E q \in Requests : Site!Drops(q) /\ siteReq'[q] # siteReq[q]
         \/ \E s \in Ids : site'[s].status # "absent" /\ site'[s].primary
         \/ \A s \in Ids : site[s].status # "absent" /\ site[s].primary =>
                             site'[s].status # "absent" /\ site'[s].primary
  PROVE  Site!KeepsPrimary
BY DEF SitesInv, Site!KeepsPrimary, Site!Primaries, Site!Existing, Site!Exists

\* A step of q on sites, not for a site request.
LEMMA SiteStep ==
  ASSUME SitesInv, NEW q \in Requests, NEW s \in SiteForms, Site!Move(q, s),
         siteReq[q].r = None, s.r = None, SiteSlot(s)',
         site' \in [Ids -> Site!Rows], Site!KeepsPrimary,
         UNCHANGED <<sreq, made, overlap>>
  PROVE  SitesKept
<1>1. Site!TypeOK'
  BY SiteReqUpdate DEF SitesInv, Site!TypeOK, SiteForms
<1>2. SiteSlots'
  BY SiteSlotsKept
<1>3. Targets'
  BY DEF SitesInv, Targets
<1>4. Undisturbed'
  BY RequestKept, AdministrationAssumption DEF Undisturbed
<1> QED BY <1>1, <1>2, <1>3, <1>4 DEF SitesInv, SitesKept

\* The columns a save leaves: the row keeps its status and stays, or takes the new one.
LEMMA SaveRow ==
  ASSUME SitesInv, NEW q \in Requests, NEW s \in Ids, siteReq[q].now.status # "absent"
  PROVE  LET row == Site!Saved(q, s) IN
         /\ row \in Site!Rows
         /\ row.status # "absent" <=> site[s].status # "absent"
         /\ siteReq[q].was.primary = siteReq[q].now.primary /\ site[s].status # "absent" =>
              row.primary = site[s].primary
         /\ siteReq[q].now.primary /\ ~siteReq[q].was.primary /\ site[s].status # "absent" => row.primary
<1> DEFINE st == IF Site!Exists(s)
                   THEN Site!Changed(site[s].status, siteReq[q].was.status, siteReq[q].now.status)
                   ELSE "absent"
           pr == Site!Exists(s) /\ Site!Changed(site[s].primary, siteReq[q].was.primary, siteReq[q].now.primary)
<1>1. /\ site[s] \in Site!Rows /\ siteReq[q].was \in Site!Rows /\ siteReq[q].now \in Site!Rows
  BY DEF SitesInv, Site!TypeOK
<1>2. /\ site[s].status \in {"absent", "Active", "Inactive"} /\ site[s].primary \in BOOLEAN
      /\ siteReq[q].now.status \in {"Active", "Inactive"}
      /\ siteReq[q].was.primary \in BOOLEAN /\ siteReq[q].now.primary \in BOOLEAN
  BY <1>1 DEF Site!Rows
<1>3. st \in {"absent", "Active", "Inactive"} /\ (st # "absent" <=> site[s].status # "absent")
  BY <1>2 DEF Site!Exists, Site!Changed
<1>4. /\ pr \in BOOLEAN
      /\ siteReq[q].was.primary = siteReq[q].now.primary /\ site[s].status # "absent" =>
           pr = site[s].primary
      /\ siteReq[q].now.primary /\ ~siteReq[q].was.primary /\ site[s].status # "absent" => pr
  BY <1>2 DEF Site!Exists, Site!Changed
<1>5. Site!Saved(q, s) = Site!Row(st, pr)
  BY DEF Site!Saved
<1> HIDE DEF st, pr
<1> QED BY <1>3, <1>4, <1>5, SiteRow

LEMMA DemotedRow ==
  ASSUME SitesInv, NEW s \in Ids
  PROVE  /\ Site!Demoted(s) \in Site!Rows
         /\ Site!Demoted(s).status = site[s].status /\ Site!Demoted(s).primary = FALSE
BY SiteRow DEF Site!Demoted, SitesInv, Site!TypeOK, Site!Rows, Site!Row

LEMMA SiteStepsInv == ASSUME SitesInv, NEW q \in Requests, Site!SiteSteps(q) PROVE SitesKept
<1>t. /\ Site!TypeOK /\ SiteSlot(siteReq[q]) /\ siteReq[q] \in SiteForms
      /\ site \in [Ids -> Site!Rows]
  BY DEF SitesInv, SiteSlots, Site!TypeOK, SiteForms
<1>p. {"create", "edit", "promote", "delete"} \subseteq Site!Points
  BY DEF Site!Points
<1>i. Site!Idle \in SiteForms /\ Site!Idle.r = None /\ SiteSlot(Site!Idle)'
  BY SiteRest DEF SiteSlot, Deciding
<1>1. CASE Site!BeginCreate(q)
  <2> DEFINE f == Site!Slot("create", None, None, "none", Site!Absent, Site!Row("Active", TRUE), Site!Existing)
  <2>1. Site!Existing \in SUBSET Ids /\ Site!Row("Active", TRUE) \in Site!Rows
    BY SiteRow DEF Site!Existing
  <2>f. f \in SiteForms /\ f.r = None /\ f.pc = "create" /\ f.now = Site!Row("Active", TRUE)
    BY <1>p, <2>1, SiteRow DEF Site!Slot, SiteForms
  <2> HIDE DEF f
  <2>2. PICK s \in SiteForms : s = f /\ s.r = None /\ s.pc = "create" /\ s.now = Site!Row("Active", TRUE)
    BY <2>f
  <2>3. /\ siteReq[q].pc = "idle" /\ Site!Move(q, s) /\ UNCHANGED <<site, sreq, made, overlap>>
    BY <1>1, <2>2 DEF Site!BeginCreate, Site!Free, f
  <2>4. SiteSlot(s)'
    BY <2>2 DEF SiteSlot, Deciding
  <2>5. siteReq[q].r = None
    BY <1>t, <2>3 DEF SiteSlot, Deciding
  <2>6. Site!KeepsPrimary
    BY <1>t, <2>3, PrimaryKept
  <2> QED BY <1>t, <2>2, <2>3, <2>4, <2>5, <2>6, SiteStep
<1>2. CASE \E s \in Ids : Site!CommitCreate(q, s)
  <2>1. PICK s \in Ids : Site!CommitCreate(q, s)
    BY <1>2
  <2>2. /\ siteReq[q].pc = "create" /\ Site!Move(q, Site!Idle) /\ UNCHANGED <<sreq, made, overlap>>
        /\ site' = [x \in Ids |-> IF x = s THEN siteReq[q].now
                                  ELSE IF x \in siteReq[q].rows /\ Site!Exists(x) THEN Site!Demoted(x) ELSE site[x]]
    BY <2>1 DEF Site!CommitCreate
  <2>3. siteReq[q].r = None /\ siteReq[q].now = Site!Row("Active", TRUE)
    BY <1>t, <2>2 DEF SiteSlot, Deciding
  <2>4. /\ site' \in [Ids -> Site!Rows] /\ site'[s].status # "absent" /\ site'[s].primary
    BY <1>t, <2>2, <2>3, SiteRow, DemotedRow
  <2>5. Site!KeepsPrimary
    BY <2>2, <2>4, PrimaryKept
  <2> QED BY <1>i, <1>t, <2>2, <2>3, <2>4, <2>5, SiteStep
<1>3. CASE \E s \in Ids : Site!LoadDelete(q, s)
  <2>1. PICK s \in Ids : Site!LoadDelete(q, s)
    BY <1>3
  <2> DEFINE n == Site!Slot("delete", None, s, "none", site[s], Site!Absent, {})
  <2>f. n \in SiteForms /\ n.r = None /\ n.pc = "delete" /\ n.s = s
    BY <1>t, <1>p, SiteRow DEF Site!Slot, SiteForms
  <2> HIDE DEF n
  <2>3. PICK f \in SiteForms : f = n /\ f.r = None /\ f.pc = "delete" /\ f.s = s
    BY <2>f
  <2>2. /\ siteReq[q].pc = "idle" /\ Site!Move(q, f) /\ UNCHANGED <<site, sreq, made, overlap>>
    BY <2>1, <2>3 DEF Site!LoadDelete, Site!Free, n
  <2>4. SiteSlot(f)'
    BY <2>3 DEF SiteSlot, Deciding
  <2>5. siteReq[q].r = None
    BY <1>t, <2>2 DEF SiteSlot, Deciding
  <2>6. Site!KeepsPrimary
    BY <2>2, PrimaryKept
  <2> QED BY <1>t, <2>2, <2>3, <2>4, <2>5, <2>6, SiteStep
<1>4. CASE \E s \in Ids : \E status1 \in {"Active", "Inactive"}, primary \in BOOLEAN :
             Site!LoadSite(q, s, Site!Row(status1, primary))
  <2>1. PICK s \in Ids, st \in {"Active", "Inactive"}, pr \in BOOLEAN : Site!LoadSite(q, s, Site!Row(st, pr))
    BY <1>4
  <2> DEFINE n == Site!Row(st, pr)
             e == Site!Slot("edit", None, s, "none", site[s], n, {})
  <2>2. n \in Site!Rows /\ n.status # "absent"
    BY SiteRow
  <2> HIDE DEF n
  <2>f. e \in SiteForms /\ e.r = None /\ e.pc = "edit" /\ e.s = s /\ e.was = site[s] /\ e.now = n
    BY <1>t, <1>p, <2>2 DEF Site!Slot, SiteForms
  <2> HIDE DEF e
  <2>4. PICK f \in SiteForms : /\ f = e /\ f.r = None /\ f.pc = "edit" /\ f.s = s
                               /\ f.was = site[s] /\ f.now = n
    BY <2>f
  <2>3. /\ siteReq[q].pc = "idle" /\ Site!Move(q, f) /\ UNCHANGED <<site, sreq, made, overlap>>
        /\ site[s].primary => n.primary
    BY <2>1, <2>4 DEF Site!LoadSite, Site!Free, Site!Edits, n, e
  <2>5. SiteSlot(f)'
    BY <2>2, <2>3, <2>4 DEF SiteSlot, Deciding
  <2>6. siteReq[q].r = None
    BY <1>t, <2>3 DEF SiteSlot, Deciding
  <2>7. Site!KeepsPrimary
    BY <2>3, PrimaryKept
  <2> QED BY <1>t, <2>3, <2>4, <2>5, <2>6, <2>7, SiteStep
<1>5. CASE Site!SaveSite(q)
  <2> DEFINE s == siteReq[q].s
  <2>1. /\ siteReq[q].pc = "edit" /\ ~Site!Promotes(q) /\ Site!Move(q, Site!Idle)
        /\ UNCHANGED <<sreq, made, overlap>>
        /\ site' = [site EXCEPT ![s] = Site!Saved(q, s)]
    BY <1>5 DEF Site!SaveSite
  <2>2. /\ siteReq[q].r = None /\ s \in Ids /\ siteReq[q].now.status # "absent"
        /\ siteReq[q].was.primary => siteReq[q].now.primary
    BY <1>t, <2>1 DEF SiteSlot, Deciding
  <2>3. siteReq[q].was.primary = siteReq[q].now.primary
    BY <1>t, <2>1, <2>2 DEF Site!Promotes, SiteForms, Site!Rows
  <2>4. /\ site' \in [Ids -> Site!Rows]
        /\ \A x \in Ids : site[x].status # "absent" /\ site[x].primary =>
                            site'[x].status # "absent" /\ site'[x].primary
    BY <1>t, <2>1, <2>2, <2>3, SaveRow
  <2>5. Site!KeepsPrimary
    BY <2>1, <2>4, PrimaryKept
  <2> QED BY <1>i, <1>t, <2>1, <2>2, <2>4, <2>5, SiteStep
<1>6. CASE Site!BeginPromote(q)
  <2> DEFINE n == [siteReq[q] EXCEPT !.pc = "promote", !.rows = Site!Existing \ {siteReq[q].s}]
  <2>f. /\ n \in SiteForms /\ n.pc = "promote" /\ n.r = siteReq[q].r /\ n.s = siteReq[q].s
        /\ n.was = siteReq[q].was /\ n.now = siteReq[q].now
    BY <1>t, <1>p DEF SiteForms, Site!Existing
  <2> HIDE DEF n
  <2>2. PICK f \in SiteForms :
          /\ f = n /\ f.pc = "promote" /\ f.r = siteReq[q].r /\ f.s = siteReq[q].s
          /\ f.was = siteReq[q].was /\ f.now = siteReq[q].now
    BY <2>f
  <2>1. /\ siteReq[q].pc = "edit" /\ Site!Promotes(q) /\ Site!Move(q, f)
        /\ UNCHANGED <<site, sreq, made, overlap>>
    BY <1>6, <2>2 DEF Site!BeginPromote, n
  <2>3. siteReq[q].r = None /\ f.r = None
    BY <1>t, <2>1, <2>2 DEF SiteSlot, Deciding
  <2>4. SiteSlot(f)'
    BY <1>t, <2>1, <2>2, <2>3 DEF SiteSlot, Deciding, Site!Promotes
  <2>5. Site!KeepsPrimary
    BY <2>1, PrimaryKept
  <2> QED BY <1>t, <2>1, <2>2, <2>3, <2>4, <2>5, SiteStep
<1>7. CASE Site!CommitPromote(q)
  <2> DEFINE s == siteReq[q].s
  <2>1. /\ siteReq[q].pc = "promote" /\ Site!Move(q, Site!Idle) /\ UNCHANGED <<sreq, made, overlap>>
        /\ site' = [x \in Ids |-> IF x = s THEN Site!Saved(q, x)
                                  ELSE IF x \in siteReq[q].rows /\ Site!Exists(x) THEN Site!Demoted(x) ELSE site[x]]
    BY <1>7 DEF Site!CommitPromote
  <2>2. /\ siteReq[q].r = None /\ s \in Ids /\ siteReq[q].now.status # "absent"
        /\ siteReq[q].now.primary /\ ~siteReq[q].was.primary
    BY <1>t, <2>1 DEF SiteSlot, Deciding
  <2>3. /\ site' \in [Ids -> Site!Rows]
        /\ site[s].status # "absent" => site'[s].status # "absent" /\ site'[s].primary
    BY <1>t, <2>1, <2>2, SaveRow, DemotedRow
  <2>4. Site!KeepsPrimary
    <3>1. siteReq'[q].pc = "idle"
      BY <2>1, SiteRest, SiteReqUpdate DEF SitesInv
    <3> QED BY <2>1, <2>2, <2>3, <3>1, PrimaryKept DEF Site!Drops, Site!Exists
  <2> QED BY <1>i, <1>t, <2>1, <2>2, <2>3, <2>4, SiteStep
<1>8. CASE Site!Rollback(q)
  <2>1. /\ siteReq[q].pc \in {"create", "promote"} /\ Site!Move(q, Site!Idle)
        /\ UNCHANGED <<site, sreq, made, overlap>>
    BY <1>8 DEF Site!Rollback
  <2>2. siteReq[q].r = None
    BY <1>t, <2>1 DEF SiteSlot, Deciding
  <2>3. Site!KeepsPrimary
    BY <2>1, PrimaryKept
  <2> QED BY <1>i, <1>t, <2>1, <2>2, <2>3, SiteStep
<1>9. CASE Site!DeleteSite(q)
  <2> DEFINE s == siteReq[q].s
  <2>1. /\ siteReq[q].pc = "delete" /\ Site!Move(q, Site!Idle) /\ UNCHANGED <<sreq, made, overlap>>
        /\ site' = [site EXCEPT ![s] = Site!Absent]
    BY <1>9 DEF Site!DeleteSite
  <2>2. siteReq[q].r = None /\ s \in Ids
    BY <1>t, <2>1 DEF SiteSlot, Deciding
  <2>3. site' \in [Ids -> Site!Rows]
    BY <1>t, <2>1, <2>2, SiteRow DEF Site!Rows
  <2>4. Site!KeepsPrimary
    <3>1. siteReq'[q].pc = "idle"
      BY <2>1, SiteRest, SiteReqUpdate DEF SitesInv
    <3>2. CASE site[s].primary
      BY <2>1, <3>1, <3>2, PrimaryKept DEF Site!Drops
    <3>3. CASE ~site[s].primary
      BY <1>t, <2>1, <3>3, PrimaryKept
    <3> QED BY <3>2, <3>3
  <2> QED BY <1>i, <1>t, <2>1, <2>2, <2>3, <2>4, SiteStep
<1> QED BY <1>1, <1>2, <1>3, <1>4, <1>5, <1>6, <1>7, <1>8, <1>9 DEF Site!SiteSteps

-----------------------------------------------------------------------------
\* An undisturbed request has one handler at work on it.
LEMMA OnlyOne ==
  ASSUME SitesInv, NEW q \in Requests, NEW s \in SiteForms, Site!Move(q, s),
         NEW r \in SiteReqs \ overlap, siteReq[q].r = r
  PROVE  \A p \in Requests : siteReq'[p].r = r => p = q /\ siteReq'[p] = s
<1>1. OtherHandlers(q) /\ siteReq'[q] = s
  BY SiteReqUpdate DEF SitesInv
<1>2. Alone(r)
  BY DEF SitesInv, Undisturbed
<1> QED BY <1>1, <1>2 DEF Alone, OtherHandlers

\* A step of q for site request r, which leaves the other requests as they are.
LEMMA RequestStep ==
  ASSUME SitesInv, NEW q \in Requests, NEW s \in SiteForms, Site!Move(q, s), SiteSlot(s)',
         NEW r \in SiteReqs, siteReq[q].r = r \/ siteReq[q].r = None, s.r = r \/ s.r = None,
         site' \in [Ids -> Site!Rows], Site!KeepsPrimary,
         RowsAfter(r), OrderAfter(r)
  PROVE  SitesKept
<1>1. Site!TypeOK'
  BY SiteReqUpdate DEF SitesInv, Site!TypeOK, SiteForms, SiteRequests, RowsAfter
<1>2. SiteSlots'
  BY SiteSlotsKept DEF RowsAfter
<1>3. Targets'
  BY DEF SitesInv, Targets, RowsAfter
<1>4. ASSUME NEW x \in SiteReqs, x \notin overlap', x # r
       PROVE Alone(x)' /\ AsRead(x)' /\ MadeOnce(x)'
  <2>0. x # None
    BY AdministrationAssumption
  <2>1. x \in SiteReqs \ overlap /\ siteReq[q].r # x /\ s.r # x
    BY <1>4, <2>0 DEF RowsAfter
  <2>2. sreq'[x] = sreq[x] /\ made'[x] = made[x]
    BY <1>4 DEF RowsAfter
  <2> QED BY <2>1, <2>2, RequestKept
<1>5. Undisturbed'
  BY <1>4 DEF Undisturbed, OrderAfter
<1> QED BY <1>1, <1>2, <1>3, <1>5 DEF SitesInv, SitesKept

\* A step of the handler that works on request r, which nothing disturbed so far, and
\* leaves the request, its sites and who works on it.
LEMMA HandlerStep ==
  ASSUME SitesInv, NEW q \in Requests, NEW s \in SiteForms, Site!Move(q, s), SiteSlot(s)',
         siteReq[q].pc \in Deciding, s.r \in {siteReq[q].r, None},
         s.r # None => s.pc \in Deciding,
         site' \in [Ids -> Site!Rows], Site!KeepsPrimary,
         UNCHANGED <<sreq, made, overlap>>
  PROVE  SitesKept
<1>0. siteReq[q].r \in SiteReqs
  BY DEF SitesInv, SiteSlots, SiteSlot, Site!TypeOK
<1>r. PICK r \in SiteReqs : r = siteReq[q].r
  BY <1>0
<1>1. /\ sreq \in [SiteReqs -> SiteRequests] /\ made \in [SiteReqs -> SUBSET Ids]
      /\ overlap \subseteq SiteReqs
  BY DEF SitesInv, Site!TypeOK, SiteRequests
<1>2. sreq[r].type # "Site Addition" => sreq[r].site \in Ids
  BY <1>r DEF SitesInv, Targets
<1>3. ASSUME r \notin overlap PROVE Alone(r)' /\ AsRead(r)' /\ MadeOnce(r)'
  <2>1. \A p \in Requests : siteReq'[p].r = r => p = q /\ siteReq'[p] = s
    BY <1>r, <1>3, OnlyOne
  <2>2. Alone(r) /\ AsRead(r) /\ MadeOnce(r)
    BY <1>3 DEF SitesInv, Undisturbed
  <2>3. \A p \in Requests : siteReq[p].r = r => p = q
    BY <1>r, <2>2 DEF Alone
  <2>4. sreq[r].status \in Site!Open
    BY <1>r, <2>2 DEF AsRead
  <2>5. s.r = r => s.pc \in Deciding /\ s.pc \notin {"provision", "link"}
    BY AdministrationAssumption DEF Deciding
  <2>6. siteReq[q].pc # "link"
    BY DEF Deciding
  <2>7. sreq'[r] = sreq[r] /\ made'[r] = made[r]
    OBVIOUS
  <2>8. ~sreq[r].provisioned
    BY <2>2, <2>4 DEF MadeOnce, Site!Open
  <2>9. made[r] = {}
    BY <1>r, <2>2, <2>3, <2>6, <2>8 DEF MadeOnce
  <2>10. Alone(r)'
    BY <2>1 DEF Alone
  <2>11. AsRead(r)'
    BY <2>1, <2>4, <2>5, <2>7 DEF AsRead
  <2>12. MadeOnce(r)'
    BY <2>7, <2>8, <2>9 DEF MadeOnce
  <2> QED BY <2>10, <2>11, <2>12
<1> QED BY <1>r, <1>1, <1>2, <1>3, RequestStep DEF RowsAfter, OrderAfter

LEMMA RequestStepsInv == ASSUME SitesInv, NEW q \in Requests, Site!RequestSteps(q) PROVE SitesKept
<1>t. /\ SiteSlot(siteReq[q]) /\ siteReq[q] \in SiteForms
      /\ site \in [Ids -> Site!Rows]
      /\ sreq \in [SiteReqs -> SiteRequests] /\ made \in [SiteReqs -> SUBSET Ids]
      /\ overlap \subseteq SiteReqs
  BY DEF SitesInv, SiteSlots, Site!TypeOK, SiteForms, SiteRequests
<1>n. None \notin SiteReqs
  BY AdministrationAssumption
<1>p. Deciding \cup {"provision", "link"} \subseteq Site!Points
  BY DEF Site!Points, Deciding
<1>i. Site!Idle \in SiteForms /\ Site!Idle.r = None /\ SiteSlot(Site!Idle)'
  BY SiteRest DEF SiteSlot, Deciding
<1>1. CASE Site!SaveStatus(q)
  <2>1. /\ siteReq[q].pc \in {"review", "reject", "approved"} /\ Site!Move(q, Site!Idle)
        /\ sreq' = [sreq EXCEPT ![siteReq[q].r].status = Site!To(siteReq[q].pc)]
        /\ UNCHANGED <<site, made, overlap>>
    BY <1>1 DEF Site!SaveStatus
  <2>2. siteReq[q].pc \in Deciding
    BY <2>1 DEF Deciding
  <2>3. siteReq[q].r \in SiteReqs
    BY <1>t, <2>2 DEF SiteSlot, SiteForms
  <2>r. PICK r \in SiteReqs : r = siteReq[q].r
    BY <2>3
  <2>4. /\ sreq' \in [SiteReqs -> SiteRequests]
        /\ sreq'[r].status \in {"Under Review", "Rejected", "Approved"}
        /\ sreq'[r].provisioned = sreq[r].provisioned /\ sreq'[r].type = sreq[r].type
        /\ sreq'[r].site = sreq[r].site /\ \A x \in SiteReqs : x # r => sreq'[x] = sreq[x]
    BY <1>t, <2>1, <2>r DEF SiteRequests, Site!To, Site!Open
  <2>5. sreq[r].type # "Site Addition" => sreq[r].site \in Ids
    BY DEF SitesInv, Targets
  <2>6. ASSUME r \notin overlap PROVE Alone(r)' /\ AsRead(r)' /\ MadeOnce(r)'
    <3>1. \A p \in Requests : siteReq'[p].r # r
      BY <1>i, <1>n, <2>1, <2>r, <2>6, OnlyOne
    <3>2. Alone(r) /\ AsRead(r) /\ MadeOnce(r)
      BY <2>6 DEF SitesInv, Undisturbed
    <3>3. ~sreq[r].provisioned
      BY <2>2, <2>r, <3>2 DEF AsRead, MadeOnce, Site!Open
    <3>4. made[r] = {}
      BY <2>1, <2>r, <3>2, <3>3 DEF Alone, MadeOnce
    <3>5. Alone(r)' /\ AsRead(r)'
      BY <3>1 DEF Alone, AsRead
    <3>6. MadeOnce(r)'
      BY <2>1, <2>4, <3>3, <3>4 DEF MadeOnce
    <3> QED BY <3>5, <3>6
  <2>7. Site!KeepsPrimary
    BY <2>1, PrimaryKept
  <2>8. RowsAfter(r)
    BY <1>t, <2>1, <2>4, <2>5 DEF RowsAfter
  <2>9. OrderAfter(r)
    BY <2>1, <2>6 DEF OrderAfter
  <2>10. /\ siteReq[q].r = r /\ Site!Idle.r = None
         /\ site' \in [Ids -> Site!Rows]
    BY <1>i, <1>t, <2>1, <2>r
  <2> QED BY <1>i, <2>1, <2>7, <2>8, <2>9, <2>10, RequestStep
<1>2. CASE Site!ApproveAddition(q)
  <2> DEFINE n == [siteReq[q] EXCEPT !.pc = "approved"]
  <2>f. n \in SiteForms /\ n.pc = "approved" /\ n.r = siteReq[q].r /\ n.seen = siteReq[q].seen
    BY <1>t, <1>p DEF SiteForms, Deciding
  <2> HIDE DEF n
  <2>1. PICK f \in SiteForms : f = n /\ f.pc = "approved" /\ f.r = siteReq[q].r /\ f.seen = siteReq[q].seen
    BY <2>f
  <2>2. /\ siteReq[q].pc = "approve" /\ Site!Move(q, f) /\ UNCHANGED <<site, sreq, made, overlap>>
    BY <1>2, <2>1 DEF Site!ApproveAddition, n
  <2>3. SiteSlot(f)' /\ siteReq[q].pc \in Deciding /\ f.pc \in Deciding
    BY <1>t, <2>1, <2>2 DEF SiteSlot, Deciding
  <2>4. Site!KeepsPrimary
    BY <2>2, PrimaryKept
  <2> QED BY <1>t, <2>1, <2>2, <2>3, <2>4, HandlerStep
<1>3. CASE Site!LoadClosure(q)
  <2> DEFINE s == sreq[siteReq[q].r].site
             n == Site!Row("Inactive", FALSE)
             e == Site!Slot("apply", siteReq[q].r, s, siteReq[q].seen, site[s], n, {})
  <2>1. siteReq[q].pc = "approve" /\ siteReq[q].r \in SiteReqs
    BY <1>3, <1>t DEF Site!LoadClosure, SiteSlot, Deciding, SiteForms
  <2>2. s \in Ids
    BY <1>3, <2>1 DEF Site!LoadClosure, SitesInv, Targets
  <2>3. n \in Site!Rows /\ n.status # "absent" /\ n.primary = FALSE
    BY SiteRow
  <2> HIDE DEF n
  <2>f. /\ e \in SiteForms /\ e.pc = "apply" /\ e.r = siteReq[q].r /\ e.s = s /\ e.seen = siteReq[q].seen
        /\ e.was = site[s] /\ e.now = n
    BY <1>t, <1>p, <2>1, <2>2, <2>3 DEF Site!Slot, SiteForms, Deciding
  <2>4. ~site[s].primary /\ Site!Move(q, e) /\ UNCHANGED <<site, sreq, made, overlap>>
    BY <1>3 DEF Site!LoadClosure, n
  <2> HIDE DEF e
  <2>5. PICK f \in SiteForms : /\ f = e /\ f.pc = "apply" /\ f.r = siteReq[q].r /\ f.s \in Ids
                               /\ f.seen = siteReq[q].seen /\ f.was.primary = f.now.primary
                               /\ f.now.status # "absent"
    BY <1>t, <2>f, <2>2, <2>3, <2>4 DEF Site!Rows
  <2>6. SiteSlot(f)' /\ siteReq[q].pc \in Deciding /\ f.pc \in Deciding
    BY <1>t, <2>1, <2>4, <2>5 DEF SiteSlot, Deciding
  <2>7. Site!KeepsPrimary
    BY <2>4, PrimaryKept
  <2>8. Site!Move(q, f)
    BY <2>4, <2>5
  <2> QED BY <1>t, <2>4, <2>5, <2>6, <2>7, <2>8, HandlerStep
<1>4. CASE \E promote \in BOOLEAN : Site!LoadChange(q, promote)
  <2>p. PICK promote \in BOOLEAN : Site!LoadChange(q, promote)
    BY <1>4
  <2> DEFINE s == sreq[siteReq[q].r].site
             n == Site!Row(site[s].status, site[s].primary \/ promote)
             e == Site!Slot(IF promote THEN "clear" ELSE "apply", siteReq[q].r, s, siteReq[q].seen,
                            site[s], n, {})
  <2>1. siteReq[q].pc = "approve" /\ siteReq[q].r \in SiteReqs
    BY <2>p, <1>t DEF Site!LoadChange, SiteSlot, Deciding, SiteForms
  <2>2. s \in Ids
    BY <2>p, <2>1 DEF Site!LoadChange, SitesInv, Targets
  <2>4. site[s].status # "absent" /\ Site!Move(q, e) /\ UNCHANGED <<site, sreq, made, overlap>>
    BY <2>p DEF Site!LoadChange, Site!Exists
  <2>a. site[s].status \in {"absent", "Active", "Inactive"} /\ site[s].primary \in BOOLEAN
    BY <1>t, <2>2 DEF Site!Rows
  <2>3. n \in Site!Rows /\ n.status # "absent" /\ n.primary = (site[s].primary \/ promote)
    <3>1. (site[s].primary \/ promote) \in BOOLEAN
      OBVIOUS
    <3> QED BY <2>4, <2>a, <3>1, SiteRow
  <2> HIDE DEF n
  <2>f. /\ e \in SiteForms /\ e.pc = (IF promote THEN "clear" ELSE "apply")
        /\ e.r = siteReq[q].r /\ e.s = s /\ e.seen = siteReq[q].seen
        /\ e.was = site[s] /\ e.now = n
    BY <1>t, <1>p, <2>1, <2>2, <2>3 DEF Site!Slot, SiteForms, Deciding
  <2> HIDE DEF e
  <2>b. e.was.primary => e.now.primary
    BY <2>a, <2>3, <2>f
  <2>5. PICK f \in SiteForms : /\ f = e /\ f.pc \in {"clear", "apply"} /\ f.r = siteReq[q].r /\ f.s \in Ids
                               /\ f.seen = siteReq[q].seen /\ f.now.status # "absent"
                               /\ f.was.primary => f.now.primary
    BY <2>f, <2>2, <2>3, <2>b
  <2>6. SiteSlot(f)' /\ siteReq[q].pc \in Deciding /\ f.pc \in Deciding
    BY <1>t, <2>1, <2>4, <2>5 DEF SiteSlot, Deciding
  <2>7. Site!KeepsPrimary
    BY <2>4, PrimaryKept
  <2>8. Site!Move(q, f)
    BY <2>4, <2>5
  <2> QED BY <1>t, <2>4, <2>5, <2>6, <2>7, <2>8, HandlerStep
<1>5. CASE Site!RefuseTarget(q)
  <2>1. siteReq[q].pc = "approve" /\ Site!Move(q, Site!Idle) /\ UNCHANGED <<site, sreq, made, overlap>>
    BY <1>5 DEF Site!RefuseTarget
  <2>2. siteReq[q].pc \in Deciding
    BY <2>1 DEF Deciding
  <2>3. Site!KeepsPrimary
    BY <2>1, PrimaryKept
  <2> QED BY <1>i, <1>t, <2>1, <2>2, <2>3, HandlerStep
<1>6. CASE Site!ClearPrimary(q)
  <2> DEFINE n == [siteReq[q] EXCEPT !.pc = "apply"]
  <2>f. /\ n \in SiteForms /\ n.pc = "apply" /\ n.r = siteReq[q].r /\ n.seen = siteReq[q].seen
        /\ n.s = siteReq[q].s /\ n.was = siteReq[q].was /\ n.now = siteReq[q].now
    BY <1>t, <1>p DEF SiteForms, Deciding
  <2> HIDE DEF n
  <2>1. PICK f \in SiteForms : /\ f = n /\ f.pc = "apply" /\ f.r = siteReq[q].r /\ f.seen = siteReq[q].seen
                               /\ f.s = siteReq[q].s /\ f.was = siteReq[q].was /\ f.now = siteReq[q].now
    BY <2>f
  <2>2. /\ siteReq[q].pc = "clear" /\ Site!Move(q, f) /\ UNCHANGED <<sreq, made, overlap>>
        /\ site' = [s \in Ids |-> Site!Demoted(s)]
    BY <1>6, <2>1 DEF Site!ClearPrimary, n
  <2>3. SiteSlot(f)' /\ siteReq[q].pc \in Deciding /\ f.pc \in Deciding
    BY <1>t, <2>1, <2>2 DEF SiteSlot, Deciding
  <2>4. site' \in [Ids -> Site!Rows]
    BY <2>2, DemotedRow
  <2>5. Site!KeepsPrimary
    <3>1. siteReq'[q] = f
      BY <2>2, SiteReqUpdate DEF SitesInv
    <3> QED BY <2>1, <2>2, <3>1, PrimaryKept DEF Site!Drops
  <2> QED BY <1>t, <2>1, <2>2, <2>3, <2>4, <2>5, HandlerStep
<1>7. CASE Site!ApplyToSite(q)
  <2> DEFINE n == [siteReq[q] EXCEPT !.pc = "approved"]
             s == siteReq[q].s
  <2>f. n \in SiteForms /\ n.pc = "approved" /\ n.r = siteReq[q].r /\ n.seen = siteReq[q].seen
    BY <1>t, <1>p DEF SiteForms, Deciding
  <2> HIDE DEF n
  <2>1. PICK f \in SiteForms : f = n /\ f.pc = "approved" /\ f.r = siteReq[q].r /\ f.seen = siteReq[q].seen
    BY <2>f
  <2>2. /\ siteReq[q].pc = "apply" /\ Site!Move(q, f) /\ UNCHANGED <<sreq, made, overlap>>
        /\ site' = [site EXCEPT ![s] = Site!Saved(q, s)]
    BY <1>7, <2>1 DEF Site!ApplyToSite, n
  <2>3. SiteSlot(f)' /\ siteReq[q].pc \in Deciding /\ f.pc \in Deciding
    BY <1>t, <2>1, <2>2 DEF SiteSlot, Deciding
  <2>4. /\ s \in Ids /\ siteReq[q].now.status # "absent"
        /\ siteReq[q].was.primary => siteReq[q].now.primary
    BY <1>t, <2>2 DEF SiteSlot
  <2>5. /\ site' \in [Ids -> Site!Rows]
        /\ \A x \in Ids : site[x].status # "absent" /\ site[x].primary =>
                            site'[x].status # "absent" /\ site'[x].primary
    BY <1>t, <2>2, <2>4, SaveRow DEF SiteForms, Site!Rows
  <2>6. Site!KeepsPrimary
    BY <2>2, <2>5, PrimaryKept
  <2> QED BY <1>t, <2>1, <2>2, <2>3, <2>5, <2>6, HandlerStep
<1>8. CASE Site!SaveProvisioned(q)
  <2>1. /\ siteReq[q].pc = "link" /\ Site!Move(q, Site!Idle)
        /\ sreq' = [sreq EXCEPT ![siteReq[q].r].provisioned = TRUE, ![siteReq[q].r].site = siteReq[q].s]
        /\ UNCHANGED <<site, made, overlap>>
    BY <1>8 DEF Site!SaveProvisioned
  <2>2. siteReq[q].r \in SiteReqs /\ sreq[siteReq[q].r].type = "Site Addition" /\ siteReq[q].s \in Ids \cup {None}
    BY <1>t, <2>1 DEF SiteSlot, SiteForms
  <2>r. PICK r \in SiteReqs : r = siteReq[q].r
    BY <2>2
  <2>4. /\ sreq' \in [SiteReqs -> SiteRequests] /\ sreq'[r].status = sreq[r].status
        /\ sreq'[r].type = "Site Addition" /\ sreq[r].type = "Site Addition"
        /\ sreq'[r].provisioned = TRUE /\ sreq'[r].site = siteReq[q].s
        /\ \A x \in SiteReqs : x # r => sreq'[x] = sreq[x]
    BY <1>t, <2>1, <2>2, <2>r DEF SiteRequests
  <2>6. ASSUME r \notin overlap PROVE Alone(r)' /\ AsRead(r)' /\ MadeOnce(r)'
    <3>1. \A p \in Requests : siteReq'[p].r # r
      BY <1>i, <1>n, <2>1, <2>r, <2>6, OnlyOne
    <3>2. sreq[r].status = "Approved" /\ made[r] = {siteReq[q].s}
      BY <2>1, <2>r, <2>6 DEF SitesInv, Undisturbed, AsRead
    <3>5. Alone(r)' /\ AsRead(r)'
      BY <3>1 DEF Alone, AsRead
    <3>6. MadeOnce(r)'
      BY <2>1, <2>4, <3>2 DEF MadeOnce
    <3> QED BY <3>5, <3>6
  <2>7. Site!KeepsPrimary
    BY <2>1, PrimaryKept
  <2>8. RowsAfter(r)
    BY <1>t, <2>1, <2>4 DEF RowsAfter
  <2>9. OrderAfter(r)
    BY <2>1, <2>6 DEF OrderAfter
  <2>10. /\ siteReq[q].r = r /\ Site!Idle.r = None
         /\ site' \in [Ids -> Site!Rows]
    BY <1>i, <1>t, <2>1, <2>r
  <2> QED BY <1>i, <2>1, <2>7, <2>8, <2>9, <2>10, RequestStep
<1>9. CASE \E s \in Ids : Site!ProvisionSite(q, s)
  <2>s. PICK s \in Ids : Site!ProvisionSite(q, s)
    BY <1>9
  <2> DEFINE n == [siteReq[q] EXCEPT !.pc = "link", !.s = s]
  <2>f. n \in SiteForms /\ n.pc = "link" /\ n.r = siteReq[q].r /\ n.s = s
    BY <1>t, <1>p DEF SiteForms
  <2> HIDE DEF n
  <2>1. PICK f \in SiteForms : f = n /\ f.pc = "link" /\ f.r = siteReq[q].r /\ f.s = s
    BY <2>f
  <2>2. /\ siteReq[q].pc = "provision" /\ site[s].status = "absent" /\ Site!Move(q, f)
        /\ site' = [site EXCEPT ![s] = Site!Row("Active", FALSE)]
        /\ made' = [made EXCEPT ![siteReq[q].r] = made[siteReq[q].r] \cup {s}]
        /\ UNCHANGED <<sreq, overlap>>
    BY <2>s, <2>1 DEF Site!ProvisionSite, Site!Exists, n
  <2>3. siteReq[q].r \in SiteReqs /\ sreq[siteReq[q].r].type = "Site Addition"
    BY <1>t, <2>2 DEF SiteSlot, SiteForms
  <2>r. PICK r \in SiteReqs : r = siteReq[q].r
    BY <2>3
  <2>4. SiteSlot(f)'
    BY <1>n, <1>t, <2>1, <2>2, <2>3, <2>r DEF SiteSlot, Deciding
  <2>5. /\ site' \in [Ids -> Site!Rows]
        /\ \A x \in Ids : site[x].status # "absent" /\ site[x].primary =>
                            site'[x].status # "absent" /\ site'[x].primary
    BY <1>t, <2>2, SiteRow
  <2>6. /\ made' \in [SiteReqs -> SUBSET Ids] /\ made'[r] = made[r] \cup {s}
        /\ \A x \in SiteReqs : x # r => made'[x] = made[x]
    BY <1>t, <2>2, <2>r
  <2>7. ASSUME r \notin overlap PROVE Alone(r)' /\ AsRead(r)' /\ MadeOnce(r)'
    <3>1. \A p \in Requests : siteReq'[p].r = r => p = q /\ siteReq'[p] = f
      BY <2>2, <2>r, <2>7, OnlyOne
    <3>2. Alone(r) /\ AsRead(r) /\ MadeOnce(r)
      BY <2>7 DEF SitesInv, Undisturbed
    <3>3. sreq[r].status = "Approved" /\ ~sreq[r].provisioned
      BY <2>2, <2>r, <3>2 DEF AsRead
    <3>4. made[r] = {}
      BY <2>2, <2>r, <3>2, <3>3 DEF Alone, MadeOnce
    <3>5. Alone(r)'
      BY <3>1 DEF Alone
    <3>6. AsRead(r)'
      BY <2>1, <2>2, <2>6, <3>1, <3>3, <3>4 DEF AsRead, Deciding
    <3>7. siteReq'[q].r = r /\ siteReq'[q].pc = "link"
      BY <2>1, <2>2, <2>r, SiteReqUpdate DEF SitesInv
    <3>8. MadeOnce(r)'
      BY <2>2, <3>3, <3>7 DEF MadeOnce
    <3> QED BY <3>5, <3>6, <3>8
  <2>8. Site!KeepsPrimary
    BY <2>2, <2>5, PrimaryKept
  <2>9. RowsAfter(r)
    BY <1>t, <2>2, <2>3, <2>r, <2>6 DEF RowsAfter
  <2>10. OrderAfter(r)
    BY <2>2, <2>7 DEF OrderAfter
  <2>11. siteReq[q].r = r /\ f.r = r
    BY <1>t, <2>1, <2>2, <2>r
  <2> QED BY <2>2, <2>4, <2>5, <2>8, <2>9, <2>10, <2>11, RequestStep
<1>10. ASSUME NEW pc \in {"review", "reject", "approve", "provision"}, NEW r \in SiteReqs,
              Site!Free(q), Site!Share(r), UNCHANGED <<site, sreq, made>>,
              Site!Move(q, Site!Slot(pc, r, None, sreq[r].status, Site!Absent, Site!Absent, {})),
              IF pc = "provision" THEN Site!Provisionable(r) ELSE sreq[r].status \in Site!Open
       PROVE  SitesKept
  <2> DEFINE n == Site!Slot(pc, r, None, sreq[r].status, Site!Absent, Site!Absent, {})
  <2>1. siteReq[q].pc = "idle" /\ siteReq[q].r = None
    BY <1>10, <1>t DEF Site!Free, SiteSlot, Deciding
  <2>2. sreq[r].status \in Site!Open \cup {"Approved"} /\ sreq[r].status # "absent"
    BY <1>10 DEF Site!Provisionable, Site!Open
  <2>f. n \in SiteForms /\ n.pc = pc /\ n.r = r /\ n.seen = sreq[r].status
    <3>1. pc \in Site!Points
      BY <1>p DEF Deciding
    <3>2. sreq[r].status \in Site!Open \cup {"none", "Approved", "Rejected"}
      BY <2>2
    <3>3. Site!Absent \in Site!Rows
      BY SiteRow
    <3> QED BY <3>1, <3>2, <3>3 DEF Site!Slot, SiteForms
  <2>m. Site!Move(q, n)
    BY <1>10
  <2> HIDE DEF n
  <2>3. PICK f \in SiteForms : f = n /\ f.pc = pc /\ f.r = r /\ f.seen = sreq[r].status
    BY <2>f
  <2>4. Site!Move(q, f) /\ UNCHANGED <<site, sreq, made>>
    BY <2>3, <2>m, <1>10
  <2>5. pc = "provision" =>
          sreq[r].type = "Site Addition" /\ sreq[r].status = "Approved" /\ ~sreq[r].provisioned
    BY <1>10 DEF Site!Provisionable
  <2>6. SiteSlot(f)'
    BY <1>n, <1>10, <2>2, <2>3, <2>4, <2>5 DEF SiteSlot, Deciding
  <2>7. /\ overlap' \subseteq SiteReqs /\ overlap \subseteq overlap'
        /\ r \notin overlap' => r \notin overlap /\ \A p \in Requests : siteReq[p].r # r
    BY <1>10, <1>t DEF Site!Share
  <2>8. ASSUME r \notin overlap' PROVE Alone(r)' /\ AsRead(r)' /\ MadeOnce(r)'
    <3>1. OtherHandlers(q) /\ siteReq'[q] = f
      BY <2>4, SiteReqUpdate DEF SitesInv
    <3>2. \A p \in Requests : siteReq'[p].r = r => p = q /\ siteReq'[p] = f
      BY <2>7, <2>8, <3>1 DEF OtherHandlers
    <3>3. MadeOnce(r)
      BY <2>7, <2>8 DEF SitesInv, Undisturbed
    <3>4. Alone(r)'
      BY <3>2 DEF Alone
    <3>5. AsRead(r)'
      BY <1>10, <2>3, <2>4, <2>5, <3>2 DEF AsRead, Deciding
    <3>6. MadeOnce(r)'
      BY <2>4, <2>7, <2>8, <3>3 DEF MadeOnce
    <3> QED BY <3>4, <3>5, <3>6
  <2>9. Site!KeepsPrimary
    BY <2>4, PrimaryKept
  <2>10. sreq[r].type # "Site Addition" => sreq[r].site \in Ids
    BY DEF SitesInv, Targets
  <2> QED BY <1>t, <2>1, <2>3, <2>4, <2>6, <2>7, <2>8, <2>9, <2>10, RequestStep DEF RowsAfter, OrderAfter
<1>11. CASE \E r \in SiteReqs : Site!LoadProvision(q, r)
  <2>1. PICK r \in SiteReqs : Site!LoadProvision(q, r)
    BY <1>11
  <2> QED BY <1>10, <2>1 DEF Site!LoadProvision
<1>12. CASE \E r \in SiteReqs : \E pc \in {"review", "reject", "approve"} : Site!LoadRequest(q, pc, r)
  <2>1. PICK r \in SiteReqs, pc \in {"review", "reject", "approve"} : Site!LoadRequest(q, pc, r)
    BY <1>12
  <2>2. sreq[r].status \in Site!Open
    BY <2>1 DEF Site!LoadRequest, Site!From, Site!Open
  <2> QED BY <1>10, <2>1, <2>2 DEF Site!LoadRequest
<1> QED BY <1>1, <1>2, <1>3, <1>4, <1>5, <1>6, <1>7, <1>8, <1>9, <1>11, <1>12 DEF Site!RequestSteps

\* The steps with no handler in flight: the insert of a site that is not primary, and
\* of a request.
LEMMA SiteInsertsInv ==
  ASSUME SitesInv,
         \/ \E s \in Ids, st \in {"Active", "Inactive"} : Site!CreateSite(s, st)
         \/ \E r \in SiteReqs, type \in Site!Types, s \in Ids \cup {None} : Site!CreateSiteRequest(r, type, s)
  PROVE  SitesKept
<1>t. /\ site \in [Ids -> Site!Rows] /\ sreq \in [SiteReqs -> SiteRequests]
      /\ \A q \in Requests : SiteSlot(siteReq[q]) /\ siteReq[q].r \in SiteReqs \cup {None}
  BY DEF SitesInv, SiteSlots, Site!TypeOK, SiteRequests
<1>1. ASSUME NEW s \in Ids, NEW st \in {"Active", "Inactive"}, Site!CreateSite(s, st) PROVE SitesKept
  <2>1. /\ site[s].status = "absent" /\ site' = [site EXCEPT ![s] = Site!Row(st, FALSE)]
        /\ UNCHANGED <<sreq, made, overlap, siteReq>>
    BY <1>1 DEF Site!CreateSite, Site!Exists
  <2>2. /\ site' \in [Ids -> Site!Rows]
        /\ \A x \in Ids : site[x].status # "absent" /\ site[x].primary =>
                            site'[x].status # "absent" /\ site'[x].primary
    BY <1>t, <2>1, SiteRow
  <2>3. Site!TypeOK'
    BY <2>1, <2>2 DEF SitesInv, Site!TypeOK
  <2>4. Site!KeepsPrimary
    BY <2>1, <2>2, PrimaryKept
  <2>5. SiteSlots' /\ Targets' /\ Undisturbed'
    <3>1. SiteSlots'
      BY <2>1 DEF SitesInv, SiteSlots, SiteSlot
    <3>2. Targets'
      BY <2>1 DEF SitesInv, Targets
    <3>3. Undisturbed'
      BY <2>1 DEF SitesInv, Undisturbed, Alone, AsRead, MadeOnce
    <3> QED BY <3>1, <3>2, <3>3
  <2> QED BY <2>3, <2>4, <2>5 DEF SitesInv, SitesKept
<1>2. ASSUME NEW r \in SiteReqs, NEW type \in Site!Types, NEW s \in Ids \cup {None},
             Site!CreateSiteRequest(r, type, s)
      PROVE  SitesKept
  <2> DEFINE n == [status |-> "Submitted", type |-> type, site |-> s, provisioned |-> FALSE]
  <2>1. /\ sreq[r].status = "absent" /\ sreq' = [sreq EXCEPT ![r] = n]
        /\ type # "Site Addition" => s # None
        /\ UNCHANGED <<site, made, overlap, siteReq>>
    BY <1>2 DEF Site!CreateSiteRequest
  <2>2. n \in SiteRequests
    BY DEF SiteRequests, Site!Open
  <2>3. /\ sreq' \in [SiteReqs -> SiteRequests] /\ sreq'[r] = n
        /\ \A x \in SiteReqs : x # r => sreq'[x] = sreq[x]
    BY <1>t, <2>1, <2>2
  <2>4. \A q \in Requests : siteReq[q].r # r
    BY <1>t, <2>1, AdministrationAssumption DEF SiteSlot
  <2>5. Site!TypeOK'
    BY <2>1, <2>3 DEF SitesInv, Site!TypeOK, SiteRequests
  <2>6. SiteSlots'
    <3>1. ASSUME NEW q \in Requests PROVE SiteSlot(siteReq[q])'
      <4>1. siteReq'[q] = siteReq[q]
        BY <2>1
      <4>2. siteReq[q].r # None => sreq'[siteReq[q].r] = sreq[siteReq[q].r]
        BY <1>t, <2>3, <2>4
      <4> QED BY <1>t, <4>1, <4>2 DEF SiteSlot, Deciding
    <3> QED BY <3>1 DEF SiteSlots
  <2>7. Targets'
    BY <2>1, <2>3 DEF SitesInv, Targets
  <2>8. Site!KeepsPrimary
    BY <2>1, PrimaryKept
  <2>9. ASSUME NEW x \in SiteReqs \ overlap PROVE Alone(x)' /\ AsRead(x)' /\ MadeOnce(x)'
    <3>1. Alone(x) /\ AsRead(x) /\ MadeOnce(x)
      BY DEF SitesInv, Undisturbed
    <3>2. CASE x = r
      <4>1. made[r] = {}
        BY <2>1, <2>4, <3>1, <3>2 DEF MadeOnce
      <4>2. sreq'[r].provisioned = FALSE
        BY <2>3
      <4> QED BY <2>1, <2>4, <3>2, <4>1, <4>2 DEF Alone, AsRead, MadeOnce
    <3>3. CASE x # r
      <4>1. sreq'[x] = sreq[x]
        BY <2>3, <3>3
      <4> QED BY <2>1, <3>1, <4>1 DEF Alone, AsRead, MadeOnce
    <3> QED BY <3>2, <3>3
  <2>10. Undisturbed'
    BY <2>1, <2>9 DEF Undisturbed
  <2> QED BY <2>5, <2>6, <2>7, <2>8, <2>10 DEF SitesInv, SitesKept
<1> QED BY <1>1, <1>2

\* A handler dies: its request counts as disturbed from then on.
LEMMA SiteCrashInv == ASSUME SitesInv, NEW q \in Requests, Site!Crash(q) PROVE SitesKept
<1>1. /\ siteReq[q].pc \in {"apply", "approved", "link"} /\ Site!Move(q, Site!Dead)
      /\ overlap' = overlap \cup {siteReq[q].r} /\ UNCHANGED <<site, sreq, made>>
  BY DEF Site!Crash
<1>2. /\ site \in [Ids -> Site!Rows] /\ sreq \in [SiteReqs -> SiteRequests]
      /\ made \in [SiteReqs -> SUBSET Ids] /\ overlap \subseteq SiteReqs
      /\ siteReq[q].r \in SiteReqs \cup {None} /\ SiteSlot(siteReq[q])
  BY DEF SitesInv, SiteSlots, Site!TypeOK, SiteRequests
<1>3. siteReq[q].r \in SiteReqs
  BY <1>1, <1>2 DEF SiteSlot, Deciding
<1>4. PICK r \in SiteReqs : r = siteReq[q].r
  BY <1>3
<1>5. sreq[r].type # "Site Addition" => sreq[r].site \in Ids
  BY DEF SitesInv, Targets
<1>6. RowsAfter(r) /\ OrderAfter(r)
  BY <1>1, <1>2, <1>4, <1>5 DEF RowsAfter, OrderAfter
<1>7. Site!Dead \in SiteForms /\ Site!Dead.r = None /\ SiteSlot(Site!Dead)'
  BY SiteRest DEF SiteSlot, Deciding
<1>8. Site!KeepsPrimary
  BY <1>1, PrimaryKept
<1>9. /\ siteReq[q].r = r /\ site' \in [Ids -> Site!Rows]
      /\ Site!Move(q, Site!Dead)
  BY <1>1, <1>2, <1>4
<1> QED BY <1>6, <1>7, <1>8, <1>9, RequestStep

\* The sites evolve by their own steps, or stand still.
LEMMA SitesWithin == AdministrationSpec => Site!Spec
<1>1. AdministrationInit => Site!Init
  BY DEF AdministrationInit
<1>2. [AdministrationNext]_administration => [Site!Next]_(Site!vars)
  BY DEF AdministrationNext, administration, sites, Site!vars
<1> QED BY <1>1, <1>2, PTL DEF AdministrationSpec, Site!Spec

LEMMA SitesStep == ASSUME SitesInv, [Site!Next]_(Site!vars) PROVE SitesKept
<1>1. CASE UNCHANGED Site!vars
  <2>1. UNCHANGED <<site, sreq, made, overlap, siteReq>>
    BY <1>1 DEF Site!vars
  <2>2. Site!TypeOK'
    BY <2>1 DEF SitesInv, Site!TypeOK
  <2>3. SiteSlots' /\ Targets'
    BY <2>1 DEF SitesInv, SiteSlots, SiteSlot, Targets
  <2>4. Site!KeepsPrimary
    BY <2>1, PrimaryKept
  <2>5. Undisturbed'
    BY <2>1 DEF SitesInv, Undisturbed, Alone, AsRead, MadeOnce
  <2> QED BY <2>2, <2>3, <2>4, <2>5 DEF SitesInv, SitesKept
<1>2. CASE Site!Next
  BY <1>2, SiteInsertsInv, SiteStepsInv, RequestStepsInv, SiteCrashInv DEF Site!Next
<1> QED BY <1>1, <1>2

LEMMA SitesInvariant == AdministrationSpec => []SitesInv
<1>1. SitesInv /\ [Site!Next]_(Site!vars) => SitesInv'
  BY SitesStep DEF SitesKept
<1> QED BY <1>1, InitSitesInv, SitesWithin, PTL DEF Site!Spec

\* With no handler at work on it, an undisturbed request has its site when it is
\* provisioned, and only then.
LEMMA SettledRequests == SitesInv => Site!ProvisionedOnce
BY DEF SitesInv, Undisturbed, MadeOnce, Site!ProvisionedOnce, Site!Settled

\* Only SaveStatus changes the status of a decided request, and it had read it open.
LEMMA DecisionStep ==
  ASSUME SitesInv, [Site!Next]_(Site!vars), NEW r \in SiteReqs,
         sreq[r].status \in {"Approved", "Rejected"}, sreq'[r].status # sreq[r].status
  PROVE  \E q \in Requests : siteReq[q].r = r /\ siteReq[q].seen \in Site!Open /\ siteReq'[q] = Site!Idle
<1>t. /\ sreq \in [SiteReqs -> SiteRequests]
      /\ \A q \in Requests : SiteSlot(siteReq[q]) /\ siteReq[q].r \in SiteReqs \cup {None}
  BY DEF SitesInv, SiteSlots, Site!TypeOK, SiteRequests
<1>1. sreq' # sreq
  OBVIOUS
<1>2. ASSUME NEW x \in SiteReqs, NEW type \in Site!Types, NEW s \in Ids \cup {None},
             Site!CreateSiteRequest(x, type, s)
      PROVE  FALSE
  BY <1>t, <1>2 DEF Site!CreateSiteRequest, SiteRequests
<1>3. ASSUME NEW q \in Requests, Site!SaveProvisioned(q) PROVE FALSE
  BY <1>t, <1>3 DEF Site!SaveProvisioned, SiteRequests
<1>4. PICK q \in Requests : Site!SaveStatus(q)
  BY <1>1, <1>2, <1>3
  DEF Site!Next, Site!vars, Site!SiteSteps, Site!RequestSteps, Site!CreateSite, Site!Crash,
      Site!BeginCreate, Site!CommitCreate, Site!LoadSite, Site!SaveSite, Site!BeginPromote,
      Site!CommitPromote, Site!Rollback, Site!LoadDelete, Site!DeleteSite, Site!LoadRequest,
      Site!ApproveAddition, Site!LoadClosure, Site!LoadChange, Site!RefuseTarget, Site!ClearPrimary,
      Site!ApplyToSite, Site!LoadProvision, Site!ProvisionSite
<1>5. siteReq[q].pc \in Deciding /\ siteReq[q].seen \in Site!Open
  BY <1>t, <1>4 DEF Site!SaveStatus, SiteSlot, Deciding
<1>6. siteReq[q].r = r
  BY <1>t, <1>4 DEF Site!SaveStatus, SiteRequests
<1>7. siteReq'[q] = Site!Idle
  BY <1>4, SiteReqUpdate, SiteRest DEF Site!SaveStatus, SitesInv
<1> QED BY <1>5, <1>6, <1>7

\* Whatever the sites, the requests for them and the handlers in flight: a tenant that
\* has a primary site keeps one at every step but for those Sites names; a site request
\* is decided once, and becomes one site at most (createSite, updateSite, deleteSite,
\* approveSiteRequest, provisionSiteRequest).
THEOREM SitesAreSettled == AdministrationSpec => SitesSettled
<1>1. SitesInv => Site!ProvisionedOnce
  BY SettledRequests
<1>2. SitesInv /\ [Site!Next]_(Site!vars) => [Site!KeepsPrimary]_(Site!vars)
  BY SitesStep DEF SitesKept
<1>3. SitesInv /\ [Site!Next]_(Site!vars) =>
        [\A r \in SiteReqs :
           sreq[r].status \in {"Approved", "Rejected"} /\ sreq'[r].status # sreq[r].status =>
             \E q \in Requests :
               siteReq[q].r = r /\ siteReq[q].seen \in Site!Open /\ siteReq'[q] = Site!Idle]_(Site!vars)
  BY DecisionStep
<1> QED BY <1>1, <1>2, <1>3, SitesInvariant, SitesWithin, PTL
        DEF SitesSettled, Site!PrimaryKept, Site!RequestsSettled, Site!DecisionStands, Site!Spec

-----------------------------------------------------------------------------
(* The finding of an audit.  What a handler of it will save is what it does: a save of *)
(* a finding that did not change since it was loaded leaves what was assigned.         *)

FindSlot(r) ==
  /\ r.pc = "edit" => r.now.review = r.was.review /\ r.now.issue = r.was.issue
  /\ r.pc = "submit" => r.now.issue = (IF r.now.review = Find!Pending THEN Find!Pending ELSE "Ready to Issue")
  /\ r.pc = "approve" => r.now.review # Find!Pending /\ r.now.issue = "Ready to Issue"
  /\ r.pc = "return" => r.now.review # Find!Pending /\ r.now.issue \in {"Revision Requested", "Rejected"}
  /\ r.pc = "issue" => /\ r.now.issue = "Issued" /\ r.now.review = r.was.review
                       /\ r.was.issue = "Ready to Issue" \/ (r.was.issue = "Draft" /\ r.free)
  /\ r.pc = "route" => /\ r.now.issue = "Follow-up Created" /\ r.now.review = r.was.review
                       /\ \/ r.was.nc = NoRecord /\ r.now.imp = r.was.imp
                          \/ r.was.imp = NoRecord /\ r.now.nc = r.was.nc
  /\ r.pc \notin {"idle", "route"} => r.now.nc = r.was.nc /\ r.now.imp = r.was.imp
  /\ r.pc = "create nc" => r.was.nc = NoRecord
  /\ r.pc = "create imp" => r.was.imp = NoRecord

FindSlots == \A q \in Requests : FindSlot(findingReq[q])

\* Nobody works on a finding that is not there, and none came of it.
NoRecordYet ==
  finding = Find!NoFinding =>
    (\A q \in Requests : findingReq[q] = Find!Idle) /\ (\A r \in Raised : record[r] = "absent")

ReadyCleared ==
  "stale" \notin mixed /\ finding # Find!NoFinding /\ finding.issue \in {"Ready to Issue", "Issued"} => cleared

FindInv == Find!TypeOK /\ FindSlots /\ NoRecordYet /\ ReadyCleared /\ Find!PendingForAll /\ Find!RoutedOnce

FindForms ==
  {Find!Idle} \cup
  [pc : {"edit", "submit", "approve", "return", "issue", "create nc", "create imp", "route"},
   was : Find!Rows, now : Find!Rows, free : BOOLEAN]

LEMMA FindTyped ==
  ASSUME FindInv
  PROVE  /\ findingReq \in [Requests -> FindForms] /\ finding \in Find!Rows \cup {Find!NoFinding}
         /\ Find!NoFinding \notin Find!Rows
         /\ mandatory \in BOOLEAN /\ cleared \in BOOLEAN /\ mixed \subseteq {"stale", "early", "died"}
         /\ record \in [Raised -> {"absent", "nc", "imp"}]
BY DEF FindInv, Find!TypeOK, FindForms, Find!NoFinding, Find!Rows, Find!Types

LEMMA FindIdle == Find!Idle \in FindForms /\ Find!Idle.pc = "idle" /\ FindSlot(Find!Idle)
BY DEF Find!Idle, FindForms, FindSlot

LEMMA InitFindInv == ASSUME Find!Init PROVE FindInv
<1>1. Find!TypeOK
  BY DEF Find!Init, Find!TypeOK
<1>2. FindSlots
  BY FindIdle DEF Find!Init, FindSlots
<1>3. NoRecordYet /\ ReadyCleared /\ Find!PendingForAll /\ Find!RoutedOnce
  BY DEF Find!Init, NoRecordYet, ReadyCleared, Find!PendingForAll, Find!RoutedOnce
<1> QED BY <1>1, <1>2, <1>3 DEF FindInv

\* A handler loads the finding.
LEMMA FindLoads ==
  ASSUME FindInv, NEW q \in Requests, Find!Ready(q), NEW s \in FindForms, s.pc # "route", FindSlot(s),
         Find!Move(q, s), UNCHANGED <<finding, mandatory, record, cleared, mixed>>
  PROVE  FindInv'
<1>1. findingReq \in [Requests -> FindForms] /\ findingReq[q].pc = "idle" /\ finding # Find!NoFinding
  BY FindTyped, FindIdle DEF Find!Ready
<1>2. /\ findingReq' \in [Requests -> FindForms] /\ findingReq'[q] = s
      /\ \A p \in Requests : p # q => findingReq'[p] = findingReq[p]
  BY <1>1 DEF Find!Move
<1>3. Find!TypeOK'
  BY <1>2 DEF FindInv, Find!TypeOK, FindForms
<1>4. FindSlots'
  BY <1>2 DEF FindInv, FindSlots
<1>5. NoRecordYet' /\ ReadyCleared' /\ Find!PendingForAll'
  BY <1>1 DEF FindInv, NoRecordYet, ReadyCleared, Find!PendingForAll
<1>6. Find!RoutedOnce'
  BY <1>1, <1>2 DEF FindInv, Find!RoutedOnce
<1> QED BY <1>3, <1>4, <1>5, <1>6 DEF FindInv

LEMMA FindLoad ==
  ASSUME FindInv, NEW q \in Requests, Find!Ready(q), NEW now \in Find!Rows,
         NEW pc \in {"edit", "submit", "approve", "return", "issue", "create nc", "create imp"},
         Find!Load(q, pc, now), FindSlot(Find!Slot(pc, finding, now))
  PROVE  FindInv'
<1>1. finding \in Find!Rows /\ mandatory \in BOOLEAN
  BY FindTyped DEF Find!Ready
<1>2. Find!Slot(pc, finding, now) \in FindForms /\ Find!Slot(pc, finding, now).pc # "route"
  BY <1>1 DEF Find!Slot, FindForms
<1>3. PICK s \in FindForms : s = Find!Slot(pc, finding, now) /\ s.pc # "route" /\ FindSlot(s)
  BY <1>2
<1>4. Find!Move(q, s) /\ UNCHANGED <<finding, mandatory, record, cleared, mixed>>
  BY <1>3 DEF Find!Load
<1> QED BY <1>3, <1>4, FindLoads

LEMMA FindLoadsInv ==
  ASSUME FindInv, NEW q \in Requests,
         \/ Find!LoadIssue(q) \/ Find!LoadRoute(q)
         \/ \E type \in Find!Types :
              \/ Find!LoadEdit(q, type) \/ Find!LoadSubmit(q, type) \/ Find!LoadApprove(q, type)
              \/ \E decision \in {"Revision Requested", "Rejected"} : Find!LoadReturn(q, type, decision)
  PROVE  FindInv'
<1>1. Find!Ready(q)
  BY DEF Find!LoadIssue, Find!LoadRoute, Find!LoadEdit, Find!LoadSubmit, Find!LoadApprove, Find!LoadReturn
<1>2. finding \in Find!Rows /\ mandatory \in BOOLEAN
  BY <1>1, FindTyped DEF Find!Ready
<1>3. CASE Find!LoadIssue(q)
  <2> DEFINE now == [finding EXCEPT !.issue = "Issued"]
  <2>1. now \in Find!Rows
    BY <1>2 DEF Find!Rows
  <2>2. FindSlot(Find!Slot("issue", finding, now))
    BY <1>2, <1>3 DEF Find!LoadIssue, Find!Slot, FindSlot, Find!Rows
  <2>3. Find!Load(q, "issue", now)
    BY <1>3 DEF Find!LoadIssue
  <2> QED BY <1>1, <2>1, <2>2, <2>3, FindLoad
<1>4. CASE Find!LoadRoute(q)
  <2>1. PICK pc \in {"create nc", "create imp"} :
          /\ Find!Load(q, pc, finding)
          /\ pc = "create nc" => finding.nc = NoRecord
          /\ pc = "create imp" => finding.imp = NoRecord
    BY <1>4 DEF Find!LoadRoute
  <2>2. FindSlot(Find!Slot(pc, finding, finding))
    BY <2>1 DEF Find!Slot, FindSlot
  <2> QED BY <1>1, <1>2, <2>1, <2>2, FindLoad
<1>5. ASSUME NEW type \in Find!Types, Find!LoadEdit(q, type) PROVE FindInv'
  <2> DEFINE now == [finding EXCEPT !.type = type]
  <2>1. now \in Find!Rows
    BY <1>2 DEF Find!Rows
  <2>2. FindSlot(Find!Slot("edit", finding, now))
    BY <1>2 DEF Find!Slot, FindSlot, Find!Rows
  <2>3. Find!Load(q, "edit", now)
    BY <1>5 DEF Find!LoadEdit
  <2> QED BY <1>1, <2>1, <2>2, <2>3, FindLoad
<1>6. ASSUME NEW type \in Find!Types, Find!LoadSubmit(q, type) PROVE FindInv'
  <2> DEFINE now == Find!Submitted([finding EXCEPT !.type = type])
  <2>1. now \in Find!Rows
    BY <1>2 DEF Find!Submitted, Find!Rows, Find!Pending
  <2>2. FindSlot(Find!Slot("submit", finding, now))
    BY <1>2 DEF Find!Slot, Find!Submitted, FindSlot, Find!Rows, Find!Pending
  <2>3. Find!Load(q, "submit", now)
    BY <1>6 DEF Find!LoadSubmit
  <2> QED BY <1>1, <2>1, <2>2, <2>3, FindLoad
<1>7. ASSUME NEW type \in Find!Types, Find!LoadApprove(q, type) PROVE FindInv'
  <2> DEFINE now == [finding EXCEPT !.type = type, !.review = "Approved", !.issue = "Ready to Issue"]
  <2>1. now \in Find!Rows
    BY <1>2 DEF Find!Rows
  <2>2. FindSlot(Find!Slot("approve", finding, now))
    BY <1>2 DEF Find!Slot, FindSlot, Find!Rows, Find!Pending
  <2>3. Find!Load(q, "approve", now)
    BY <1>7 DEF Find!LoadApprove
  <2> QED BY <1>1, <2>1, <2>2, <2>3, FindLoad
<1>8. ASSUME NEW type \in Find!Types, NEW decision \in {"Revision Requested", "Rejected"},
             Find!LoadReturn(q, type, decision)
      PROVE  FindInv'
  <2> DEFINE now == [finding EXCEPT !.type = type, !.review = decision, !.issue = decision]
  <2>1. now \in Find!Rows
    BY <1>2 DEF Find!Rows
  <2>2. FindSlot(Find!Slot("return", finding, now))
    BY <1>2 DEF Find!Slot, FindSlot, Find!Rows, Find!Pending
  <2>3. Find!Load(q, "return", now)
    BY <1>8 DEF Find!LoadReturn
  <2> QED BY <1>1, <2>1, <2>2, <2>3, FindLoad
<1> QED BY <1>3, <1>4, <1>5, <1>6, <1>7, <1>8

LEMMA FindCreateInv ==
  ASSUME FindInv, NEW type \in Find!Types, NEW submit \in BOOLEAN, Find!Create(type, submit)
  PROVE  FindInv'
<1> DEFINE draft == Find!Row(type, "Not Required", "Draft")
           row == IF submit THEN Find!Submitted(draft) ELSE draft
<1>1. /\ finding = Find!NoFinding /\ finding' = row /\ cleared' = (submit /\ ~mandatory)
      /\ UNCHANGED <<mandatory, record, mixed, findingReq>>
  BY DEF Find!Create
<1>2. /\ row \in Find!Rows /\ (row.review = Find!Pending <=> row.issue = Find!Pending)
      /\ row.issue \in {"Ready to Issue", "Issued"} => submit /\ ~mandatory
  BY FindTyped DEF Find!Row, Find!Submitted, Find!Rows, Find!Pending
<1> HIDE DEF row
<1>3. Find!TypeOK'
  BY <1>1, <1>2, FindTyped DEF FindInv, Find!TypeOK
<1>4. FindSlots'
  BY <1>1 DEF FindInv, FindSlots
<1>5. NoRecordYet' /\ Find!RoutedOnce'
  BY <1>1, <1>2, FindTyped DEF FindInv, NoRecordYet, Find!RoutedOnce
<1>6. ReadyCleared' /\ Find!PendingForAll'
  BY <1>1, <1>2 DEF ReadyCleared, Find!PendingForAll
<1> QED BY <1>3, <1>4, <1>5, <1>6 DEF FindInv

\* The record of a routing: the handler's slot says which.
LEMMA FindRecordInv ==
  ASSUME FindInv, NEW q \in Requests, NEW r \in Raised, Find!CreateRecord(q, r)
  PROVE  FindInv'
<1> DEFINE c == IF findingReq[q].pc = "create nc" THEN "nc" ELSE "imp"
           now == [findingReq[q].was EXCEPT ![c] = r, !.issue = "Follow-up Created"]
           n == Find!Slot("route", findingReq[q].was, now)
<1>1. /\ findingReq[q].pc \in {"create nc", "create imp"} /\ record[r] = "absent"
      /\ record' = [record EXCEPT ![r] = c] /\ Find!Move(q, n)
      /\ UNCHANGED <<finding, mandatory, mixed, cleared>>
  BY DEF Find!CreateRecord
<1>2. findingReq[q] \in FindForms /\ FindSlot(findingReq[q]) /\ findingReq[q] # Find!Idle
  BY <1>1, FindTyped, FindIdle DEF FindInv, FindSlots
<1>3. findingReq[q].was \in Find!Rows
  BY <1>2 DEF FindForms
<1>4. now \in Find!Rows /\ now[c] = r
  BY <1>3 DEF Find!Rows
<1>5. n \in FindForms /\ n.pc = "route" /\ n.now[c] = r
  BY <1>3, <1>4 DEF Find!Slot, FindForms
<1>6. FindSlot(n)
  BY <1>1, <1>2, <1>3 DEF Find!Slot, FindSlot, Find!Rows
<1> HIDE DEF n
<1>7. PICK s \in FindForms, x \in {"nc", "imp"} :
        s = n /\ x = c /\ s.pc = "route" /\ s.now[x] = r /\ FindSlot(s)
  BY <1>5, <1>6
<1>8. record' = [record EXCEPT ![r] = x] /\ Find!Move(q, s)
  BY <1>1, <1>7
<1> HIDE DEF c
<1>9. /\ findingReq' \in [Requests -> FindForms] /\ findingReq'[q] = s
      /\ \A p \in Requests : p # q => findingReq'[p] = findingReq[p]
  BY <1>8, FindTyped DEF Find!Move
<1>10. /\ record' \in [Raised -> {"absent", "nc", "imp"}] /\ record'[r] = x
       /\ \A y \in Raised : y # r => record'[y] = record[y]
  BY <1>8, FindTyped
<1>11. Find!TypeOK'
  BY <1>1, <1>9, <1>10 DEF FindInv, Find!TypeOK, FindForms
<1>12. FindSlots'
  BY <1>7, <1>9 DEF FindInv, FindSlots
<1>13. finding # Find!NoFinding
  BY <1>2 DEF FindInv, NoRecordYet
<1>14. NoRecordYet' /\ ReadyCleared' /\ Find!PendingForAll'
  BY <1>1, <1>13 DEF FindInv, NoRecordYet, ReadyCleared, Find!PendingForAll
<1>15. Find!RoutedOnce'
  <2>1. ASSUME mixed \subseteq {"early"}, NEW y \in Raised, record'[y] # "absent"
        PROVE  \/ finding[record'[y]] = y
               \/ \E p \in Requests : findingReq'[p].pc = "route" /\ findingReq'[p].now[record'[y]] = y
    <3>1. CASE y = r
      BY <3>1, <1>7, <1>9, <1>10
    <3>2. CASE y # r
      <4>1. record'[y] = record[y]
        BY <1>10, <3>2
      <4>2. \/ finding[record[y]] = y
            \/ \E p \in Requests : findingReq[p].pc = "route" /\ findingReq[p].now[record[y]] = y
        BY <2>1, <4>1 DEF FindInv, Find!RoutedOnce
      <4>3. \A p \in Requests : findingReq[p].pc = "route" => p # q
        BY <1>1
      <4> QED BY <1>9, <4>1, <4>2, <4>3
    <3> QED BY <3>1, <3>2
  <2> QED BY <1>1, <2>1 DEF Find!RoutedOnce
<1> QED BY <1>11, <1>12, <1>14, <1>15 DEF FindInv

\* A save: the columns where the handler assigned another value than it had loaded. If
\* the finding is as it was loaded, it is what the handler assigned, but for its type.
LEMMA FindSaved ==
  ASSUME NEW row \in Find!Rows, NEW was \in Find!Rows, NEW now \in Find!Rows,
         NEW saved, saved = [c \in Find!Columns |-> Find!Changed(row[c], was[c], now[c])]
  PROVE  /\ saved \in Find!Rows
         /\ saved.review = Find!Changed(row.review, was.review, now.review)
         /\ saved.issue = Find!Changed(row.issue, was.issue, now.issue)
         /\ saved.nc = Find!Changed(row.nc, was.nc, now.nc)
         /\ saved.imp = Find!Changed(row.imp, was.imp, now.imp)
         /\ [was EXCEPT !.type = row.type] = row =>
              /\ row.review = was.review /\ row.issue = was.issue /\ row.nc = was.nc /\ row.imp = was.imp
              /\ saved.review = now.review /\ saved.issue = now.issue
              /\ saved.nc = now.nc /\ saved.imp = now.imp
<1>1. /\ saved.type = Find!Changed(row.type, was.type, now.type)
      /\ saved.review = Find!Changed(row.review, was.review, now.review)
      /\ saved.issue = Find!Changed(row.issue, was.issue, now.issue)
      /\ saved.nc = Find!Changed(row.nc, was.nc, now.nc)
      /\ saved.imp = Find!Changed(row.imp, was.imp, now.imp)
  BY DEF Find!Columns
<1>2. saved \in Find!Rows
  BY DEF Find!Columns, Find!Changed, Find!Rows
<1>3. [was EXCEPT !.type = row.type] = row =>
        row.review = was.review /\ row.issue = was.issue /\ row.nc = was.nc /\ row.imp = was.imp
  BY DEF Find!Rows
<1> QED BY <1>1, <1>2, <1>3 DEF Find!Changed

LEMMA FindSaveInv == ASSUME FindInv, NEW q \in Requests, Find!Save(q) PROVE FindInv'
<1>1. /\ findingReq[q].pc \in {"edit", "submit", "approve", "return", "issue", "route"}
      /\ finding' = [c \in Find!Columns |-> Find!Changed(finding[c], findingReq[q].was[c], findingReq[q].now[c])]
      /\ cleared' = Find!ClearedBy(q) /\ mixed' = mixed \cup Find!Mixed(q)
      /\ Find!Move(q, Find!Idle) /\ UNCHANGED <<mandatory, record>>
  BY DEF Find!Save
<1>2. /\ findingReq \in [Requests -> FindForms] /\ FindSlot(findingReq[q]) /\ findingReq[q] # Find!Idle
      /\ finding \in Find!Rows /\ finding # Find!NoFinding
  BY <1>1, FindTyped, FindIdle DEF FindInv, FindSlots, NoRecordYet
<1>3. PICK r \in FindForms : r = findingReq[q] /\ FindSlot(r) /\ r.was \in Find!Rows /\ r.now \in Find!Rows
                             /\ r.free \in BOOLEAN
  BY <1>2 DEF FindForms
<1>4. PICK row \in Find!Rows : row = finding
  BY <1>2
<1>5. /\ finding' \in Find!Rows
      /\ finding'.review = Find!Changed(row.review, r.was.review, r.now.review)
      /\ finding'.issue = Find!Changed(row.issue, r.was.issue, r.now.issue)
      /\ finding'.nc = Find!Changed(row.nc, r.was.nc, r.now.nc)
      /\ finding'.imp = Find!Changed(row.imp, r.was.imp, r.now.imp)
      /\ [r.was EXCEPT !.type = row.type] = row =>
           /\ row.review = r.was.review /\ row.issue = r.was.issue /\ row.nc = r.was.nc /\ row.imp = r.was.imp
           /\ finding'.review = r.now.review /\ finding'.issue = r.now.issue
           /\ finding'.nc = r.now.nc /\ finding'.imp = r.now.imp
  BY <1>1, <1>3, <1>4, FindSaved
<1>6. /\ mixed \subseteq mixed' /\ mixed' \subseteq {"stale", "early", "died"}
      /\ "stale" \notin mixed' /\ r.pc # "edit" => [r.was EXCEPT !.type = row.type] = row
      /\ "early" \notin mixed' /\ r.pc = "route" => r.was.issue = "Issued"
  BY <1>1, <1>3, <1>4, FindTyped DEF Find!Mixed
<1>7. cleared' \in BOOLEAN
  BY <1>1, <1>3, FindTyped DEF Find!ClearedBy
<1>8. /\ findingReq' \in [Requests -> FindForms] /\ findingReq'[q] = Find!Idle
      /\ \A p \in Requests : p # q => findingReq'[p] = findingReq[p]
  BY <1>1, <1>2, FindIdle DEF Find!Move
<1>9. Find!TypeOK'
  BY <1>1, <1>5, <1>6, <1>7, <1>8 DEF FindInv, Find!TypeOK, FindForms
<1>10. FindSlots'
  BY <1>8, FindIdle DEF FindInv, FindSlots
<1>11. finding' # Find!NoFinding
  BY <1>5, FindTyped
<1>12. NoRecordYet'
  BY <1>11 DEF NoRecordYet
<1>13. ReadyCleared'
  <2> SUFFICES ASSUME "stale" \notin mixed', finding'.issue \in {"Ready to Issue", "Issued"} PROVE cleared'
    BY DEF ReadyCleared
  <2>1. row.issue \in {"Ready to Issue", "Issued"} => cleared
    BY <1>2, <1>4, <1>6 DEF FindInv, ReadyCleared
  <2>2. r.pc # "edit" => finding'.issue = r.now.issue /\ row.issue = r.was.issue
    BY <1>5, <1>6
  <2>3. CASE r.pc = "edit"
    BY <1>1, <1>3, <1>5, <2>1, <2>3 DEF Find!ClearedBy, FindSlot, Find!Changed
  <2>4. CASE r.pc = "submit"
    BY <1>1, <1>3, <2>2, <2>4 DEF Find!ClearedBy, FindSlot, Find!Pending
  <2>5. CASE r.pc \in {"approve", "return", "route"}
    BY <1>1, <1>3, <2>2, <2>5 DEF Find!ClearedBy, FindSlot
  <2>6. CASE r.pc = "issue"
    BY <1>1, <1>3, <2>1, <2>2, <2>6 DEF Find!ClearedBy, FindSlot
  <2> QED BY <1>1, <1>3, <2>3, <2>4, <2>5, <2>6
<1>14. Find!PendingForAll'
  <2> SUFFICES ASSUME mixed' \subseteq {"died"}
               PROVE  finding'.review = Find!Pending <=> finding'.issue = Find!Pending
    BY DEF Find!PendingForAll
  <2>1. row.review = Find!Pending <=> row.issue = Find!Pending
    BY <1>2, <1>4, <1>6 DEF FindInv, Find!PendingForAll
  <2>2. r.pc # "edit" => /\ finding'.review = r.now.review /\ finding'.issue = r.now.issue
                         /\ row.review = r.was.review /\ row.issue = r.was.issue
    BY <1>5, <1>6
  <2>3. CASE r.pc = "edit"
    BY <1>3, <1>5, <2>1, <2>3 DEF FindSlot, Find!Changed
  <2>4. CASE r.pc = "submit"
    BY <1>3, <2>2, <2>4 DEF FindSlot, Find!Pending
  <2>5. CASE r.pc \in {"approve", "return"}
    BY <1>3, <2>2, <2>5 DEF FindSlot, Find!Pending
  <2>6. CASE r.pc = "issue"
    BY <1>3, <2>1, <2>2, <2>6 DEF FindSlot, Find!Pending
  <2>7. CASE r.pc = "route"
    BY <1>3, <1>6, <2>1, <2>2, <2>7 DEF FindSlot, Find!Pending
  <2> QED BY <1>1, <1>3, <2>3, <2>4, <2>5, <2>6, <2>7
<1>15. Find!RoutedOnce'
  <2>1. ASSUME mixed' \subseteq {"early"}, NEW x \in Raised, record[x] # "absent"
        PROVE  \/ finding'[record[x]] = x
               \/ \E p \in Requests : findingReq'[p].pc = "route" /\ findingReq'[p].now[record[x]] = x
    <3>c. PICK c \in {"nc", "imp"} : c = record[x]
      BY <2>1, FindTyped
    <3>1. \/ row[c] = x
          \/ \E p \in Requests : findingReq[p].pc = "route" /\ findingReq[p].now[c] = x
      BY <1>4, <1>6, <2>1, <3>c DEF FindInv, Find!RoutedOnce
    <3>2. CASE \E p \in Requests : p # q /\ findingReq[p].pc = "route" /\ findingReq[p].now[c] = x
      BY <1>8, <3>2, <3>c
    <3>3. CASE r.pc = "route" /\ r.now[c] = x
      <4>1. finding'.nc = r.now.nc /\ finding'.imp = r.now.imp
        BY <1>5, <1>6, <2>1, <3>3
      <4>2. finding'[c] = r.now[c]
        BY <4>1
      <4> QED BY <3>3, <3>c, <4>2
    <3>4. CASE row[c] = x
      <4>0. x # NoRecord
        BY AdministrationAssumption
      <4>1. CASE r.pc = "edit"
        <5>1. finding'.nc = row.nc /\ finding'.imp = row.imp
          BY <1>3, <1>5, <4>1 DEF FindSlot, Find!Changed
        <5> QED BY <3>4, <3>c, <5>1
      <4>2. CASE r.pc # "edit"
        <5>1. /\ finding'.nc = r.now.nc /\ finding'.imp = r.now.imp
              /\ row.nc = r.was.nc /\ row.imp = r.was.imp
          BY <1>5, <1>6, <2>1, <4>2
        <5>2. \/ r.now.nc = r.was.nc /\ r.now.imp = r.was.imp
              \/ r.was.nc = NoRecord /\ r.now.imp = r.was.imp
              \/ r.was.imp = NoRecord /\ r.now.nc = r.was.nc
          BY <1>1, <1>3 DEF FindSlot
        <5>3. finding'[c] = x
          BY <3>4, <4>0, <5>1, <5>2
        <5> QED BY <3>c, <5>3
      <4> QED BY <4>1, <4>2
    <3> QED BY <1>3, <3>1, <3>2, <3>3, <3>4
  <2> QED BY <1>1, <2>1 DEF Find!RoutedOnce
<1> QED BY <1>9, <1>10, <1>12, <1>13, <1>14, <1>15 DEF FindInv

LEMMA FindCrashInv == ASSUME FindInv, NEW q \in Requests, Find!Crash(q) PROVE FindInv'
<1>1. /\ findingReq[q].pc # "idle" /\ Find!Move(q, Find!Idle)
      /\ mixed' = (IF findingReq[q].pc = "route" THEN mixed \cup {"died"} ELSE mixed)
      /\ UNCHANGED <<finding, mandatory, record, cleared>>
  BY DEF Find!Crash
<1>2. /\ findingReq' \in [Requests -> FindForms] /\ findingReq'[q] = Find!Idle
      /\ \A p \in Requests : p # q => findingReq'[p] = findingReq[p]
  BY <1>1, FindTyped, FindIdle DEF Find!Move
<1>3. mixed' \subseteq {"stale", "early", "died"} /\ mixed \subseteq mixed'
      /\ (findingReq[q].pc = "route" => "died" \in mixed')
  BY <1>1, FindTyped
<1>4. Find!TypeOK'
  BY <1>1, <1>2, <1>3 DEF FindInv, Find!TypeOK, FindForms
<1>5. FindSlots'
  BY <1>2, FindIdle DEF FindInv, FindSlots
<1>6. finding # Find!NoFinding
  BY <1>1, FindIdle DEF FindInv, NoRecordYet
<1>7. NoRecordYet' /\ ReadyCleared' /\ Find!PendingForAll'
  BY <1>1, <1>3, <1>6 DEF FindInv, NoRecordYet, ReadyCleared, Find!PendingForAll
<1>8. Find!RoutedOnce'
  BY <1>1, <1>2, <1>3 DEF FindInv, Find!RoutedOnce
<1> QED BY <1>4, <1>5, <1>7, <1>8 DEF FindInv

LEMMA FindStandsInv ==
  ASSUME FindInv, mandatory' \in BOOLEAN, UNCHANGED <<finding, record, cleared, mixed, findingReq>>
  PROVE  FindInv'
<1>1. Find!TypeOK'
  BY DEF FindInv, Find!TypeOK
<1>2. FindSlots' /\ NoRecordYet' /\ ReadyCleared' /\ Find!PendingForAll' /\ Find!RoutedOnce'
  BY DEF FindInv, FindSlots, NoRecordYet, ReadyCleared, Find!PendingForAll, Find!RoutedOnce
<1> QED BY <1>1, <1>2 DEF FindInv

\* The finding evolves by its own steps, or stands still.
LEMMA FindingWithin == AdministrationSpec => Find!Spec
<1>1. AdministrationInit => Find!Init
  BY DEF AdministrationInit
<1>2. [AdministrationNext]_administration => [Find!Next]_(Find!vars)
  BY DEF AdministrationNext, administration, audit, Find!vars
<1> QED BY <1>1, <1>2, PTL DEF AdministrationSpec, Find!Spec

LEMMA FindingInvariant == AdministrationSpec => []FindInv
<1>1. ASSUME FindInv, [Find!Next]_(Find!vars) PROVE FindInv'
  <2>1. CASE UNCHANGED Find!vars
    BY <1>1, <2>1, FindTyped, FindStandsInv DEF Find!vars
  <2>2. CASE Find!SetMandatory
    <3>1. mandatory' \in BOOLEAN /\ UNCHANGED <<finding, record, cleared, mixed, findingReq>>
      BY <1>1, <2>2, FindTyped DEF Find!SetMandatory
    <3> QED BY <1>1, <3>1, FindStandsInv
  <2>3. CASE \E type \in Find!Types, submit \in BOOLEAN : Find!Create(type, submit)
    BY <1>1, <2>3, FindCreateInv
  <2>4. ASSUME NEW q \in Requests, NEW r \in Raised, Find!CreateRecord(q, r) PROVE FindInv'
    BY <1>1, <2>4, FindRecordInv
  <2>5. ASSUME NEW q \in Requests, Find!Save(q) \/ Find!Crash(q) PROVE FindInv'
    BY <1>1, <2>5, FindSaveInv, FindCrashInv
  <2> QED BY <1>1, <2>1, <2>2, <2>3, <2>4, <2>5, FindLoadsInv DEF Find!Next
<1> QED BY <1>1, InitFindInv, FindingWithin, PTL DEF Find!Spec

\* However many work on a finding at once, and whenever the setting is switched: it is
\* issued only if what was submitted last was approved or needed no approval, it is
\* pending for everybody or for nobody, and every record created from it is named by it
\* (submitFinding, reviewFinding, issueFinding, routeFinding), but for the overlaps and
\* crashes AuditFinding names.
THEOREM FindingIsSound == AdministrationSpec => []FindingSound
<1>1. FindInv => FindingSound
  BY DEF FindInv, ReadyCleared, FindingSound, Find!FindingSound, Find!IssuedCleared
<1> QED BY <1>1, FindingInvariant, PTL

-----------------------------------------------------------------------------
(***************************************************************************)
(* The tree of units (OrgUnits), for any number of units, tiers and        *)
(* requests in flight.                                                     *)
(***************************************************************************)
UnitTrees == [Units -> Unit!Rows \cup {Unit!Gone}]

\* Sets of units that have the sub-units of u and of each of their members.
Closed(t, u, S) ==
  /\ S \subseteq Unit!Present(t)
  /\ Unit!Children(t, u) \subseteq S
  /\ \A w \in S : Unit!Children(t, w) \subseteq S

LEMMA UnitGone == Unit!Gone \notin Unit!Rows /\ Unit!Gone.parent = NoUnit
<1>1. DOMAIN Unit!Gone = {"parent"}
  BY DEF Unit!Gone
<1>2. \A r \in Unit!Rows : DOMAIN r = {"parent", "tier", "appt"}
  BY DEF Unit!Rows
<1>3. "tier" \notin {"parent"}
  OBVIOUS
<1> QED BY <1>1, <1>2, <1>3 DEF Unit!Gone

LEMMA UnitRow ==
  ASSUME NEW t \in UnitTrees, NEW u \in Units
  PROVE  /\ t[u].parent \in Units \cup {NoUnit}
         /\ u \in Unit!Present(t) <=> ~Unit!Absent(t, u)
         /\ u \in Unit!Present(t) <=> t[u] \in Unit!Rows
BY UnitGone DEF UnitTrees, Unit!Present, Unit!Absent, Unit!Rows

LEMMA BelowClosed ==
  ASSUME NEW t, NEW u
  PROVE  Closed(t, u, Unit!Below(t, u))
BY DEF Closed, Unit!Below, Unit!Children

LEMMA BelowLeast ==
  ASSUME NEW t, NEW u, NEW S, Closed(t, u, S)
  PROVE  Unit!Below(t, u) \subseteq S
BY DEF Closed, Unit!Below

LEMMA BelowParent ==
  ASSUME NEW t, NEW u, NEW v \in Unit!Below(t, u)
  PROVE  v \in Unit!Present(t) /\ (t[v].parent = u \/ t[v].parent \in Unit!Below(t, u))
<1> DEFINE S == {x \in Unit!Below(t, u) : t[x].parent = u \/ t[x].parent \in Unit!Below(t, u)}
<1>1. Closed(t, u, S)
  BY BelowClosed DEF Closed, Unit!Children
<1>2. v \in S
  BY <1>1, BelowLeast
<1> QED BY <1>2 DEF Unit!Below

-----------------------------------------------------------------------------
LEMMA LowestNumber == ASSUME NEW T, T \subseteq Nat, T # {} PROVE \E x \in T : \A y \in T : x <= y
<1> DEFINE R == OpToRel(<, Nat)
<1>1. IsWellFoundedOn(R, Nat)
  BY NatLessThanWellFounded
<1>2. \A x, y \in Nat : y < x => <<y, x>> \in R
  BY DEF OpToRel
<1> HIDE DEF R
<1>3. PICK x \in T : \A y \in T : ~ (<<y, x>> \in R)
  BY <1>1, WFMin
<1>4. \A y \in T : ~(y < x)
  BY <1>2, <1>3, Zenon
<1>5. \A y \in T : x <= y
  BY <1>4
<1> QED BY <1>5

\* One step of depthOf, for every unit at once: h is what the steps before it counted.
Climb(t, h) == [x \in Units |-> IF t[x].parent = NoUnit THEN 0 ELSE 1 + h[t[x].parent]]

Climbs(t, k, g) ==
  /\ g \in [0..k -> [Units -> Nat]]
  /\ g[0] = [x \in Units |-> 0]
  /\ \A n \in 1..k : g[n] = Climb(t, g[n - 1])

LEMMA ClimbType ==
  ASSUME NEW t \in UnitTrees, NEW h \in [Units -> Nat]
  PROVE  Climb(t, h) \in [Units -> Nat]
<1>1. ASSUME NEW x \in Units PROVE (IF t[x].parent = NoUnit THEN 0 ELSE 1 + h[t[x].parent]) \in Nat
  BY UnitRow
<1> QED BY <1>1 DEF Climb

LEMMA ClimbsExist ==
  ASSUME NEW t \in UnitTrees, NEW k \in Nat
  PROVE  \E g : Climbs(t, k, g)
<1> DEFINE T == {n \in Nat : ~\E g : Climbs(t, n, g)}
<1>1. SUFFICES ASSUME T # {} PROVE FALSE
  OBVIOUS
<1>2. PICK n \in T : \A m \in T : n <= m
  BY <1>1, LowestNumber
<1>3. CASE n = 0
  <2>1. Climbs(t, 0, [i \in 0..0 |-> [x \in Units |-> 0]])
    BY DEF Climbs
  <2> QED BY <1>2, <1>3, <2>1
<1>4. CASE n # 0
  <2>1. n \in Nat /\ n - 1 \in Nat /\ n - 1 \notin T
    BY <1>2, <1>4
  <2>2. PICK g : Climbs(t, n - 1, g)
    BY <2>1
  <2>3. PICK h : h = [i \in 0..n |-> IF i = n THEN Climb(t, g[n - 1]) ELSE g[i]]
    OBVIOUS
  <2>4. g \in [0..(n - 1) -> [Units -> Nat]] /\ g[n - 1] \in [Units -> Nat]
    BY <2>1, <2>2 DEF Climbs
  <2>5. Climb(t, g[n - 1]) \in [Units -> Nat]
    BY <2>4, ClimbType
  <2>6. h \in [0..n -> [Units -> Nat]]
    BY <2>1, <2>3, <2>4, <2>5
  <2>7. h[0] = [x \in Units |-> 0]
    BY <1>4, <2>1, <2>2, <2>3 DEF Climbs
  <2>8. \A i \in 1..n : h[i] = Climb(t, h[i - 1])
    BY <2>1, <2>2, <2>3 DEF Climbs
  <2>9. Climbs(t, n, h)
    BY <2>6, <2>7, <2>8 DEF Climbs
  <2> QED BY <1>2, <2>9
<1> QED BY <1>3, <1>4

\* What DepthOf is: the last of the steps it takes.
LEMMA DepthClimbs ==
  ASSUME NEW t \in UnitTrees
  PROVE  \E g : /\ Climbs(t, Unit!Guard, g)
                /\ \A u \in Units : Unit!DepthOf(t, u) = g[Unit!Guard][u]
<1> DEFINE up == CHOOSE g : g = [n \in 0 .. Unit!Guard |->
                   [x \in Units |-> IF n = 0 \/ t[x].parent = NoUnit THEN 0 ELSE 1 + g[n - 1][t[x].parent]]]
<1>1. \A u : Unit!DepthOf(t, u) = up[Unit!Guard][u]
  BY DEF Unit!DepthOf
<1>2. Unit!Guard \in Nat
  BY AdministrationAssumption DEF Unit!Guard
<1>3. PICK g : Climbs(t, Unit!Guard, g)
  BY <1>2, ClimbsExist
<1>4. g = [n \in 0 .. Unit!Guard |->
                   [x \in Units |-> IF n = 0 \/ t[x].parent = NoUnit THEN 0 ELSE 1 + g[n - 1][t[x].parent]]]
  <2>1. ASSUME NEW n \in 0 .. Unit!Guard
        PROVE  g[n] = [x \in Units |-> IF n = 0 \/ t[x].parent = NoUnit THEN 0 ELSE 1 + g[n - 1][t[x].parent]]
    <3>1. CASE n = 0
      BY <1>3, <3>1 DEF Climbs
    <3>2. CASE n # 0
      <4>1. n \in 1 .. Unit!Guard
        BY <1>2, <3>2
      <4> QED BY <1>3, <3>2, <4>1 DEF Climbs, Climb
    <3> QED BY <3>1, <3>2
  <2>2. g \in [0 .. Unit!Guard -> [Units -> Nat]]
    BY <1>3 DEF Climbs
  <2> QED BY <2>1, <2>2
<1>5. up = [n \in 0 .. Unit!Guard |->
                   [x \in Units |-> IF n = 0 \/ t[x].parent = NoUnit THEN 0 ELSE 1 + up[n - 1][t[x].parent]]]
  BY <1>4
<1> HIDE DEF up
<1>6. \A n \in 0 .. Unit!Guard : up[n] = g[n]
  <2> DEFINE T == {n \in 0 .. Unit!Guard : up[n] # g[n]}
  <2>1. SUFFICES ASSUME T # {} PROVE FALSE
    OBVIOUS
  <2>2. T \subseteq Nat
    OBVIOUS
  <2>3. PICK n \in T : \A m \in T : n <= m
    BY <2>1, <2>2, LowestNumber
  <2>4. CASE n = 0
    <3>1. up[n] = [x \in Units |-> 0]
      BY <1>5, <2>3, <2>4
    <3> QED BY <1>3, <2>3, <2>4, <3>1 DEF Climbs
  <2>5. CASE n # 0
    <3>1. n - 1 \in 0 .. Unit!Guard /\ n - 1 \notin T
      BY <1>2, <2>3, <2>5
    <3>2. up[n - 1] = g[n - 1]
      BY <3>1
    <3>3. up[n] = [x \in Units |-> IF n = 0 \/ t[x].parent = NoUnit THEN 0 ELSE 1 + up[n - 1][t[x].parent]]
      BY <1>5, <2>3
    <3>4. g[n] = [x \in Units |-> IF n = 0 \/ t[x].parent = NoUnit THEN 0 ELSE 1 + g[n - 1][t[x].parent]]
      BY <1>4, <2>3
    <3> QED BY <2>3, <3>2, <3>3, <3>4
  <2> QED BY <2>4, <2>5
<1> QED BY <1>1, <1>2, <1>3, <1>6

\* f[u] is the number of units above u.
Ranks(t, f) ==
  /\ f \in [Units -> Nat]
  /\ \A u \in Unit!Present(t) :
       /\ t[u].parent = NoUnit \/ t[u].parent \in Unit!Present(t)
       /\ f[u] = IF t[u].parent = NoUnit THEN 0 ELSE f[t[u].parent] + 1

LEMMA DepthType ==
  ASSUME NEW t \in UnitTrees, NEW u \in Units
  PROVE  Unit!DepthOf(t, u) \in Nat /\ Unit!Guard \in Nat /\ Unit!Guard > Tiers /\ Tiers \in Nat \ {0}
<1>1. Unit!Guard \in Nat /\ Unit!Guard > Tiers /\ Tiers \in Nat \ {0}
  BY AdministrationAssumption DEF Unit!Guard
<1>2. PICK g : Climbs(t, Unit!Guard, g) /\ Unit!DepthOf(t, u) = g[Unit!Guard][u]
  BY DepthClimbs
<1> QED BY <1>1, <1>2 DEF Climbs

\* depthOf counts the units above, up to its guard.
LEMMA DepthRank ==
  ASSUME NEW t \in UnitTrees, NEW f, Ranks(t, f), NEW u \in Unit!Present(t)
  PROVE  Unit!DepthOf(t, u) = IF f[u] <= Unit!Guard THEN f[u] ELSE Unit!Guard
<1>1. PICK g : Climbs(t, Unit!Guard, g) /\ \A x \in Units : Unit!DepthOf(t, x) = g[Unit!Guard][x]
  BY DepthClimbs
<1>2. Unit!Guard \in Nat
  BY AdministrationAssumption DEF Unit!Guard
<1> DEFINE Counted(n) == \A x \in Unit!Present(t) : g[n][x] = IF f[x] <= n THEN f[x] ELSE n
           T == {n \in 0 .. Unit!Guard : ~Counted(n)}
<1>3. SUFFICES ASSUME T # {} PROVE FALSE
  BY <1>1, <1>2 DEF Unit!Present
<1>4. T \subseteq Nat
  OBVIOUS
<1>5. PICK n \in T : \A m \in T : n <= m
  BY <1>3, <1>4, LowestNumber
<1>6. CASE n = 0
  BY <1>1, <1>5, <1>6 DEF Climbs, Ranks, Unit!Present
<1>7. CASE n # 0
  <2>1. n \in 1 .. Unit!Guard /\ n - 1 \in 0 .. Unit!Guard /\ n - 1 \notin T
    BY <1>2, <1>5, <1>7
  <2>2. Counted(n - 1)
    BY <2>1
  <2>3. g[n] = Climb(t, g[n - 1])
    BY <1>1, <2>1 DEF Climbs
  <2>4. ASSUME NEW x \in Unit!Present(t) PROVE g[n][x] = IF f[x] <= n THEN f[x] ELSE n
    <3>1. x \in Units /\ f[x] \in Nat
      BY <2>4 DEF Ranks, Unit!Present
    <3>2. CASE t[x].parent = NoUnit
      BY <2>1, <2>3, <2>4, <3>1, <3>2 DEF Climb, Ranks
    <3>3. CASE t[x].parent # NoUnit
      <4>1. PICK p \in Unit!Present(t) : p = t[x].parent
        BY <2>4, <3>3 DEF Ranks
      <4>2. f[x] = f[p] + 1 /\ f[p] \in Nat
        BY <2>4, <3>3, <4>1 DEF Ranks, Unit!Present
      <4>3. g[n - 1][p] = IF f[p] <= n - 1 THEN f[p] ELSE n - 1
        BY <2>2, <4>1
      <4>4. g[n][x] = 1 + g[n - 1][p]
        BY <2>3, <3>1, <3>3, <4>1 DEF Climb
      <4> QED BY <2>1, <4>2, <4>3, <4>4
    <3> QED BY <3>2, <3>3
  <2> QED BY <1>5, <2>4
<1> QED BY <1>6, <1>7
-----------------------------------------------------------------------------
\* No unit hangs below one that is not there, or below itself.
Hung(t) == \A v \in Unit!Present(t) : t[v].parent = NoUnit \/ t[v].parent \in Unit!Present(t)

Acyclic(t) == \A v \in Unit!Present(t) : v \notin Unit!Below(t, v)

SameParents(t, s) ==
  /\ Unit!Present(s) = Unit!Present(t)
  /\ \A v \in Unit!Present(t) : s[v].parent = t[v].parent

LEMMA SameTree ==
  ASSUME NEW t, NEW s, SameParents(t, s)
  PROVE  (Hung(t) => Hung(s)) /\ (Acyclic(t) => Acyclic(s))
<1>1. \A w : Unit!Children(s, w) = Unit!Children(t, w)
  BY DEF SameParents, Unit!Children
<1>2. \A w : Unit!Below(s, w) = Unit!Below(t, w)
  BY <1>1 DEF SameParents, Unit!Below
<1> QED BY <1>2 DEF SameParents, Hung, Acyclic

\* A unit is inserted: a leaf.
LEMMA InsertTree ==
  ASSUME NEW t \in UnitTrees, Hung(t), NEW u \in Units, Unit!Absent(t, u),
         NEW row \in Unit!Rows, row.parent = NoUnit \/ row.parent \in Unit!Present(t),
         NEW s, s = [t EXCEPT ![u] = row]
  PROVE  /\ s \in UnitTrees /\ Hung(s)
         /\ Unit!Present(s) = Unit!Present(t) \cup {u}
         /\ Acyclic(t) => Acyclic(s)
<1>1. s \in UnitTrees
  BY DEF UnitTrees
<1>2. Unit!Present(s) = Unit!Present(t) \cup {u} /\ u \notin Unit!Present(t)
  BY UnitGone DEF UnitTrees, Unit!Present, Unit!Absent
<1>3. /\ \A v \in Unit!Present(t) : s[v] = t[v]
      /\ s[u] = row
  BY <1>2 DEF UnitTrees, Unit!Present
<1>4. NoUnit \notin Units /\ Unit!Present(t) \subseteq Units
  BY AdministrationAssumption DEF Unit!Present
<1>5. Hung(s)
  BY <1>2, <1>3 DEF Hung
<1>6. Unit!Children(s, u) = {}
  BY <1>2, <1>3, <1>4 DEF Hung, Unit!Children
<1>7. \A w : Unit!Children(s, w) \subseteq Unit!Children(t, w) \cup {u}
  BY <1>2, <1>3 DEF Unit!Children
<1>8. ASSUME Acyclic(t), NEW x \in Unit!Present(s) PROVE x \notin Unit!Below(s, x)
  <2>1. CASE x = u
    <3>1. Closed(s, u, {})
      BY <1>6 DEF Closed
    <3> QED BY <2>1, <3>1, BelowLeast
  <2>2. CASE x # u
    <3>1. x \notin Unit!Below(t, x) \cup {u}
      BY <1>2, <1>8, <2>2 DEF Acyclic
    <3>2. Closed(s, x, Unit!Below(t, x) \cup {u})
      BY <1>2, <1>6, <1>7, BelowClosed DEF Closed
    <3> QED BY <3>1, <3>2, BelowLeast
  <2> QED BY <2>1, <2>2
<1> QED BY <1>1, <1>2, <1>5, <1>8 DEF Acyclic

\* A unit is deleted with all below it.
LEMMA DestroyTree ==
  ASSUME NEW t \in UnitTrees, Hung(t), NEW u \in Units,
         NEW s, s = [v \in Units |-> IF v \in Unit!Subtree(t, u) THEN Unit!Gone ELSE t[v]]
  PROVE  /\ s \in UnitTrees /\ Hung(s)
         /\ Unit!Present(s) = Unit!Present(t) \ Unit!Subtree(t, u)
         /\ Acyclic(t) => Acyclic(s)
<1>1. s \in UnitTrees
  BY DEF UnitTrees
<1>2. /\ Unit!Present(s) = Unit!Present(t) \ Unit!Subtree(t, u)
      /\ \A v \in Unit!Present(s) : s[v] = t[v]
  BY DEF Unit!Present
<1>3. \A v \in Unit!Present(t) : t[v].parent \in Unit!Subtree(t, u) => v \in Unit!Subtree(t, u)
  BY BelowClosed DEF Closed, Unit!Children, Unit!Subtree
<1>4. Hung(s)
  BY <1>2, <1>3 DEF Hung
<1>5. \A w : Unit!Children(s, w) \subseteq Unit!Children(t, w)
  BY <1>2 DEF Unit!Children
<1>6. ASSUME Acyclic(t), NEW x \in Unit!Present(s) PROVE x \notin Unit!Below(s, x)
  <2>1. Closed(s, x, Unit!Below(t, x) \cap Unit!Present(s))
    BY <1>5, BelowClosed DEF Closed, Unit!Children
  <2>2. x \notin Unit!Below(t, x)
    BY <1>2, <1>6 DEF Acyclic
  <2> QED BY <2>1, <2>2, BelowLeast
<1> QED BY <1>1, <1>2, <1>4, <1>6 DEF Acyclic

\* A unit is hung elsewhere, not below itself.
LEMMA MoveTree ==
  ASSUME NEW t, Hung(t), Acyclic(t), NEW u \in Unit!Present(t), NEW p,
         p = NoUnit \/ (p \in Unit!Present(t) /\ p \notin Unit!Subtree(t, u)),
         NEW s, Unit!Present(s) = Unit!Present(t), s[u].parent = p,
         \A v \in Unit!Present(t) : v # u => s[v].parent = t[v].parent
  PROVE  Acyclic(s)
<1> DEFINE B == Unit!Subtree(t, u)
<1>0. NoUnit \notin Unit!Present(t)
  BY AdministrationAssumption DEF Unit!Present
<1>1. \A w : Unit!Children(s, w) \subseteq Unit!Children(t, w) \cup (IF w = p THEN {u} ELSE {})
  BY DEF Unit!Children
<1>2. B \subseteq Unit!Present(t) /\ u \in B /\ p \notin B
  BY <1>0, BelowClosed DEF Closed, Unit!Subtree
<1>3. \A w \in B : Unit!Children(t, w) \subseteq B
  BY BelowClosed DEF Closed, Unit!Subtree
<1>4. SUFFICES ASSUME NEW x \in Unit!Present(s) PROVE x \notin Unit!Below(s, x)
  BY DEF Acyclic
<1>5. x \notin Unit!Below(t, x) /\ Closed(t, x, Unit!Below(t, x))
  BY BelowClosed DEF Acyclic
<1>6. CASE x \in B
  <2>1. Closed(s, x, Unit!Below(t, x) \cap B)
    BY <1>1, <1>2, <1>3, <1>5, <1>6 DEF Closed
  <2> QED BY <1>5, <2>1, BelowLeast
<1>7. CASE x \notin B
  <2>1. Closed(s, x, Unit!Below(t, x) \cup B)
    BY <1>1, <1>2, <1>3, <1>5 DEF Closed
  <2> QED BY <1>5, <1>7, <2>1, BelowLeast
<1> QED BY <1>6, <1>7
\* A unit that was not below u when the tree was read is not below it when the move is
\* written, as long as nothing else was moved.
LEMMA StillApart ==
  ASSUME NEW was, NEW t, Hung(was), NEW u, NEW p \in Unit!Present(was), p \notin Unit!Below(was, u),
         \A v \in Unit!Present(t) \cap Unit!Present(was) : t[v].parent = was[v].parent,
         u \in Unit!Present(was)
  PROVE  p \notin Unit!Below(t, u)
<1> DEFINE S == {x \in Unit!Present(t) : x \in Unit!Below(was, u) \/ x \notin Unit!Present(was)}
<1>0. NoUnit \notin Unit!Present(t)
  BY AdministrationAssumption DEF Unit!Present
<1>1. Unit!Children(t, u) \subseteq S
  BY BelowClosed DEF Closed, Unit!Children
<1>2. ASSUME NEW w \in S PROVE Unit!Children(t, w) \subseteq S
  <2>1. SUFFICES ASSUME NEW c \in Unit!Children(t, w), c \in Unit!Present(was) PROVE c \in Unit!Below(was, u)
    BY DEF Unit!Children
  <2>2. was[c].parent = w /\ w \in Unit!Present(was)
    BY <1>0, <2>1 DEF Hung, Unit!Children
  <2> QED BY <2>1, <2>2, BelowClosed DEF Closed, Unit!Children
<1>3. Closed(t, u, S)
  BY <1>1, <1>2 DEF Closed
<1> QED BY <1>3, BelowLeast

-----------------------------------------------------------------------------
\* Tiers and appointments follow the ranks.
Tiered(t, f) ==
  \A u \in Unit!Present(t) : t[u].tier = Unit!TierAt(f[u]) /\ t[u].appt \subseteq {t[u].tier}

InRank(t) == \E f : Ranks(t, f) /\ Tiered(t, f)

LEMMA TierType == ASSUME NEW d \in Int PROVE Unit!TierAt(d) \in 0 .. Tiers - 1
BY AdministrationAssumption DEF Unit!TierAt

LEMMA InsertRank ==
  ASSUME NEW t \in UnitTrees, InRank(t), NEW u \in Units, Unit!Absent(t, u),
         NEW row \in Unit!Rows, row.appt = {},
         \/ row.parent = NoUnit /\ row.tier = 0
         \/ row.parent \in Unit!Present(t) /\ t[row.parent].tier = row.tier - 1,
         NEW s, s = [t EXCEPT ![u] = row]
  PROVE  InRank(s)
<1>1. PICK f : Ranks(t, f) /\ Tiered(t, f)
  BY DEF InRank
<1>2. Hung(t)
  BY <1>1 DEF Hung, Ranks
<1>3. Unit!Present(s) = Unit!Present(t) \cup {u} /\ u \notin Unit!Present(t)
  <2>1. row.parent = NoUnit \/ row.parent \in Unit!Present(t)
    OBVIOUS
  <2> QED BY <1>2, <2>1, InsertTree, UnitRow
<1>4. (\A v \in Unit!Present(t) : s[v] = t[v]) /\ s[u] = row
  BY <1>3 DEF UnitTrees, Unit!Present
<1>5. NoUnit \notin Unit!Present(t) /\ Unit!Present(t) \subseteq Units
  BY AdministrationAssumption DEF Unit!Present
<1>6. PICK n \in Nat : n = IF row.parent = NoUnit THEN 0 ELSE f[row.parent] + 1
  BY <1>1, <1>5 DEF Ranks
<1>7. PICK g : g = [f EXCEPT ![u] = n]
  OBVIOUS
<1>8. g \in [Units -> Nat] /\ g[u] = n /\ \A v \in Unit!Present(t) : g[v] = f[v]
  BY <1>1, <1>3, <1>7 DEF Ranks
<1>9. Ranks(s, g)
  <2>1. ASSUME NEW v \in Unit!Present(t)
        PROVE  /\ s[v].parent = NoUnit \/ s[v].parent \in Unit!Present(s)
               /\ g[v] = IF s[v].parent = NoUnit THEN 0 ELSE g[s[v].parent] + 1
    <3>1. s[v] = t[v] /\ g[v] = f[v]
      BY <1>4, <1>8
    <3>2. CASE t[v].parent = NoUnit
      BY <1>1, <3>1, <3>2 DEF Ranks
    <3>3. CASE t[v].parent # NoUnit
      <4>1. t[v].parent \in Unit!Present(t)
        BY <1>1, <3>3 DEF Ranks
      <4> QED BY <1>1, <1>3, <1>8, <3>1, <3>3, <4>1 DEF Ranks
    <3> QED BY <3>2, <3>3
  <2>2. /\ s[u].parent = NoUnit \/ s[u].parent \in Unit!Present(s)
        /\ g[u] = IF s[u].parent = NoUnit THEN 0 ELSE g[s[u].parent] + 1
    BY <1>3, <1>4, <1>5, <1>6, <1>8
  <2> QED BY <1>3, <1>8, <2>1, <2>2 DEF Ranks
<1>10. row.tier = Unit!TierAt(n)
  <2>1. row.tier \in 0 .. Tiers - 1 /\ Tiers \in Nat \ {0}
    BY AdministrationAssumption DEF Unit!Rows
  <2>2. CASE row.parent = NoUnit
    BY <1>5, <1>6, <2>1, <2>2 DEF Unit!TierAt
  <2>3. CASE row.parent # NoUnit
    <3>1. PICK m \in Nat : m = f[row.parent]
      BY <1>1, <1>5, <2>3 DEF Ranks
    <3>2. n = m + 1 /\ Unit!TierAt(m) = row.tier - 1
      BY <1>1, <1>6, <2>3, <3>1 DEF Tiered
    <3> QED BY <2>1, <3>2 DEF Unit!TierAt
  <2> QED BY <2>2, <2>3
<1>11. Tiered(s, g)
  BY <1>1, <1>3, <1>4, <1>8, <1>10 DEF Tiered
<1> QED BY <1>9, <1>11 DEF InRank

LEMMA DestroyRank ==
  ASSUME NEW t \in UnitTrees, InRank(t), NEW u \in Units,
         NEW s, s = [v \in Units |-> IF v \in Unit!Subtree(t, u) THEN Unit!Gone ELSE t[v]]
  PROVE  InRank(s)
<1>1. PICK f : Ranks(t, f) /\ Tiered(t, f)
  BY DEF InRank
<1>2. Hung(t)
  BY <1>1 DEF Hung, Ranks
<1>3. Hung(s) /\ Unit!Present(s) = Unit!Present(t) \ Unit!Subtree(t, u)
  BY <1>2, DestroyTree
<1>4. \A v \in Unit!Present(s) : s[v] = t[v]
  BY DEF Unit!Present
<1>5. Ranks(s, f) /\ Tiered(s, f)
  BY <1>1, <1>3, <1>4 DEF Ranks, Tiered, Hung
<1> QED BY <1>5 DEF InRank

LEMMA AppointRank ==
  ASSUME NEW t \in UnitTrees, InRank(t), NEW u \in Unit!Present(t), NEW a \in SUBSET {t[u].tier},
         NEW s, s = [t EXCEPT ![u].appt = a]
  PROVE  InRank(s)
<1>1. PICK f : Ranks(t, f) /\ Tiered(t, f)
  BY DEF InRank
<1>0. PICK old \in Unit!Rows : old = t[u]
  BY UnitRow DEF Unit!Present
<1>2. PICK row : row = [old EXCEPT !.appt = a]
  OBVIOUS
<1>3. row \in Unit!Rows /\ row.parent = t[u].parent /\ row.tier = t[u].tier /\ row.appt = a
  BY <1>0, <1>2 DEF Unit!Rows
<1>4. s = [t EXCEPT ![u] = row] /\ u \in Units
  BY <1>0, <1>2 DEF UnitTrees, Unit!Present
<1>5. Unit!Present(s) = Unit!Present(t)
  BY <1>3, <1>4, UnitGone DEF UnitTrees, Unit!Present
<1>6. /\ \A v \in Unit!Present(t) : v # u => s[v] = t[v]
      /\ s[u] = row
  BY <1>4 DEF UnitTrees, Unit!Present
<1>7. \A v \in Unit!Present(t) : s[v].parent = t[v].parent /\ s[v].tier = t[v].tier
  BY <1>3, <1>6
<1>8. Ranks(s, f)
  BY <1>1, <1>5, <1>7 DEF Ranks
<1>9. Tiered(s, f)
  BY <1>1, <1>3, <1>5, <1>6, <1>7 DEF Tiered
<1> QED BY <1>8, <1>9 DEF InRank

-----------------------------------------------------------------------------
\* The rows a move writes.
Written(t, was, u, p) ==
  [v \in Units |->
     IF Unit!Absent(t, v) \/ v \notin Unit!Subtree(was, u) THEN t[v]
     ELSE [f \in {"parent", "tier", "appt"} |-> Unit!Changed(t[v][f], was[v][f], Unit!Moved(was, u, p, v)[f])]]

LEMMA MovedRow ==
  ASSUME NEW was \in UnitTrees, NEW u \in Unit!Present(was), NEW p \in Units \cup {NoUnit},
         NEW v \in Unit!Subtree(was, u)
  PROVE  v \in Unit!Present(was) /\ v \in Units /\ was[v] \in Unit!Rows /\ Unit!Moved(was, u, p, v) \in Unit!Rows
<1>1. v \in Unit!Present(was) /\ v \in Units
  BY BelowClosed DEF Closed, Unit!Subtree, Unit!Present
<1>2. was[v] \in Unit!Rows
  BY <1>1, UnitRow
<1>3. PICK old \in Nat : old = Unit!DepthOf(was, u)
  BY DepthType DEF Unit!Present
<1>4. PICK depth \in Nat : depth = Unit!DepthOf(was, v)
  BY <1>1, DepthType
<1>5. PICK new \in Nat : new = IF p = NoUnit THEN 0 ELSE Unit!DepthOf(was, p) + 1
  BY DepthType
<1>6. PICK tier \in 0 .. Tiers - 1 : tier = IF Unit!TierAt(depth) = Unit!TierAt(depth + new - old) THEN was[v].tier
                                            ELSE Unit!TierAt(depth + new - old)
  BY <1>2, TierType DEF Unit!Rows
<1>7. Unit!Moved(was, u, p, v) =
        Unit!Row(IF v = u THEN p ELSE was[v].parent, tier, {IF i = was[v].tier THEN tier ELSE i : i \in was[v].appt})
  BY <1>3, <1>4, <1>5, <1>6 DEF Unit!Moved
<1>8. {IF i = was[v].tier THEN tier ELSE i : i \in was[v].appt} \subseteq 0 .. Tiers - 1
  BY <1>2 DEF Unit!Rows
<1> QED BY <1>1, <1>2, <1>7, <1>8 DEF Unit!Row, Unit!Rows

LEMMA WrittenRow ==
  ASSUME NEW t \in UnitTrees, NEW was \in UnitTrees, NEW u \in Unit!Present(was),
         NEW p \in Units \cup {NoUnit},
         NEW v \in Unit!Subtree(was, u), v \in Unit!Present(t)
  PROVE  /\ Written(t, was, u, p)[v] \in Unit!Rows
         /\ Written(t, was, u, p)[v].parent =
              Unit!Changed(t[v].parent, was[v].parent, IF v = u THEN p ELSE was[v].parent)
         /\ Written(t, was, u, p)[v].tier = Unit!Changed(t[v].tier, was[v].tier, Unit!Moved(was, u, p, v).tier)
         /\ Written(t, was, u, p)[v].appt = Unit!Changed(t[v].appt, was[v].appt, Unit!Moved(was, u, p, v).appt)
<1>1. v \in Units /\ t[v] \in Unit!Rows /\ was[v] \in Unit!Rows
  BY MovedRow, UnitRow DEF Unit!Present
<1>2. PICK m \in Unit!Rows : m = Unit!Moved(was, u, p, v)
  BY MovedRow
<1>3. m.parent = IF v = u THEN p ELSE was[v].parent
  BY <1>2 DEF Unit!Moved, Unit!Row
<1>4. PICK w : w = Written(t, was, u, p)[v]
  OBVIOUS
<1>5. w = [f \in {"parent", "tier", "appt"} |-> Unit!Changed(t[v][f], was[v][f], m[f])]
  BY <1>1, <1>2, <1>4 DEF Written, Unit!Present, Unit!Absent
<1>6. w = [parent |-> Unit!Changed(t[v].parent, was[v].parent, m.parent),
           tier |-> Unit!Changed(t[v].tier, was[v].tier, m.tier),
           appt |-> Unit!Changed(t[v].appt, was[v].appt, m.appt)]
  BY <1>5
<1>7. w \in Unit!Rows
  BY <1>1, <1>6 DEF Unit!Rows, Unit!Changed
<1> QED BY <1>2, <1>3, <1>4, <1>6, <1>7
\* What a move makes of a row: the tier of its new depth, the appointments with it.
LEMMA MovedTier ==
  ASSUME NEW was \in UnitTrees, NEW g, Ranks(was, g), Tiered(was, g),
         NEW u \in Unit!Present(was), NEW p \in Units \cup {NoUnit},
         p # NoUnit => p \in Unit!Present(was) /\ Unit!DepthOf(was, p) + 1 <= Tiers - 1,
         \A x \in Unit!Subtree(was, u) : Unit!DepthOf(was, x) # Unit!Guard,
         NEW v \in Unit!Subtree(was, u),
         NEW n \in Nat, n = IF p = NoUnit THEN 0 ELSE g[p] + 1
  PROVE  /\ Unit!Moved(was, u, p, v).tier = Unit!TierAt(g[v] + n - g[u])
         /\ Unit!Moved(was, u, p, v).appt \subseteq {Unit!Moved(was, u, p, v).tier}
<1>1. v \in Unit!Present(was) /\ u \in Unit!Subtree(was, u)
  BY MovedRow DEF Unit!Subtree
<1>2. /\ g[u] \in Nat /\ g[v] \in Nat /\ (p # NoUnit => g[p] \in Nat)
      /\ Unit!Guard \in Nat /\ Unit!Guard > Tiers /\ Tiers \in Nat \ {0}
  BY <1>1, DepthType DEF Ranks, Unit!Present
<1>3. Unit!DepthOf(was, v) = g[v] /\ Unit!DepthOf(was, u) = g[u]
  BY <1>1, <1>2, DepthRank
<1>4. p # NoUnit => Unit!DepthOf(was, p) = g[p]
  BY <1>2, DepthRank
<1>5. PICK d \in Int : d = g[v] + n - g[u]
  BY <1>2
<1>6. was[v].tier = Unit!TierAt(g[v]) /\ was[v].appt \subseteq {was[v].tier}
  BY <1>1 DEF Tiered
<1>7. Unit!Moved(was, u, p, v) =
        Unit!Row(IF v = u THEN p ELSE was[v].parent, Unit!TierAt(d),
                 {IF i = was[v].tier THEN Unit!TierAt(d) ELSE i : i \in was[v].appt})
  <2>1. Unit!Moved(was, u, p, v) =
          Unit!Row(IF v = u THEN p ELSE was[v].parent,
                   IF Unit!TierAt(g[v]) = Unit!TierAt(d) THEN was[v].tier ELSE Unit!TierAt(d),
                   {IF i = was[v].tier
                      THEN (IF Unit!TierAt(g[v]) = Unit!TierAt(d) THEN was[v].tier ELSE Unit!TierAt(d))
                      ELSE i : i \in was[v].appt})
    BY <1>3, <1>4, <1>5 DEF Unit!Moved
  <2>2. (IF Unit!TierAt(g[v]) = Unit!TierAt(d) THEN was[v].tier ELSE Unit!TierAt(d)) = Unit!TierAt(d)
    BY <1>6
  <2> QED BY <2>1, <2>2
<1> QED BY <1>5, <1>6, <1>7 DEF Unit!Row

LEMMA MoveRank ==
  ASSUME NEW was \in UnitTrees, NEW t \in UnitTrees, InRank(was), InRank(t),
         NEW u \in Unit!Present(was), NEW p \in Units \cup {NoUnit},
         p # NoUnit => /\ p \in Unit!Present(was) /\ p \notin Unit!Subtree(was, u)
                       /\ Unit!DepthOf(was, p) + 1 <= Tiers - 1
                       /\ p # was[u].parent /\ u \in Unit!Present(t) => p \in Unit!Present(t),
         \A v \in Unit!Present(t) :
           v \in Unit!Subtree(was, u) \/ v \in Unit!Subtree(t, u) \/ v = p => t[v] = was[v],
         \A v \in Unit!Subtree(was, u) : Unit!DepthOf(was, v) # Unit!Guard,
         NEW s, s = Written(t, was, u, p)
  PROVE  InRank(s)
<1>1. PICK g : Ranks(was, g) /\ Tiered(was, g)
  BY DEF InRank
<1>2. PICK f : Ranks(t, f) /\ Tiered(t, f)
  BY DEF InRank
<1>3. Hung(was) /\ Hung(t)
  BY <1>1, <1>2 DEF Hung, Ranks
<1>4. /\ NoUnit \notin Units
      /\ Unit!Present(t) \subseteq Units /\ Unit!Present(was) \subseteq Units
      /\ u \in Units
  BY AdministrationAssumption DEF Unit!Present
<1>5. \A v \in Units : v \notin Unit!Subtree(was, u) \/ v \notin Unit!Present(t) => s[v] = t[v]
  BY UnitRow DEF Written
<1>6. \A v \in Unit!Present(t) : v \in Unit!Subtree(was, u) => s[v] \in Unit!Rows
  BY WrittenRow
<1>7. Unit!Present(s) = Unit!Present(t)
  BY <1>4, <1>5, <1>6, UnitGone DEF Unit!Present
<1>8. CASE u \notin Unit!Present(t)
  <2> DEFINE S == {v \in Unit!Below(was, u) : v \notin Unit!Present(t)}
  <2>1. ASSUME NEW w \in Unit!Subtree(was, u), w \notin Unit!Present(t), NEW c \in Unit!Children(was, w)
        PROVE  c \in S
    <3>1. c \in Unit!Below(was, u) /\ c \in Unit!Present(was) /\ was[c].parent = w
      BY <2>1, BelowClosed DEF Closed, Unit!Children, Unit!Subtree
    <3>2. c \notin Unit!Present(t)
      <4>1. SUFFICES ASSUME c \in Unit!Present(t) PROVE FALSE
        OBVIOUS
      <4>2. t[c].parent = w
        BY <3>1, <4>1 DEF Unit!Subtree
      <4>3. w \in Units
        BY <2>1, MovedRow
      <4> QED BY <1>3, <1>4, <2>1, <4>1, <4>2, <4>3 DEF Hung
    <3> QED BY <3>1, <3>2
  <2>2. Closed(was, u, S)
    BY <1>8, <2>1, BelowClosed DEF Closed, Unit!Subtree
  <2>3. \A v \in Unit!Subtree(was, u) : v \notin Unit!Present(t)
    BY <1>8, <2>2, BelowLeast DEF Unit!Subtree
  <2>4. s = t
    BY <1>5, <2>3 DEF Written, UnitTrees
  <2> QED BY <2>4
<1>9. CASE u \in Unit!Present(t)
  <2> DEFINE Sub == Unit!Subtree(t, u)
  <2>1. /\ Sub \subseteq Unit!Present(t) /\ u \in Sub
        /\ \A w \in Sub : Unit!Children(t, w) \subseteq Sub
        /\ \A v \in Sub : v \in Unit!Present(t) /\ t[v] = was[v] /\ v \in Unit!Present(was)
    BY <1>9, BelowClosed, UnitRow DEF Closed, Unit!Subtree, Unit!Present
  <2>2. Sub \subseteq Unit!Subtree(was, u)
    <3> DEFINE S == {v \in Unit!Below(t, u) : v \in Unit!Below(was, u)}
    <3>1. ASSUME NEW w, w = u \/ w \in S, NEW c \in Unit!Children(t, w) PROVE c \in S
      <4>1. c \in Unit!Below(t, u) /\ t[c].parent = w
        BY <3>1, BelowClosed DEF Closed, Unit!Children
      <4>2. c \in Unit!Children(was, w)
        BY <2>1, <4>1 DEF Unit!Children, Unit!Subtree
      <4> QED BY <3>1, <4>1, <4>2, BelowClosed DEF Closed
    <3>2. Closed(t, u, S)
      BY <3>1, BelowClosed DEF Closed
    <3> QED BY <3>2, BelowLeast DEF Unit!Subtree
  <2>3. \A v \in Unit!Present(t) : v \in Unit!Subtree(was, u) => v \in Sub
    <3> DEFINE S == {v \in Unit!Below(was, u) : v \in Unit!Present(t) => v \in Sub}
    <3>1. ASSUME NEW w, w = u \/ w \in S, NEW c \in Unit!Children(was, w) PROVE c \in S
      <4>1. c \in Unit!Below(was, u) /\ was[c].parent = w /\ w \in Unit!Subtree(was, u)
        BY <3>1, BelowClosed DEF Closed, Unit!Children, Unit!Subtree
      <4>2. ASSUME c \in Unit!Present(t) PROVE c \in Sub
        <5>1. t[c].parent = w /\ w \in Units
          BY <4>1, <4>2, MovedRow DEF Unit!Subtree
        <5>2. w \in Unit!Present(t)
          BY <1>3, <1>4, <4>2, <5>1 DEF Hung
        <5>3. w \in Sub
          BY <2>1, <3>1, <5>2
        <5> QED BY <2>1, <4>2, <5>1, <5>3 DEF Unit!Children
      <4> QED BY <4>1, <4>2
    <3>2. Closed(was, u, S)
      BY <3>1, BelowClosed DEF Closed
    <3> QED BY <2>1, <3>2, BelowLeast DEF Unit!Subtree
  <2>4. \A v \in Sub : f[v] \in Nat /\ g[v] \in Nat /\ f[v] >= f[u] /\ f[v] - f[u] = g[v] - g[u]
    <3> DEFINE S == {v \in Unit!Below(t, u) : f[v] >= f[u] /\ f[v] - f[u] = g[v] - g[u]}
    <3>0. \A v \in Units : f[v] \in Nat /\ g[v] \in Nat
      BY <1>1, <1>2 DEF Ranks
    <3>1. ASSUME NEW w, w = u \/ w \in S, NEW c \in Unit!Children(t, w) PROVE c \in S
      <4>1. c \in Unit!Below(t, u) /\ t[c].parent = w /\ w \in Sub
        BY <3>1, BelowClosed DEF Closed, Unit!Children, Unit!Subtree
      <4>2. c \in Sub /\ was[c].parent = w /\ w \in Units /\ c \in Units
        BY <1>4, <2>1, <4>1 DEF Unit!Subtree
      <4>3. f[c] = f[w] + 1 /\ g[c] = g[w] + 1
        BY <1>1, <1>2, <1>4, <2>1, <4>1, <4>2 DEF Ranks
      <4> QED BY <1>4, <3>0, <3>1, <4>1, <4>2, <4>3
    <3>2. Closed(t, u, S)
      BY <3>1, BelowClosed DEF Closed
    <3>3. Unit!Below(t, u) \subseteq S
      BY <3>2, BelowLeast
    <3> QED BY <1>4, <2>1, <3>0, <3>3 DEF Unit!Subtree
  <2> HIDE DEF Sub
  <2>5. t[u] = was[u]
    BY <2>1
  <2>6. ASSUME p # NoUnit
        PROVE  p \in Unit!Present(t) /\ p \notin Sub /\ f[p] = g[p] /\ g[p] \in Nat
    <3>1. p \in Unit!Present(t)
      BY <1>3, <1>9, <2>5, <2>6 DEF Hung
    <3>2. p \notin Sub /\ t[p] = was[p]
      BY <2>2, <2>6, <3>1
    <3>3. f[p] \in Nat /\ g[p] \in Nat /\ p \in Unit!Present(was)
      BY <1>1, <1>2, <1>4, <2>6, <3>1 DEF Ranks
    <3>4. Unit!TierAt(f[p]) = Unit!TierAt(g[p])
      BY <1>1, <1>2, <3>1, <3>2, <3>3 DEF Tiered
    <3>5. g[p] + 1 <= Tiers - 1 /\ Tiers \in Nat \ {0}
      BY <1>1, <2>6, <3>3, DepthRank, DepthType DEF Unit!Present
    <3> QED BY <3>1, <3>2, <3>3, <3>4, <3>5 DEF Unit!TierAt
  <2>7. PICK n \in Nat : n = IF p = NoUnit THEN 0 ELSE g[p] + 1
    BY <2>6
  <2>8. PICK h : h = [v \in Units |-> IF v \in Sub THEN f[v] - f[u] + n ELSE f[v]]
    OBVIOUS
  <2>9. h \in [Units -> Nat]
    <3>1. \A v \in Units : f[v] \in Nat
      BY <1>2 DEF Ranks
    <3>2. \A v \in Units : (IF v \in Sub THEN f[v] - f[u] + n ELSE f[v]) \in Nat
      BY <1>4, <2>4, <3>1
    <3> QED BY <2>8, <3>2
  <2>10. ASSUME NEW v \in Sub
         PROVE  /\ s[v].parent = IF v = u THEN p ELSE t[v].parent
                /\ s[v].tier = Unit!Moved(was, u, p, v).tier
                /\ s[v].appt = Unit!Moved(was, u, p, v).appt
    <3>1. v \in Unit!Subtree(was, u) /\ v \in Unit!Present(t) /\ t[v] = was[v]
      BY <2>1, <2>2
    <3> QED BY <3>1, WrittenRow DEF Unit!Changed
  <2>11. \A v \in Unit!Present(t) : v \notin Sub => s[v] = t[v]
    BY <1>4, <1>5, <2>3
  <2>12. Ranks(s, h)
    <3>1. ASSUME NEW v \in Unit!Present(t)
          PROVE  /\ s[v].parent = NoUnit \/ s[v].parent \in Unit!Present(t)
                 /\ h[v] = IF s[v].parent = NoUnit THEN 0 ELSE h[s[v].parent] + 1
      <4>1. CASE v \notin Sub
        <5>1. s[v] = t[v] /\ t[v].parent \notin Sub
          BY <2>1, <2>11, <4>1 DEF Unit!Children
        <5> QED BY <1>2, <1>4, <2>8, <4>1, <5>1 DEF Ranks
      <4>2. CASE v = u
        <5>1. s[u].parent = p /\ h[u] = n
          BY <1>4, <2>1, <2>4, <2>7, <2>8, <2>10
        <5>2. p # NoUnit => h[p] = g[p]
          BY <1>4, <2>6, <2>8
        <5> QED BY <2>6, <2>7, <4>2, <5>1, <5>2
      <4>3. CASE v \in Sub /\ v # u
        <5>1. s[v].parent = t[v].parent /\ t[v].parent \in Sub
          BY <2>1, <2>10, <4>3, BelowParent DEF Sub, Unit!Subtree
        <5>2. t[v].parent \in Unit!Present(t) /\ t[v].parent # NoUnit
          BY <1>4, <2>1, <5>1
        <5>3. f[v] = f[t[v].parent] + 1
          BY <1>2, <5>2 DEF Ranks
        <5>4. h[v] = f[v] - f[u] + n /\ h[t[v].parent] = f[t[v].parent] - f[u] + n
          BY <1>4, <2>8, <4>3, <5>1, <5>2
        <5> QED BY <2>1, <2>4, <2>7, <5>1, <5>2, <5>3, <5>4
      <4> QED BY <4>1, <4>2, <4>3
    <3> QED BY <1>7, <2>9, <3>1 DEF Ranks
  <2>13. Tiered(s, h)
    <3>1. ASSUME NEW v \in Unit!Present(t)
          PROVE  s[v].tier = Unit!TierAt(h[v]) /\ s[v].appt \subseteq {s[v].tier}
      <4>1. CASE v \notin Sub
        BY <1>2, <1>4, <2>8, <2>11, <4>1 DEF Tiered
      <4>2. CASE v \in Sub
        <5>1. v \in Unit!Subtree(was, u)
          BY <2>2, <4>2
        <5>2. /\ Unit!Moved(was, u, p, v).tier = Unit!TierAt(g[v] + n - g[u])
              /\ Unit!Moved(was, u, p, v).appt \subseteq {Unit!Moved(was, u, p, v).tier}
          BY <1>1, <2>7, <5>1, MovedTier
        <5>3. h[v] = g[v] + n - g[u]
          BY <1>4, <2>1, <2>4, <2>7, <2>8, <4>2
        <5> QED BY <2>10, <4>2, <5>2, <5>3
      <4> QED BY <4>1, <4>2
    <3> QED BY <1>7, <3>1 DEF Tiered
  <2> QED BY <2>12, <2>13 DEF InRank
<1> QED BY <1>8, <1>9

-----------------------------------------------------------------------------
LateKinds == {"placed", "appointed", "filled", "moved", "grown", "deep"}

UnitForms ==
  {Unit!Idle}
  \cup [pc : {"insert"}, of : Units, to : Unit!Rows, was : {Unit!Gone}]
  \cup [pc : {"appoint"}, of : Units, to : Unit!Rows, was : Unit!Rows]
  \cup [pc : {"destroy"}, of : Units, to : {NoUnit}, was : {{}}]
  \cup [pc : {"reparent"}, of : Units, to : Units \cup {NoUnit}, was : UnitTrees]

\* What a request carries stands for the checks it made on the tree as it read it.
MoveChecked(was, u, p) ==
  /\ Hung(was) /\ u \in Unit!Present(was)
  /\ p # NoUnit => /\ p \in Unit!Present(was) /\ p \notin Unit!Subtree(was, u)
                   /\ Unit!DepthOf(was, p) + 1 <= Tiers - 1

UnitSlot(r) ==
  /\ r.pc = "insert" => r.to.appt = {} /\ (r.to.parent = NoUnit => r.to.tier = 0)
  /\ r.pc = "appoint" => r.to.appt \subseteq {r.was.tier}
  /\ r.pc = "reparent" => /\ MoveChecked(r.was, r.of, r.to)
                          /\ late \subseteq {"filled"} => InRank(r.was)

UnitSlots == \A q \in Requests : UnitSlot(unitReq[q])

TreeSound(t, l) ==
  /\ t \in UnitTrees /\ Hung(t)
  /\ "moved" \notin l => Acyclic(t)
  /\ l \subseteq {"filled"} => InRank(t)

UnitInv ==
  /\ unitReq \in [Requests -> UnitForms] /\ late \subseteq LateKinds
  /\ UnitSlots /\ TreeSound(unit, late)

LEMMA UnitFields ==
  ASSUME NEW r \in UnitForms
  PROVE  /\ r.pc \in {"idle", "insert", "appoint", "destroy", "reparent"}
         /\ r.pc = "idle" => r = Unit!Idle
         /\ r.pc # "idle" => r.of \in Units
         /\ r.pc \in {"insert", "appoint"} => r.to \in Unit!Rows
         /\ r.pc = "insert" => r.was = Unit!Gone
         /\ r.pc = "appoint" => r.was \in Unit!Rows
         /\ r.pc = "destroy" => r.was = {}
         /\ r.pc = "reparent" => r.to \in Units \cup {NoUnit} /\ r.was \in UnitTrees
BY DEF UnitForms, Unit!Idle

\* A request is loaded: nothing else changes.
LEMMA UnitLoad ==
  ASSUME UnitInv, NEW q \in Requests, NEW r \in UnitForms, UnitSlot(r), Unit!Move(q, r),
         UNCHANGED <<unit, late>>
  PROVE  UnitInv'
<1>1. unitReq' \in [Requests -> UnitForms]
  BY DEF UnitInv, Unit!Move
<1>2. ASSUME NEW p \in Requests PROVE UnitSlot(unitReq[p])'
  <2>1. PICK x : x = unitReq'[p] /\ UnitSlot(x)
    BY DEF UnitInv, UnitSlots, Unit!Move
  <2> QED BY <2>1 DEF UnitSlot
<1>3. late' \subseteq LateKinds /\ TreeSound(unit, late)'
  BY DEF UnitInv
<1> QED BY <1>1, <1>2, <1>3 DEF UnitInv, UnitSlots

\* A request is over: what is left is the tree it wrote.
LEMMA UnitDone ==
  ASSUME UnitInv, NEW q \in Requests, Unit!Move(q, Unit!Idle),
         late' \subseteq LateKinds, late \subseteq late', TreeSound(unit, late)'
  PROVE  UnitInv'
<1>1. unitReq' \in [Requests -> UnitForms]
  BY DEF UnitInv, Unit!Move, UnitForms
<1>2. ASSUME NEW p \in Requests PROVE UnitSlot(unitReq[p])'
  <2>1. CASE p = q
    <3>1. unitReq'[p].pc = "idle"
      BY <2>1 DEF UnitInv, Unit!Move, Unit!Idle
    <3> QED BY <3>1 DEF UnitSlot
  <2>2. CASE p # q
    <3>1. PICK x : x = unitReq[p] /\ x = unitReq'[p] /\ UnitSlot(x)
      BY <2>2 DEF UnitInv, UnitSlots, Unit!Move
    <3> QED BY <3>1 DEF UnitSlot
  <2> QED BY <2>1, <2>2
<1> QED BY <1>1, <1>2 DEF UnitInv, UnitSlots

LEMMA InitUnitInv == ASSUME Unit!Init PROVE UnitInv
<1>1. unit \in UnitTrees /\ Unit!Present(unit) = {}
  BY DEF Unit!Init, UnitTrees, Unit!Present
<1>2. PICK t : t = unit /\ Unit!Present(t) = {} /\ t \in UnitTrees
  BY <1>1
<1>3. Ranks(t, [u \in Units |-> 0]) /\ Tiered(t, [u \in Units |-> 0])
  BY <1>2 DEF Ranks, Tiered
<1>4. TreeSound(unit, late)
  BY <1>2, <1>3 DEF TreeSound, Hung, Acyclic, InRank
<1>5. \A q \in Requests : unitReq[q] = Unit!Idle
  BY DEF Unit!Init
<1> QED BY <1>4, <1>5 DEF UnitInv, UnitSlots, UnitSlot, UnitForms, LateKinds, Unit!Init, Unit!Idle

LEMMA LoadsUnitInv ==
  ASSUME UnitInv, NEW q \in Requests, NEW u \in Units
  PROVE  /\ Unit!LoadDelete(q, u) => UnitInv'
         /\ \A filled \in BOOLEAN : Unit!LoadAppoint(q, u, filled) => UnitInv'
         /\ \A p \in Units \cup {NoUnit} : Unit!LoadCreate(q, u, p) \/ Unit!LoadMove(q, u, p) => UnitInv'
<1>0. PICK t \in UnitTrees : t = unit /\ Hung(t) /\ (late \subseteq {"filled"} => InRank(t))
  BY DEF UnitInv, TreeSound
<1>1. ASSUME Unit!LoadDelete(q, u) PROVE UnitInv'
  <2>1. PICK r : r = Unit!Slot("destroy", u, NoUnit, {}) /\ Unit!Move(q, r) /\ UNCHANGED <<unit, late>>
    BY <1>1 DEF Unit!LoadDelete
  <2>2. r \in UnitForms /\ UnitSlot(r)
    BY <2>1 DEF UnitForms, UnitSlot, Unit!Slot
  <2> QED BY <2>1, <2>2, UnitLoad
<1>2. ASSUME NEW filled \in BOOLEAN, Unit!LoadAppoint(q, u, filled) PROVE UnitInv'
  <2>1. PICK row \in Unit!Rows : row = t[u]
    BY <1>0, <1>2, UnitRow DEF Unit!LoadAppoint
  <2>2. PICK new : new = Unit!Row(row.parent, row.tier, IF filled THEN {row.tier} ELSE {})
    OBVIOUS
  <2>3. PICK r : r = Unit!Slot("appoint", u, new, row) /\ Unit!Move(q, r) /\ UNCHANGED <<unit, late>>
    BY <1>0, <1>2, <2>1, <2>2 DEF Unit!LoadAppoint
  <2>4. new \in Unit!Rows /\ new.appt \subseteq {row.tier}
    BY <2>1, <2>2 DEF Unit!Row, Unit!Rows
  <2>5. r \in UnitForms /\ UnitSlot(r)
    BY <2>1, <2>3, <2>4 DEF UnitForms, UnitSlot, Unit!Slot
  <2> QED BY <2>3, <2>5, UnitLoad
<1>3. ASSUME NEW p \in Units \cup {NoUnit}, Unit!LoadCreate(q, u, p) PROVE UnitInv'
  <2>1. PICK d \in Nat : d = IF p = NoUnit THEN 0 ELSE Unit!DepthOf(t, p) + 1
    BY DepthType
  <2>2. PICK new : new = Unit!Row(p, Unit!TierAt(d), {})
    OBVIOUS
  <2>3. PICK r : r = Unit!Slot("insert", u, new, Unit!Gone) /\ Unit!Move(q, r) /\ UNCHANGED <<unit, late>>
    BY <1>0, <1>3, <2>1, <2>2 DEF Unit!LoadCreate
  <2>4. Unit!TierAt(d) \in 0 .. Tiers - 1 /\ (d = 0 => Unit!TierAt(d) = 0)
    BY TierType, AdministrationAssumption DEF Unit!TierAt
  <2>5. new \in Unit!Rows /\ new.appt = {} /\ (new.parent = NoUnit => new.tier = 0)
    BY <2>1, <2>2, <2>4 DEF Unit!Row, Unit!Rows
  <2>6. r \in UnitForms /\ UnitSlot(r)
    BY <2>3, <2>5 DEF UnitForms, UnitSlot, Unit!Slot
  <2> QED BY <2>3, <2>6, UnitLoad
<1>4. ASSUME NEW p \in Units \cup {NoUnit}, Unit!LoadMove(q, u, p) PROVE UnitInv'
  <2>1. PICK r : r = Unit!Slot("reparent", u, p, t) /\ Unit!Move(q, r) /\ UNCHANGED <<unit, late>>
    BY <1>0, <1>4 DEF Unit!LoadMove
  <2>2. MoveChecked(t, u, p)
    BY <1>0, <1>4, UnitRow DEF MoveChecked, Unit!LoadMove
  <2>3. r \in UnitForms /\ UnitSlot(r)
    BY <1>0, <2>1, <2>2 DEF UnitForms, UnitSlot, Unit!Slot
  <2> QED BY <2>1, <2>3, UnitLoad
<1> QED BY <1>1, <1>2, <1>3, <1>4

\* The insert of a unit.
LEMMA InsertUnitInv ==
  ASSUME UnitInv, NEW q \in Requests, Unit!Insert(q)
  PROVE  UnitInv'
<1>1. PICK r \in UnitForms : r = unitReq[q] /\ UnitSlot(r)
  BY DEF UnitInv, UnitSlots
<1>2. PICK t : t = unit /\ TreeSound(t, late)
  BY DEF UnitInv
<1>3. r.pc = "insert" /\ Unit!Absent(t, r.of) /\ Unit!Move(q, Unit!Idle)
  BY <1>1, <1>2 DEF Unit!Insert
<1>4. PICK u \in Units, row \in Unit!Rows : u = r.of /\ row = r.to
  BY <1>1, <1>3, UnitFields
<1>5. PICK s : s = unit' /\ s = [t EXCEPT ![u] = row]
  BY <1>1, <1>2, <1>4 DEF Unit!Insert
<1>6. row.parent = NoUnit \/ row.parent \in Unit!Present(t)
  <2>1. row.parent # NoUnit => ~Unit!Absent(t, row.parent) /\ row.parent \in Units
    BY <1>1, <1>2, <1>4 DEF Unit!Insert, Unit!Rows
  <2> QED BY <1>2, <2>1, UnitRow DEF TreeSound
<1>7. row.appt = {} /\ (row.parent = NoUnit => row.tier = 0)
  BY <1>1, <1>3, <1>4 DEF UnitSlot
<1>8. late' = IF row.parent # NoUnit /\ t[row.parent].tier # row.tier - 1 THEN late \cup {"placed"} ELSE late
  BY <1>1, <1>2, <1>4 DEF Unit!Insert
<1>9. s \in UnitTrees /\ Hung(s) /\ ("moved" \notin late' => Acyclic(s))
  BY <1>2, <1>3, <1>4, <1>5, <1>6, <1>8, InsertTree DEF TreeSound
<1>10. ASSUME late' \subseteq {"filled"} PROVE InRank(s)
  <2>1. late \subseteq {"filled"} /\ (row.parent # NoUnit => t[row.parent].tier = row.tier - 1)
    BY <1>8, <1>10
  <2>2. InRank(t) /\ t \in UnitTrees
    BY <1>2, <2>1 DEF TreeSound
  <2> QED BY <1>3, <1>4, <1>5, <1>6, <1>7, <2>1, <2>2, InsertRank
<1>11. late' \subseteq LateKinds /\ late \subseteq late'
  BY <1>8 DEF UnitInv, LateKinds
<1> QED BY <1>3, <1>5, <1>9, <1>10, <1>11, UnitDone DEF TreeSound

\* The save of a unit and its appointments: the tree stays as it is.
LEMMA AppointUnitInv ==
  ASSUME UnitInv, NEW q \in Requests, Unit!Appoint(q)
  PROVE  UnitInv'
<1>1. PICK r \in UnitForms : r = unitReq[q] /\ UnitSlot(r)
  BY DEF UnitInv, UnitSlots
<1>2. PICK t : t = unit /\ TreeSound(t, late)
  BY DEF UnitInv
<1>3. r.pc = "appoint" /\ Unit!Move(q, Unit!Idle)
  BY <1>1 DEF Unit!Appoint
<1>4. PICK u \in Units, row \in Unit!Rows, was \in Unit!Rows : u = r.of /\ row = r.to /\ was = r.was
  BY <1>1, <1>3, UnitFields
<1>5. row.appt \subseteq {was.tier}
  BY <1>1, <1>3, <1>4 DEF UnitSlot
<1>6. late' = IF ~Unit!Absent(t, u) /\ t[u].tier # was.tier THEN late \cup {"appointed"} ELSE late
  BY <1>1, <1>2, <1>4 DEF Unit!Appoint
<1>7. late' \subseteq LateKinds /\ late \subseteq late'
  BY <1>6 DEF UnitInv, LateKinds
<1>8. CASE Unit!Absent(t, u)
  <2>1. unit' = t /\ late' = late
    BY <1>1, <1>2, <1>4, <1>6, <1>8 DEF Unit!Appoint
  <2>2. TreeSound(unit, late)'
    BY <1>2, <2>1
  <2> QED BY <1>3, <1>7, <2>2, UnitDone
<1>9. CASE ~Unit!Absent(t, u)
  <2>1. PICK old \in Unit!Rows : old = t[u]
    BY <1>2, <1>4, <1>9, UnitRow DEF TreeSound
  <2>2. PICK a : a = Unit!Changed(old.appt, was.appt, row.appt)
    OBVIOUS
  <2>3. PICK s : s = unit' /\ s = [t EXCEPT ![u].appt = a]
    BY <1>1, <1>2, <1>4, <1>9, <2>1, <2>2 DEF Unit!Appoint
  <2>4. PICK new : new = [old EXCEPT !.appt = a]
    OBVIOUS
  <2>5. new \in Unit!Rows /\ new.parent = old.parent
    BY <1>4, <2>1, <2>2, <2>4 DEF Unit!Rows, Unit!Changed
  <2>6. t \in UnitTrees /\ u \in Unit!Present(t)
    BY <1>2, <1>4, <1>9, UnitRow DEF TreeSound
  <2>7. s = [t EXCEPT ![u] = new] /\ s \in UnitTrees
    BY <1>4, <2>1, <2>3, <2>4, <2>5, <2>6 DEF UnitTrees
  <2>8. SameParents(t, s)
    BY <2>1, <2>5, <2>6, <2>7, UnitGone DEF SameParents, UnitTrees, Unit!Present
  <2>9. Hung(s) /\ ("moved" \notin late' => Acyclic(s))
    BY <1>2, <1>7, <2>8, SameTree DEF TreeSound
  <2>10. ASSUME late' \subseteq {"filled"} PROVE InRank(s)
    <3>1. late \subseteq {"filled"} /\ old.tier = was.tier
      BY <1>6, <1>9, <2>1, <2>10
    <3>2. InRank(t)
      BY <1>2, <3>1 DEF TreeSound
    <3>3. old.appt \subseteq {old.tier}
      BY <2>1, <2>6, <3>2 DEF InRank, Tiered
    <3>4. a \in SUBSET {t[u].tier}
      BY <1>5, <2>1, <2>2, <3>1, <3>3 DEF Unit!Changed
    <3> QED BY <2>3, <2>6, <3>2, <3>4, AppointRank
  <2> QED BY <1>3, <1>7, <2>3, <2>7, <2>9, <2>10, UnitDone DEF TreeSound
<1> QED BY <1>8, <1>9

\* The deletion of a unit and of what is below it by then.
LEMMA DestroyUnitInv ==
  ASSUME UnitInv, NEW q \in Requests, Unit!Destroy(q)
  PROVE  UnitInv'
<1>1. PICK r \in UnitForms : r = unitReq[q]
  BY DEF UnitInv
<1>2. PICK t : t = unit /\ TreeSound(t, late)
  BY DEF UnitInv
<1>3. r.pc = "destroy" /\ Unit!Move(q, Unit!Idle)
  BY <1>1 DEF Unit!Destroy
<1>4. PICK u \in Units : u = r.of
  BY <1>1, <1>3, UnitFields
<1>5. PICK s : s = unit' /\ s = [v \in Units |-> IF v \in Unit!Subtree(t, u) THEN Unit!Gone ELSE t[v]]
  BY <1>1, <1>2, <1>4 DEF Unit!Destroy
<1>6. late' \subseteq LateKinds /\ late \subseteq late'
  BY DEF UnitInv, LateKinds, Unit!Destroy
<1>7. s \in UnitTrees /\ Hung(s) /\ ("moved" \notin late' => Acyclic(s))
  BY <1>2, <1>4, <1>5, <1>6, DestroyTree DEF TreeSound
<1>8. ASSUME late' \subseteq {"filled"} PROVE InRank(s)
  <2>1. InRank(t) /\ t \in UnitTrees
    BY <1>2, <1>6, <1>8 DEF TreeSound
  <2> QED BY <1>4, <1>5, <2>1, DestroyRank
<1> QED BY <1>3, <1>5, <1>6, <1>7, <1>8, UnitDone DEF TreeSound

\* The tree that a move leaves.
LEMMA WrittenTree ==
  ASSUME NEW t \in UnitTrees, NEW was \in UnitTrees, Hung(t), NEW u \in Unit!Present(was),
         NEW p \in Units \cup {NoUnit},
         p # NoUnit /\ p # was[u].parent /\ u \in Unit!Present(t) => p \in Unit!Present(t),
         NEW s, s = Written(t, was, u, p)
  PROVE  /\ s \in UnitTrees /\ Hung(s) /\ Unit!Present(s) = Unit!Present(t)
         /\ \A v \in Unit!Present(t) : v # u => s[v].parent = t[v].parent
         /\ u \in Unit!Present(t) => s[u].parent = IF p = was[u].parent THEN t[u].parent ELSE p
<1>1. u \in Units /\ u \in Unit!Subtree(was, u)
  BY DEF Unit!Present, Unit!Subtree
<1>2. \A v \in Units : v \notin Unit!Subtree(was, u) \/ v \notin Unit!Present(t) => s[v] = t[v]
  BY UnitRow DEF Written
<1>3. \A v \in Unit!Present(t) : v \in Unit!Subtree(was, u) => s[v] \in Unit!Rows
  BY WrittenRow
<1>4. s \in UnitTrees
  <2>1. \A v \in Units : s[v] \in Unit!Rows \cup {Unit!Gone}
    BY <1>2, <1>3 DEF UnitTrees
  <2>2. s = [v \in Units |-> s[v]]
    BY DEF Written
  <2> QED BY <2>1, <2>2 DEF UnitTrees
<1>5. Unit!Present(s) = Unit!Present(t)
  BY <1>2, <1>3, UnitGone DEF Unit!Present
<1>6. \A v \in Unit!Present(t) : v \in Unit!Subtree(was, u) =>
        s[v].parent = Unit!Changed(t[v].parent, was[v].parent, IF v = u THEN p ELSE was[v].parent)
  BY WrittenRow
<1>7. ASSUME NEW v \in Unit!Present(t), v # u PROVE s[v].parent = t[v].parent
  <2>1. v \in Units
    BY DEF Unit!Present
  <2> QED BY <1>2, <1>6, <1>7, <2>1 DEF Unit!Changed
<1>8. u \in Unit!Present(t) => s[u].parent = IF p = was[u].parent THEN t[u].parent ELSE p
  BY <1>1, <1>6 DEF Unit!Changed
<1>9. Hung(s)
  BY <1>5, <1>7, <1>8 DEF Hung
<1> QED BY <1>4, <1>5, <1>7, <1>8, <1>9

\* The transaction of a move.
LEMMA ReparentUnitInv ==
  ASSUME UnitInv, NEW q \in Requests, Unit!Reparent(q)
  PROVE  UnitInv'
<1>1. PICK r \in UnitForms : r = unitReq[q] /\ UnitSlot(r)
  BY DEF UnitInv, UnitSlots
<1>2. PICK t : t = unit /\ TreeSound(t, late)
  BY DEF UnitInv
<1>3. r.pc = "reparent" /\ Unit!Move(q, Unit!Idle)
  BY <1>1 DEF Unit!Reparent
<1>4. PICK u \in Units, p \in Units \cup {NoUnit}, was \in UnitTrees : u = r.of /\ p = r.to /\ was = r.was
  BY <1>1, <1>3, UnitFields
<1>5. MoveChecked(was, u, p) /\ (late \subseteq {"filled"} => InRank(was))
  BY <1>1, <1>3, <1>4 DEF UnitSlot
<1>6. t \in UnitTrees /\ Hung(t) /\ u \in Unit!Present(was) /\ Hung(was)
  BY <1>2, <1>5 DEF TreeSound, MoveChecked
<1>7. p # NoUnit /\ p # was[u].parent /\ u \in Unit!Present(t) => p \in Unit!Present(t)
  <2>1. p # NoUnit /\ p # was[u].parent /\ ~Unit!Absent(t, u) => ~Unit!Absent(t, p)
    BY <1>1, <1>2, <1>4 DEF Unit!Reparent
  <2> QED BY <1>4, <1>6, <2>1, UnitRow
<1>8. PICK s : s = unit' /\ s = Written(t, was, u, p)
  <2>1. unit' = Written(t, was, u, p)
    BY <1>1, <1>2, <1>4 DEF Unit!Reparent, Written
  <2> QED BY <2>1
<1>9. /\ late \subseteq late' /\ late' \subseteq LateKinds
      /\ ({v \in Unit!Present(t) \cap Unit!Present(was) : t[v].parent # was[v].parent} = {} \/ "moved" \in late')
      /\ \/ {v \in Unit!Subtree(was, u) \cup Unit!Subtree(t, u) \cup ({p} \ {NoUnit}) :
                  ~Unit!Absent(t, v) /\ t[v] # was[v]} = {}
         \/ "grown" \in late'
      /\ {v \in Unit!Subtree(was, u) : Unit!DepthOf(was, v) = Unit!Guard} = {} \/ "deep" \in late'
  BY <1>1, <1>2, <1>4 DEF UnitInv, LateKinds, Unit!Reparent
<1>10. /\ s \in UnitTrees /\ Hung(s) /\ Unit!Present(s) = Unit!Present(t)
       /\ \A v \in Unit!Present(t) : v # u => s[v].parent = t[v].parent
       /\ u \in Unit!Present(t) => s[u].parent = IF p = was[u].parent THEN t[u].parent ELSE p
  <2>1. t \in UnitTrees /\ was \in UnitTrees /\ p \in Units \cup {NoUnit} /\ u \in Unit!Present(was)
    BY <1>4, <1>6
  <2>2. s = Written(t, was, u, p) /\ Hung(t)
    BY <1>6, <1>8
  <2> QED BY <1>7, <2>1, <2>2, WrittenTree, SMTT(60)
<1>11. ASSUME "moved" \notin late' PROVE Acyclic(s)
  <2>1. Acyclic(t)
    BY <1>2, <1>9, <1>11 DEF TreeSound
  <2>2. CASE u \notin Unit!Present(t) \/ p = was[u].parent
    <3>1. SameParents(t, s)
      BY <1>10, <2>2 DEF SameParents
    <3> QED BY <2>1, <3>1, SameTree
  <2>3. CASE u \in Unit!Present(t) /\ p # was[u].parent
    <3>1. \A v \in Unit!Present(t) \cap Unit!Present(was) : t[v].parent = was[v].parent
      BY <1>9, <1>11
    <3>2. p = NoUnit \/ (p \in Unit!Present(t) /\ p \notin Unit!Subtree(t, u))
      <4>1. SUFFICES ASSUME p # NoUnit PROVE p \in Unit!Present(t) /\ p \notin Unit!Subtree(t, u)
        OBVIOUS
      <4>2. p \in Unit!Present(was) /\ p # u /\ p \notin Unit!Below(was, u)
        BY <1>5, <4>1 DEF MoveChecked, Unit!Subtree
      <4>3. p \notin Unit!Below(t, u)
        BY <1>6, <3>1, <4>2, StillApart
      <4> QED BY <1>7, <2>3, <4>1, <4>2, <4>3 DEF Unit!Subtree
    <3>3. s[u].parent = p
      BY <1>10, <2>3
    <3> QED BY <1>6, <1>10, <2>1, <2>3, <3>2, <3>3, MoveTree
  <2> QED BY <2>2, <2>3
<1>12. ASSUME late' \subseteq {"filled"} PROVE InRank(s)
  <2>1. late \subseteq {"filled"}
    BY <1>9, <1>12
  <2>2. InRank(t) /\ InRank(was)
    BY <1>2, <1>5, <2>1 DEF TreeSound
  <2>3. \A v \in Unit!Subtree(was, u) : Unit!DepthOf(was, v) # Unit!Guard
    BY <1>9, <1>12
  <2>4. ASSUME NEW v \in Unit!Present(t), v \in Unit!Subtree(was, u) \/ v \in Unit!Subtree(t, u) \/ v = p
        PROVE  t[v] = was[v]
    <3>1. v \in Units /\ ~Unit!Absent(t, v) /\ v # NoUnit
      BY UnitRow, AdministrationAssumption DEF Unit!Present, Unit!Absent
    <3> QED BY <1>9, <1>12, <2>4, <3>1
  <2>5. p # NoUnit => /\ p \in Unit!Present(was) /\ p \notin Unit!Subtree(was, u)
                      /\ Unit!DepthOf(was, p) + 1 <= Tiers - 1
                      /\ p # was[u].parent /\ u \in Unit!Present(t) => p \in Unit!Present(t)
    BY <1>5, <1>7 DEF MoveChecked
  <2> QED BY <1>4, <1>6, <1>8, <2>2, <2>3, <2>4, <2>5, MoveRank
<1> QED BY <1>3, <1>8, <1>9, <1>10, <1>11, <1>12, UnitDone DEF TreeSound

LEMMA AbandonUnitInv ==
  ASSUME UnitInv, NEW q \in Requests, Unit!Abandon(q)
  PROVE  UnitInv'
<1>1. UNCHANGED <<unit, late>> /\ Unit!Move(q, Unit!Idle)
  BY DEF Unit!Abandon
<1>2. Unit!Idle \in UnitForms /\ UnitSlot(Unit!Idle)
  BY DEF UnitForms, UnitSlot, Unit!Idle
<1> QED BY <1>1, <1>2, UnitLoad

\* The units evolve by their own steps, or stand still.
LEMMA UnitsWithin == AdministrationSpec => Unit!Spec
<1>1. AdministrationInit => Unit!Init
  BY DEF AdministrationInit
<1>2. [AdministrationNext]_administration => [Unit!Next]_(Unit!vars)
  BY DEF AdministrationNext, administration, units, Unit!vars
<1> QED BY <1>1, <1>2, PTL DEF AdministrationSpec, Unit!Spec

LEMMA UnitsInvariant == AdministrationSpec => []UnitInv
<1>1. ASSUME UnitInv, [Unit!Next]_(Unit!vars) PROVE UnitInv'
  <2>1. CASE UNCHANGED Unit!vars
    BY <1>1, <2>1 DEF Unit!vars, UnitInv, UnitSlots, UnitSlot
  <2>2. ASSUME NEW q \in Requests, Unit!Insert(q) \/ Unit!Appoint(q) \/ Unit!Destroy(q)
        PROVE  UnitInv'
    BY <1>1, <2>2, InsertUnitInv, AppointUnitInv, DestroyUnitInv
  <2>3. ASSUME NEW q \in Requests, Unit!Reparent(q) \/ Unit!Abandon(q) PROVE UnitInv'
    BY <1>1, <2>3, ReparentUnitInv, AbandonUnitInv
  <2> QED BY <1>1, <2>1, <2>2, <2>3, LoadsUnitInv DEF Unit!Next
<1> QED BY <1>1, InitUnitInv, UnitsWithin, PTL DEF Unit!Spec

LEMMA UnitTyped == ASSUME UnitInv PROVE Unit!TypeOK
<1>1. \A u \in Units : unit[u] \in Unit!Rows \cup {Unit!Gone}
  BY DEF UnitInv, TreeSound, UnitTrees
<1>2. ASSUME NEW r \in UnitForms
      PROVE  \/ r = Unit!Idle
             \/ /\ r.pc \in {"insert", "appoint"} /\ r.to \in Unit!Rows /\ r.was \in Unit!Rows \cup {Unit!Gone}
                /\ r.of \in Units
             \/ r.pc = "destroy" /\ r.of \in Units
             \/ /\ r.pc = "reparent" /\ r.of \in Units /\ r.to \in Units \cup {NoUnit}
                /\ \A u \in Units : r.was[u] \in Unit!Rows \cup {Unit!Gone}
  <2>1. r.pc = "reparent" => \A u \in Units : r.was[u] \in Unit!Rows \cup {Unit!Gone}
    BY UnitFields DEF UnitTrees
  <2> QED BY <2>1, UnitFields
<1> QED BY <1>1, <1>2 DEF UnitInv, LateKinds, Unit!TypeOK

\* depthOf stops beyond the last tier: where it stops, the tier is the same.
LEMMA InRankRanked ==
  ASSUME NEW t \in UnitTrees, InRank(t), NEW u \in Unit!Present(t)
  PROVE  t[u].tier = Unit!TierAt(Unit!DepthOf(t, u)) /\ t[u].appt \subseteq {t[u].tier}
<1>1. PICK f : Ranks(t, f) /\ Tiered(t, f)
  BY DEF InRank
<1>2. f[u] \in Nat /\ Unit!Guard \in Nat /\ Unit!Guard > Tiers /\ Tiers \in Nat \ {0}
  BY <1>1, DepthType DEF Ranks, Unit!Present
<1>3. Unit!DepthOf(t, u) = IF f[u] <= Unit!Guard THEN f[u] ELSE Unit!Guard
  BY <1>1, DepthRank
<1>4. Unit!TierAt(Unit!DepthOf(t, u)) = Unit!TierAt(f[u])
  BY <1>2, <1>3 DEF Unit!TierAt
<1> QED BY <1>1, <1>4 DEF Tiered

LeavesGo ==
  \A u \in Units : ~Unit!Absent(unit, u) /\ Unit!Absent(unit, u)' => Unit!Children(unit, u) = {} \/ "filled" \in late'

LEMMA OnlyDestroyRemoves == ASSUME UnitInv, [Unit!Next]_(Unit!vars) PROVE LeavesGo
<1>1. SUFFICES ASSUME NEW u \in Units, ~Unit!Absent(unit, u), Unit!Absent(unit, u)'
               PROVE  Unit!Children(unit, u) = {} \/ "filled" \in late'
  BY DEF LeavesGo
<1>2. PICK t \in UnitTrees : t = unit
  BY DEF UnitInv, TreeSound
<1>3. PICK s : s = unit' /\ s # t /\ s[u] = Unit!Gone /\ t[u] # Unit!Gone
  BY <1>1, <1>2 DEF Unit!Absent
<1>4. ASSUME NEW q \in Requests, Unit!Insert(q) PROVE FALSE
  <2>1. PICK r \in UnitForms : r = unitReq[q]
    BY DEF UnitInv
  <2>2. r.pc = "insert" /\ s = [t EXCEPT ![r.of] = r.to]
    BY <1>2, <1>3, <1>4, <2>1 DEF Unit!Insert
  <2>3. r.to # Unit!Gone
    BY <2>1, <2>2, UnitFields, UnitGone
  <2> QED BY <1>2, <1>3, <2>2, <2>3 DEF UnitTrees
<1>5. ASSUME NEW q \in Requests, Unit!Appoint(q) PROVE FALSE
  <2>1. PICK v, a : s = [t EXCEPT ![v].appt = a] /\ t[v] # Unit!Gone /\ v \in Units
    <3>1. PICK r \in UnitForms : r = unitReq[q] /\ r.of \in Units
      BY <1>5, UnitFields DEF UnitInv, Unit!Appoint
    <3>2. PICK v, x : v = r.of /\ v \in Units /\ x = Unit!Changed(t[v].appt, r.was.appt, r.to.appt)
      BY <3>1
    <3>3. ~Unit!Absent(t, v) /\ s = [t EXCEPT ![v].appt = x]
      BY <1>2, <1>3, <1>5, <3>1, <3>2 DEF Unit!Appoint
    <3> QED BY <3>2, <3>3 DEF Unit!Absent
  <2>2. PICK old \in Unit!Rows : old = t[v]
    BY <1>2, <2>1 DEF UnitTrees
  <2>3. s[v] = [old EXCEPT !.appt = a] /\ \A x \in Units : x # v => s[x] = t[x]
    BY <1>2, <2>1, <2>2 DEF UnitTrees
  <2>4. "tier" \in DOMAIN s[v] /\ "tier" \notin DOMAIN Unit!Gone
    BY <2>2, <2>3 DEF Unit!Rows, Unit!Gone
  <2> QED BY <1>3, <2>1, <2>3, <2>4
<1>6. ASSUME NEW q \in Requests, Unit!Reparent(q) PROVE FALSE
  <2>1. PICK r \in UnitForms : r = unitReq[q] /\ UnitSlot(r) /\ r.pc = "reparent"
    BY <1>6 DEF UnitInv, UnitSlots, Unit!Reparent
  <2>2. PICK was \in UnitTrees, p \in Units \cup {NoUnit}, v \in Units : was = r.was /\ p = r.to /\ v = r.of
    BY <2>1, UnitFields
  <2>3. v \in Unit!Present(was)
    BY <2>1, <2>2 DEF UnitSlot, MoveChecked
  <2>4. s = Written(t, was, v, p)
    BY <1>2, <1>3, <1>6, <2>1, <2>2 DEF Unit!Reparent, Written
  <2>5. CASE u \in Unit!Subtree(was, v)
    <3>1. u \in Unit!Present(t)
      BY <1>2, <1>3 DEF Unit!Present
    <3>2. s[u] \in Unit!Rows
      BY <2>3, <2>4, <2>5, <3>1, WrittenRow
    <3> QED BY <1>3, <3>2, UnitGone
  <2>6. CASE u \notin Unit!Subtree(was, v)
    BY <1>3, <2>4, <2>6 DEF Written
  <2> QED BY <2>5, <2>6
<1>7. ASSUME NEW q \in Requests, Unit!Destroy(q)
      PROVE  Unit!Children(unit, u) = {} \/ "filled" \in late'
  <2>1. PICK r \in UnitForms : r = unitReq[q] /\ r.pc = "destroy"
    BY <1>7 DEF UnitInv, Unit!Destroy
  <2>2. PICK v \in Units : v = r.of /\ r.was = {}
    BY <2>1, UnitFields
  <2>3. u \in Unit!Subtree(t, v) /\ (Unit!Children(t, v) # {} => "filled" \in late')
    BY <1>1, <1>2, <1>3, <1>7, <2>1, <2>2 DEF Unit!Destroy
  <2>4. CASE Unit!Children(t, v) = {}
    <3>1. Closed(t, v, {})
      BY <2>4 DEF Closed
    <3>2. u = v
      BY <2>3, <3>1, BelowLeast DEF Unit!Subtree
    <3> QED BY <1>2, <2>4, <3>2
  <2> QED BY <2>3, <2>4
<1>8. unit' # unit
  BY <1>2, <1>3
<1>9. PICK q \in Requests : Unit!Insert(q) \/ Unit!Appoint(q) \/ Unit!Reparent(q) \/ Unit!Destroy(q)
  BY <1>8 DEF Unit!Next, Unit!vars, Unit!LoadDelete, Unit!LoadAppoint, Unit!LoadCreate, Unit!LoadMove,
  Unit!Abandon
<1> QED BY <1>4, <1>5, <1>6, <1>7, <1>9

\* However many units an organization has and however many people work on them at once,
\* no unit ends up below itself, every unit has the tier of its depth with appointments
\* of that tier, and only a unit without sub-units is deleted (createOrgUnit,
\* updateOrgUnit, deleteOrgUnit, reparentOrgUnit), but for the exceptions OrgUnits names.
THEOREM TreeIsKept == AdministrationSpec => TreeKept
<1>1. ASSUME UnitInv PROVE Unit!Rooted /\ Unit!Ranked
  <2>1. PICK t \in UnitTrees : t = unit /\ TreeSound(t, late)
    BY <1>1 DEF UnitInv, TreeSound
  <2>2. Unit!Rooted
    BY <2>1 DEF TreeSound, Acyclic, Unit!Rooted
  <2>3. ASSUME late \subseteq {"filled"}, NEW u \in Unit!Present(t)
        PROVE  t[u].tier = Unit!TierAt(Unit!DepthOf(t, u)) /\ t[u].appt \subseteq {t[u].tier}
    BY <2>1, <2>3, InRankRanked DEF TreeSound
  <2> QED BY <2>1, <2>2, <2>3 DEF Unit!Ranked
<1>2. UnitInv /\ [Unit!Next]_(Unit!vars) => [LeavesGo]_(Unit!vars)
  BY OnlyDestroyRemoves
<1>3. [LeavesGo]_(Unit!vars) <=> [\A u \in Units : ~Unit!Absent(unit, u) /\ Unit!Absent(unit, u)' =>
                                     Unit!Children(unit, u) = {} \/ "filled" \in late']_(Unit!vars)
  BY DEF LeavesGo
<1>4. AdministrationSpec => [](Unit!Rooted /\ Unit!Ranked)
  BY <1>1, UnitsInvariant, PTL
<1>5. AdministrationSpec => Unit!OnlyLeavesGo
  BY <1>2, <1>3, UnitsInvariant, UnitsWithin, PTL DEF Unit!Spec, Unit!OnlyLeavesGo
<1> QED BY <1>4, <1>5 DEF TreeKept, Unit!TreeKept

-----------------------------------------------------------------------------
\* Whatever administrators work on, the rows and the requests keep to their types.
THEOREM AdministrationTypes == AdministrationSpec => []TypesOK
<1>1. AdministrationSpec => Spec
  <2>1. AdministrationInit => Init
    BY DEF AdministrationInit
  <2>2. [AdministrationNext]_administration => [Next]_vars
    BY DEF AdministrationNext, administration
  <2> QED BY <2>1, <2>2, PTL DEF AdministrationSpec, Spec
<1>2. TInv /\ AInv /\ SitesInv /\ UnitInv /\ FindInv => TypesOK
  BY UnitTyped DEF TInv, AInv, SitesInv, FindInv, TypesOK
<1> QED BY <1>1, <1>2, TenancyInvariant, AccountsInvariant, SitesInvariant, UnitsInvariant, FindingInvariant, PTL
=============================================================================
