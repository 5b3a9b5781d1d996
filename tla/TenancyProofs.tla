---------------------------- MODULE TenancyProofs ----------------------------
(***************************************************************************)
(* For any numbers of registration requests, organizations, proposals and  *)
(* handlers in flight, with crashes: the safety properties of Tenancy.     *)
(*                                                                         *)
(* None of them is inductive.  What a handler in flight carries            *)
(* (RegSlots, LifeSlots) stands for the check it made; a request becomes   *)
(* one tenant because, while nobody edits it under an approval, every      *)
(* approval carries the proposal the tenant was made from (OneProposal),   *)
(* and the unique indexes let that in once; and whatever the two statuses  *)
(* of a tenant, or its sessions, still lack is on its way in a handler     *)
(* (StatusOnItsWay, RevocationOnItsWay).                                   *)
(***************************************************************************)
EXTENDS Tenancy, TLAPS

RegPcs == {"update", "status", "approve"}
LifePcs == {"profile", "organization", "revoke", "token"}

\* What a handler on a registration request carries.
RegSlot(s) ==
  /\ s.pc \in RegPcs => s.on \in Regs /\ s.was \in RegStatuses \ Decided
  /\ s.pc = "status" => s.new \in RegStatuses \ {"absent", "Approved"}

\* What a handler on an organization carries.
LifeSlot(s) ==
  /\ s.pc \in LifePcs => s.on \in Orgs
  /\ s.pc = "profile" => s.new \in TenantStatuses
  /\ s.pc = "organization" => /\ s.new \in OrgStatuses \ {"absent"}
                              /\ s.was # Nothing => s.was \in TenantStatuses /\ s.new = OrgStatusFor(s.was)
  /\ s.pc = "token" => s.orgWas \notin Blocked

RegSlots ==
  \A q \in Requests : RegSlot(req[q]) /\ (req[q].pc \in RegPcs => reg[req[q].on].status # "absent")

LifeSlots ==
  \A q \in Requests : LifeSlot(req[q]) /\ (req[q].pc \in LifePcs => org[req[q].on] # "absent")

\* An organization that was not created yet has nothing of its own.
Unborn == \A o \in Orgs : org[o] = "absent" => profile[o] = Nothing /\ origin[o].reg = Nothing

OneProposal ==
  \A r \in Regs : ~disturbed[r] =>
    /\ \A q \in Requests : req[q].pc = "approve" /\ req[q].on = r => req[q].proposal = reg[r].proposal
    /\ \A o \in Orgs : origin[o].reg = r => reg[r].status = "Approved" /\ origin[o].proposal = reg[r].proposal

\* The handler that will make the two statuses of o agree.
Brings(s, o) ==
  /\ s.pc = "organization" /\ s.on = o
  /\ s.was = profile[o] /\ s.new = OrgStatusFor(profile[o])

StatusOnItsWay ==
  \A o \in Orgs :
    profile[o] # Nothing /\ ~raced[o] /\ ~sidestepped[o] =>
      org[o] = OrgStatusFor(profile[o]) \/ \E q \in Requests : Brings(req[q], o)

Revokes(s, o) == s.pc = "revoke" /\ s.on = o

RevocationOnItsWay ==
  \A o \in Orgs : org[o] \in Blocked /\ ~raced[o] /\ session[o] => \E q \in Requests : Revokes(req[q], o)

RegPart == RegSlots /\ ApprovedHasTenant /\ OneProposal /\ OneTenantPerRequest
LifePart == LifeSlots /\ StatusOnItsWay /\ RevocationOnItsWay
TInv == TypeOK /\ Unborn /\ RegPart /\ LifePart

Registrations == [status : RegStatuses, proposal : Proposals \cup {Nothing}, tenant : Orgs \cup {Nothing}]
Others(q) == \A p \in Requests : p # q => req'[p] = req[p]

-----------------------------------------------------------------------------
LEMMA ReqUpdate ==
  ASSUME TypeOK, NEW q \in Requests, NEW s \in Slots, Move(q, s)
  PROVE  Others(q) /\ req'[q] = s /\ req' \in [Requests -> Slots]
BY DEF TypeOK, Move, Others

LEMMA IdleSlot == Idle \in Slots /\ Idle.pc = "idle" /\ Dead \in Slots /\ Dead.pc = "crashed"
BY DEF Idle, Dead, Slots

LEMMA InitTInv == ASSUME Init PROVE TInv
<1>1. TypeOK
  BY IdleSlot DEF Init, TypeOK, RegStatuses, OrgStatuses
<1>2. Unborn
  BY DEF Init, Unborn
<1>3. RegPart
  BY IdleSlot, TenancyAssumption
  DEF Init, RegPart, RegSlots, RegSlot, RegPcs, ApprovedHasTenant, OneProposal, OneTenantPerRequest
<1>4. LifePart
  BY IdleSlot
  DEF Init, LifePart, LifeSlots, LifeSlot, LifePcs, StatusOnItsWay, RevocationOnItsWay, Blocked
<1> QED BY <1>1, <1>2, <1>3, <1>4 DEF TInv

\* A step of q that changes no request leaves what is known of the requests.
LEMMA RegKept ==
  ASSUME TInv, NEW q \in Requests, NEW s \in Slots, Move(q, s),
         UNCHANGED <<reg, disturbed, origin>>,
         \A o \in Orgs : org[o] # "absent" => org'[o] # "absent",
         RegSlot(s),
         s.pc \in RegPcs => reg[s.on].status # "absent",
         s.pc = "approve" => s.proposal = reg[s.on].proposal
  PROVE  RegPart'
<1> USE DEF TInv, RegPart
<1>1. Others(q) /\ req'[q] = s
  BY ReqUpdate
<1>2. RegSlots'
  BY <1>1 DEF RegSlots, RegSlot, Others
<1>3. ApprovedHasTenant'
  BY DEF ApprovedHasTenant
<1>4. OneProposal'
  BY <1>1 DEF OneProposal, Others
<1>5. OneTenantPerRequest'
  BY DEF OneTenantPerRequest
<1> QED BY <1>2, <1>3, <1>4, <1>5

\* A step of q that changes no organization and ends no save leaves what is known of
\* the organizations.
LEMMA LifeKept ==
  ASSUME TInv, NEW q \in Requests, NEW s \in Slots, Move(q, s),
         UNCHANGED <<org, profile, session, raced, sidestepped>>,
         req[q].pc \notin {"organization", "revoke"},
         LifeSlot(s),
         s.pc \in LifePcs => org[s.on] # "absent"
  PROVE  LifePart'
<1> USE DEF TInv, LifePart
<1>1. Others(q) /\ req'[q] = s
  BY ReqUpdate
<1>2. LifeSlots'
  BY <1>1 DEF LifeSlots, LifeSlot, Others
<1>3. StatusOnItsWay'
  BY <1>1 DEF StatusOnItsWay, Brings, Others
<1>4. RevocationOnItsWay'
  BY <1>1 DEF RevocationOnItsWay, Revokes, Others
<1> QED BY <1>2, <1>3, <1>4

\* A new organization is not blocked, and its profile, if it has one, agrees.
LEMMA LifeCreated ==
  ASSUME TInv, NEW o \in Orgs, org[o] = "absent",
         NEW st \in OrgStatuses \ (Blocked \cup {"absent"}), org' = [org EXCEPT ![o] = st],
         profile'[o] = Nothing \/ st = OrgStatusFor(profile'[o]),
         \A x \in Orgs : x # o => profile'[x] = profile[x],
         UNCHANGED <<session, raced, sidestepped>>,
         \A p \in Requests : req'[p] = req[p] \/ (req'[p] = Idle /\ req[p].pc \notin LifePcs)
  PROVE  LifePart'
<1> USE DEF TInv, LifePart
<1>1. org'[o] = st /\ \A x \in Orgs : x # o => org'[x] = org[x]
  BY DEF TypeOK
<1>2. LifeSlots'
  BY <1>1, IdleSlot DEF LifeSlots, LifeSlot, LifePcs
<1>3. StatusOnItsWay'
  BY <1>1 DEF StatusOnItsWay, Brings, LifePcs
<1>4. RevocationOnItsWay'
  BY <1>1 DEF RevocationOnItsWay, Revokes, LifePcs
<1> QED BY <1>2, <1>3, <1>4

\* The same for a new organization that no request is answered with.
LEMMA RegCreated ==
  ASSUME TInv, NEW o \in Orgs, org[o] = "absent", NEW p \in Proposals \cup {Nothing},
         NEW st \in OrgStatuses \ {"absent"},
         org' = [org EXCEPT ![o] = st],
         origin' = [origin EXCEPT ![o] = [reg |-> Nothing, proposal |-> p]],
         UNCHANGED <<reg, disturbed, req>>
  PROVE  RegPart'
<1> USE DEF TInv, RegPart
<1>1. /\ org'[o] = st /\ origin'[o].reg = Nothing
      /\ \A x \in Orgs : x # o => org'[x] = org[x] /\ origin'[x] = origin[x]
  BY DEF TypeOK
<1>2. RegSlots'
  BY DEF RegSlots
<1>3. ApprovedHasTenant'
  BY <1>1 DEF ApprovedHasTenant
<1>4. OneProposal'
  BY <1>1, TenancyAssumption DEF OneProposal
<1>5. OneTenantPerRequest'
  BY <1>1, TenancyAssumption DEF OneTenantPerRequest
<1> QED BY <1>2, <1>3, <1>4, <1>5

\* Everything about a step of q that only reads.
LEMMA Read ==
  ASSUME TInv, NEW q \in Requests, NEW s \in Slots, Move(q, s), UNCHANGED <<orgVars, regVars>>,
         req[q].pc \notin {"organization", "revoke"},
         RegSlot(s), LifeSlot(s),
         s.pc \in RegPcs => reg[s.on].status # "absent",
         s.pc = "approve" => s.proposal = reg[s.on].proposal,
         s.pc \in LifePcs => org[s.on] # "absent"
  PROVE  TInv'
<1>1. TypeOK' /\ Unborn'
  BY ReqUpdate DEF TInv, TypeOK, Unborn, orgVars, regVars
<1>2. RegPart'
  BY RegKept DEF orgVars, regVars
<1>3. LifePart'
  BY LifeKept DEF orgVars, regVars
<1> QED BY <1>1, <1>2, <1>3 DEF TInv

-----------------------------------------------------------------------------
LEMMA SubmitTInv ==
  ASSUME TInv, NEW r \in Regs, NEW p \in Proposals, NEW asDraft \in BOOLEAN, Submit(r, p, asDraft)
  PROVE  TInv'
<1> DEFINE st == IF asDraft THEN "Draft" ELSE "Submitted"
<1> DEFINE row == [status |-> st, proposal |-> p, tenant |-> Nothing]
<1>1. st \in {"Draft", "Submitted"} /\ reg[r].status = "absent" /\ reg' = [reg EXCEPT ![r] = row]
      /\ UNCHANGED <<orgVars, disturbed, req>>
  BY DEF Submit
<1>2. row \in Registrations /\ row.status \notin {"absent", "Approved"} /\ row.status = st
  BY <1>1 DEF Registrations, RegStatuses
<1> HIDE DEF st, row
<1>3. TypeOK' /\ Unborn'
  BY <1>1, <1>2 DEF TInv, TypeOK, Unborn, orgVars, Registrations
<1>4. reg'[r] = row /\ \A x \in Regs : x # r => reg'[x] = reg[x]
  BY <1>1 DEF TInv, TypeOK
<1>5. RegPart'
  <2>1. RegSlots'
    BY <1>1, <1>2, <1>4 DEF TInv, RegPart, RegSlots, RegSlot
  <2>2. ApprovedHasTenant' /\ OneTenantPerRequest'
    BY <1>1, <1>2, <1>4 DEF TInv, RegPart, ApprovedHasTenant, OneTenantPerRequest, orgVars
  <2>3. OneProposal'
    BY <1>1, <1>2, <1>4 DEF TInv, RegPart, OneProposal, RegSlots, RegPcs, orgVars
  <2> QED BY <2>1, <2>2, <2>3 DEF RegPart
<1>6. LifePart'
  BY <1>1 DEF TInv, LifePart, LifeSlots, StatusOnItsWay, Brings, RevocationOnItsWay, orgVars
<1> QED BY <1>3, <1>5, <1>6 DEF TInv

\* An edit or a transition may overwrite a decision, and is then remembered; neither
\* approves.
LEMMA SaveUpdateTInv ==
  ASSUME TInv, NEW q \in Requests, SaveUpdate(q)
  PROVE  TInv'
<1> DEFINE r == req[q].on
<1> DEFINE row == [status |-> reg[r].status, proposal |-> req[q].proposal, tenant |-> reg[r].tenant]
<1>1. /\ r \in Regs /\ req[q].pc = "update" /\ reg[r].status # "absent"
      /\ reg \in [Regs -> Registrations] /\ disturbed \in [Regs -> BOOLEAN]
      /\ req[q].proposal \in Proposals \cup {Nothing}
  BY DEF SaveUpdate, TInv, RegPart, RegSlots, RegSlot, RegPcs, TypeOK, Registrations, Slots
<1>2. reg' = [reg EXCEPT ![r] = row]
  <2>1. [reg[r] EXCEPT !.proposal = req[q].proposal] = row
    BY <1>1 DEF Registrations
  <2> QED BY <2>1, <1>1 DEF SaveUpdate
<1>3. row \in Registrations /\ row.status = reg[r].status /\ row.tenant = reg[r].tenant
  BY <1>1 DEF Registrations
<1> HIDE DEF row
<1>4. reg'[r] = row /\ \A x \in Regs : x # r => reg'[x] = reg[x]
  BY <1>1, <1>2
<1>5. /\ \A x \in Regs : disturbed[x] => disturbed'[x]
      /\ ~disturbed'[r] => /\ reg[r].status \notin Decided
                           /\ \A p \in Requests : ~(req[p].pc = "approve" /\ req[p].on = r)
      /\ disturbed' \in [Regs -> BOOLEAN]
  BY <1>1 DEF SaveUpdate
<1>6. Others(q) /\ req'[q] = Idle /\ req' \in [Requests -> Slots]
  BY ReqUpdate, IdleSlot DEF SaveUpdate, TInv
<1>7. UNCHANGED orgVars
  BY DEF SaveUpdate
<1> HIDE DEF r
<1>8. TypeOK' /\ Unborn'
  BY <1>1, <1>2, <1>3, <1>5, <1>6, <1>7 DEF TInv, TypeOK, Unborn, orgVars, Registrations
<1>9. RegPart'
  <2>1. RegSlots'
    BY <1>3, <1>4, <1>6, IdleSlot DEF TInv, RegPart, RegSlots, RegSlot, RegPcs, Others
  <2>2. ApprovedHasTenant'
    BY <1>3, <1>4, <1>7 DEF TInv, RegPart, ApprovedHasTenant, orgVars
  <2>3. OneTenantPerRequest'
    BY <1>5, <1>7 DEF TInv, RegPart, OneTenantPerRequest, orgVars
  <2>4. OneProposal'
    BY <1>3, <1>4, <1>5, <1>6, <1>7, IdleSlot DEF TInv, RegPart, OneProposal, Others, orgVars, Decided
  <2> QED BY <2>1, <2>2, <2>3, <2>4 DEF RegPart
<1>10. LifePart'
  BY <1>1, <1>7, LifeKept, IdleSlot DEF SaveUpdate, LifeSlot, LifePcs, orgVars
<1> QED BY <1>8, <1>9, <1>10 DEF TInv

LEMMA SaveStatusTInv ==
  ASSUME TInv, NEW q \in Requests, SaveStatus(q)
  PROVE  TInv'
<1> DEFINE r == req[q].on
<1> DEFINE row == [status |-> req[q].new, proposal |-> reg[r].proposal, tenant |-> reg[r].tenant]
<1>1. /\ r \in Regs /\ req[q].pc = "status" /\ reg[r].status # "absent"
      /\ reg \in [Regs -> Registrations] /\ disturbed \in [Regs -> BOOLEAN]
      /\ req[q].new \in RegStatuses \ {"absent", "Approved"}
  BY DEF SaveStatus, TInv, RegPart, RegSlots, RegSlot, RegPcs, TypeOK, Registrations
<1>2. reg' = [reg EXCEPT ![r] = row]
  <2>1. [reg[r] EXCEPT !.status = req[q].new] = row
    BY <1>1 DEF Registrations
  <2> QED BY <2>1, <1>1 DEF SaveStatus
<1>3. row \in Registrations /\ row.status \notin {"absent", "Approved"} /\ row.proposal = reg[r].proposal
  BY <1>1 DEF Registrations
<1> HIDE DEF row
<1>4. reg'[r] = row /\ \A x \in Regs : x # r => reg'[x] = reg[x]
  BY <1>1, <1>2
<1>5. /\ \A x \in Regs : disturbed[x] => disturbed'[x]
      /\ ~disturbed'[r] => reg[r].status \notin Decided
      /\ disturbed' \in [Regs -> BOOLEAN]
  BY <1>1 DEF SaveStatus
<1>6. Others(q) /\ req'[q] = Idle /\ req' \in [Requests -> Slots]
  BY ReqUpdate, IdleSlot DEF SaveStatus, TInv
<1>7. UNCHANGED orgVars
  BY DEF SaveStatus
<1> HIDE DEF r
<1>8. TypeOK' /\ Unborn'
  BY <1>1, <1>2, <1>3, <1>5, <1>6, <1>7 DEF TInv, TypeOK, Unborn, orgVars, Registrations
<1>9. RegPart'
  <2>1. RegSlots'
    BY <1>3, <1>4, <1>6, IdleSlot DEF TInv, RegPart, RegSlots, RegSlot, RegPcs, Others
  <2>2. ApprovedHasTenant'
    BY <1>3, <1>4, <1>7 DEF TInv, RegPart, ApprovedHasTenant, orgVars
  <2>3. OneTenantPerRequest'
    BY <1>5, <1>7 DEF TInv, RegPart, OneTenantPerRequest, orgVars
  <2>4. OneProposal'
    BY <1>3, <1>4, <1>5, <1>6, <1>7, IdleSlot DEF TInv, RegPart, OneProposal, Others, orgVars, Decided
  <2> QED BY <2>1, <2>2, <2>3, <2>4 DEF RegPart
<1>10. LifePart'
  BY <1>1, <1>7, LifeKept, IdleSlot DEF SaveStatus, LifeSlot, LifePcs, orgVars
<1> QED BY <1>8, <1>9, <1>10 DEF TInv

\* Approving once more meets the unique index: undisturbed, every approval of r carries
\* the proposal the first tenant was made from.
LEMMA ApproveTInv ==
  ASSUME TInv, NEW q \in Requests, NEW o \in NewOrgs, Approve(q, o)
  PROVE  TInv'
<1> DEFINE r == req[q].on
<1> DEFINE p == req[q].proposal
<1> DEFINE row == [status |-> "Approved", proposal |-> reg[r].proposal, tenant |-> o]
<1> DEFINE born == [reg |-> r, proposal |-> p]
<1>1. /\ r \in Regs /\ req[q].pc = "approve" /\ o \in Orgs /\ org[o] = "absent" /\ r # Nothing
      /\ reg \in [Regs -> Registrations] /\ p \in Proposals \cup {Nothing}
  BY TenancyAssumption
  DEF Approve, NewOrgs, TInv, RegPart, RegSlots, RegSlot, RegPcs, TypeOK, Registrations, Slots
<1>2. /\ reg' = [reg EXCEPT ![r] = row] /\ origin' = [origin EXCEPT ![o] = born]
      /\ org' = [org EXCEPT ![o] = "Active"] /\ ~Taken(p)
      /\ UNCHANGED <<profile, session, raced, sidestepped, disturbed>>
  BY DEF Approve
<1>3. /\ row \in Registrations /\ row.status = "Approved" /\ row.proposal = reg[r].proposal /\ row.tenant = o
      /\ born \in [reg : Regs \cup {Nothing}, proposal : Proposals \cup {Nothing}]
      /\ born.reg = r /\ born.proposal = p
  BY <1>1 DEF Registrations, RegStatuses
<1> HIDE DEF row, born
<1>4. /\ reg'[r] = row /\ \A x \in Regs : x # r => reg'[x] = reg[x]
      /\ origin'[o] = born /\ \A x \in Orgs : x # o => origin'[x] = origin[x]
      /\ org'[o] = "Active" /\ \A x \in Orgs : x # o => org'[x] = org[x]
  BY <1>1, <1>2 DEF TInv, TypeOK
<1>5. Others(q) /\ req'[q] = Idle /\ req' \in [Requests -> Slots]
  BY ReqUpdate, IdleSlot DEF Approve, TInv
<1>6. \A x \in Orgs : origin[x].reg = r => disturbed[r]
  <2> SUFFICES ASSUME NEW x \in Orgs, origin[x].reg = r, ~disturbed[r] PROVE FALSE
    OBVIOUS
  <2>1. origin[x].proposal = p
    BY <1>1 DEF TInv, RegPart, OneProposal
  <2>2. org[x] # "absent"
    BY <1>1 DEF TInv, Unborn
  <2> QED BY <1>2, <2>1, <2>2 DEF Taken
<1>7. ~disturbed[r] => p = reg[r].proposal
  BY <1>1 DEF TInv, RegPart, OneProposal
<1> HIDE DEF r, p
<1>8. TypeOK'
  BY <1>1, <1>2, <1>3, <1>5 DEF TInv, TypeOK, Registrations, OrgStatuses
<1>9. Unborn'
  BY <1>2, <1>4 DEF TInv, Unborn
<1>10. RegPart'
  <2>1. RegSlots'
    BY <1>3, <1>4, <1>5, IdleSlot DEF TInv, RegPart, RegSlots, RegSlot, RegPcs, Others
  <2>2. ApprovedHasTenant'
    BY <1>1, <1>3, <1>4 DEF TInv, RegPart, ApprovedHasTenant
  <2>3. OneTenantPerRequest'
    BY <1>2, <1>3, <1>4, <1>6 DEF TInv, RegPart, OneTenantPerRequest
  <2>4. OneProposal'
    BY <1>2, <1>3, <1>4, <1>5, <1>7, IdleSlot DEF TInv, RegPart, OneProposal, Others
  <2> QED BY <2>1, <2>2, <2>3, <2>4 DEF RegPart
<1>11. LifePart'
  <2>1. \A x \in Requests : req'[x] = req[x] \/ (req'[x] = Idle /\ req[x].pc \notin LifePcs)
    BY <1>1, <1>5 DEF Others, LifePcs
  <2>2. "Active" \in OrgStatuses \ (Blocked \cup {"absent"}) /\ profile'[o] = Nothing
    BY <1>1, <1>2 DEF OrgStatuses, Blocked, TInv, Unborn
  <2> QED BY <1>1, <1>2, <2>1, <2>2, LifeCreated
<1> QED BY <1>8, <1>9, <1>10, <1>11 DEF TInv

\* An approved request has its tenant already: nothing is left for Provision to link.
LEMMA ProvisionLinksNothing ==
  ASSUME TInv, NEW o, NEW p, NEW s, NEW r, Provision(o, p, s, r)
  PROVE  reg' = reg
<1>1. \A x \in Regs : ~(reg[x].status = "Approved" /\ reg[x].tenant = Nothing)
  BY TenancyAssumption DEF TInv, RegPart, ApprovedHasTenant
<1>2. reg' = [x \in Regs |-> reg[x]]
  BY <1>1 DEF Provision
<1> QED BY <1>2 DEF TInv, TypeOK

LEMMA ProvisionTInv ==
  ASSUME TInv, NEW o \in NewOrgs, NEW p \in Proposals, NEW s \in {"Draft", "Pending Activation"}, NEW r,
         Provision(o, p, s, r)
  PROVE  TInv'
<1> DEFINE born == [reg |-> Nothing, proposal |-> p]
<1>1. /\ o \in Orgs /\ org[o] = "absent" /\ s \in TenantStatuses
      /\ OrgStatusFor(s) \in OrgStatuses \ (Blocked \cup {"absent"})
  BY DEF NewOrgs, OrgStatusFor, OrgStatuses, Blocked, TenantStatuses
<1>2. /\ org' = [org EXCEPT ![o] = OrgStatusFor(s)] /\ profile' = [profile EXCEPT ![o] = s]
      /\ origin' = [origin EXCEPT ![o] = born]
      /\ UNCHANGED <<reg, session, raced, sidestepped, disturbed, req>>
  <2>1. reg' = reg
    BY ProvisionLinksNothing
  <2> QED BY <2>1 DEF Provision
<1>3. born \in [reg : Regs \cup {Nothing}, proposal : Proposals \cup {Nothing}]
  OBVIOUS
<1>4. RegPart'
  BY <1>1, <1>2, RegCreated
<1> HIDE DEF born
<1>5. TypeOK'
  BY <1>1, <1>2, <1>3 DEF TInv, TypeOK
<1>6. /\ profile'[o] = s
      /\ \A x \in Orgs : x # o => profile'[x] = profile[x] /\ org'[x] = org[x] /\ origin'[x] = origin[x]
      /\ org'[o] = OrgStatusFor(s)
  BY <1>1, <1>2 DEF TInv, TypeOK
<1>7. Unborn'
  BY <1>1, <1>6 DEF TInv, Unborn
<1>8. LifePart'
  BY <1>1, <1>2, <1>6, LifeCreated
<1> QED BY <1>4, <1>5, <1>7, <1>8 DEF TInv

LEMMA CreateOrganizationTInv ==
  ASSUME TInv, NEW o \in NewOrgs, NEW p \in Proposals, CreateOrganization(o, p)
  PROVE  TInv'
<1> DEFINE born == [reg |-> Nothing, proposal |-> p]
<1>1. o \in Orgs /\ org[o] = "absent" /\ "Active" \in OrgStatuses \ (Blocked \cup {"absent"})
  BY DEF NewOrgs, OrgStatuses, Blocked
<1>2. /\ org' = [org EXCEPT ![o] = "Active"] /\ origin' = [origin EXCEPT ![o] = born]
      /\ UNCHANGED <<reg, profile, session, raced, sidestepped, disturbed, req>>
  BY DEF CreateOrganization, regVars
<1>3. born \in [reg : Regs \cup {Nothing}, proposal : Proposals \cup {Nothing}]
  OBVIOUS
<1>4. RegPart'
  BY <1>1, <1>2, RegCreated
<1> HIDE DEF born
<1>5. TypeOK'
  BY <1>1, <1>2, <1>3 DEF TInv, TypeOK
<1>6. /\ \A x \in Orgs : x # o => org'[x] = org[x] /\ origin'[x] = origin[x]
      /\ org'[o] = "Active" /\ profile[o] = Nothing
  BY <1>1, <1>2 DEF TInv, TypeOK, Unborn
<1>7. Unborn'
  BY <1>1, <1>2, <1>6 DEF TInv, Unborn
<1>8. LifePart'
  BY <1>1, <1>2, <1>6, LifeCreated
<1> QED BY <1>4, <1>5, <1>7, <1>8 DEF TInv

-----------------------------------------------------------------------------
LEMMA RegistrationTInv ==
  ASSUME TInv, NEW q \in Requests, Registration(q)
  PROVE  TInv'
<1>t. \A r \in Regs : reg[r].status \in RegStatuses /\ reg[r].proposal \in Proposals \cup {Nothing}
  BY DEF TInv, TypeOK
<1>1. ASSUME NEW r \in Regs, NEW p \in Proposals, LoadUpdate(q, r, p) PROVE TInv'
  <2> DEFINE s == [pc |-> "update", on |-> r, was |-> reg[r].status, orgWas |-> Nothing, new |-> Nothing, proposal |-> p]
  <2>1. Move(q, s) /\ s \in Slots /\ reg[r].status \notin Decided \cup {"absent"} /\ req[q].pc = "idle"
        /\ UNCHANGED <<orgVars, regVars>>
    BY <1>1, <1>t DEF LoadUpdate, Load, Slot, Slots
  <2>2. RegSlot(s) /\ LifeSlot(s) /\ s.pc = "update" /\ s.on = r
    BY <2>1, <1>t DEF RegSlot, LifeSlot, LifePcs
  <2> HIDE DEF s
  <2> QED BY <2>1, <2>2, Read DEF LifePcs
<1>2. ASSUME NEW r \in Regs, NEW n \in RegStatuses, LoadTransition(q, r, n) PROVE TInv'
  <2> DEFINE s == [pc |-> "status", on |-> r, was |-> reg[r].status, orgWas |-> Nothing, new |-> n, proposal |-> Nothing]
  <2>1. Move(q, s) /\ n \in NextStatuses(reg[r].status) /\ s \in Slots /\ req[q].pc = "idle"
        /\ UNCHANGED <<orgVars, regVars>>
    BY <1>2, <1>t DEF LoadTransition, Load, Slot, Slots
  <2>2. reg[r].status \in {"Draft", "Submitted", "Under Review"}
    BY <2>1 DEF NextStatuses
  <2>3. NextStatuses(reg[r].status) \subseteq {"Submitted", "Under Review", "Cancelled"}
    BY <2>2 DEF NextStatuses
  <2>4. n \in {"Submitted", "Under Review", "Cancelled"}
    BY <2>1, <2>3
  <2>5. RegSlot(s) /\ LifeSlot(s) /\ s.pc = "status" /\ s.on = r
    BY <2>2, <2>4, <1>t DEF RegSlot, LifeSlot, LifePcs, Decided
  <2> HIDE DEF s
  <2> QED BY <2>1, <2>2, <2>5, Read DEF LifePcs
<1>3. ASSUME NEW r \in Regs, LoadReject(q, r) PROVE TInv'
  <2> DEFINE s == [pc |-> "status", on |-> r, was |-> reg[r].status, orgWas |-> Nothing, new |-> "Rejected", proposal |-> Nothing]
  <2>1. Move(q, s) /\ reg[r].status \in {"Submitted", "Under Review"} /\ s \in Slots /\ req[q].pc = "idle"
        /\ UNCHANGED <<orgVars, regVars>>
    BY <1>3, <1>t DEF LoadReject, Load, Slot, Slots, Reviewable, RegStatuses
  <2>2. RegSlot(s) /\ LifeSlot(s) /\ s.pc = "status" /\ s.on = r
    BY <2>1, <1>t DEF RegSlot, LifeSlot, LifePcs, Decided, RegStatuses
  <2> HIDE DEF s
  <2> QED BY <2>1, <2>2, Read DEF LifePcs
<1>4. ASSUME NEW r \in Regs, LoadApprove(q, r) PROVE TInv'
  <2> DEFINE s == [pc |-> "approve", on |-> r, was |-> reg[r].status, orgWas |-> Nothing, new |-> "Approved",
                   proposal |-> reg[r].proposal]
  <2>1. Move(q, s) /\ reg[r].status \in {"Submitted", "Under Review"} /\ s \in Slots /\ req[q].pc = "idle"
        /\ UNCHANGED <<orgVars, regVars>>
    BY <1>4, <1>t DEF LoadApprove, Load, Slot, Slots, Reviewable, RegStatuses
  <2>2. RegSlot(s) /\ LifeSlot(s) /\ s.pc = "approve" /\ s.on = r /\ s.proposal = reg[r].proposal
    BY <2>1, <1>t DEF RegSlot, LifeSlot, LifePcs, Decided
  <2> HIDE DEF s
  <2> QED BY <2>1, <2>2, Read DEF LifePcs
<1>5. ASSUME ApproveFails(q) PROVE TInv'
  BY <1>5, IdleSlot, Read DEF ApproveFails, RegSlot, LifeSlot, RegPcs, LifePcs
<1> QED BY <1>1, <1>2, <1>3, <1>4, <1>5, SaveUpdateTInv, SaveStatusTInv, ApproveTInv DEF Registration

-----------------------------------------------------------------------------
\* OrgStatusFor is never "absent", and a save keeps the column or writes the new value.
LEMMA OrgStatusForType == \A s \in TenantStatuses : OrgStatusFor(s) \in OrgStatuses \ {"absent"}
BY DEF TenantStatuses, OrgStatusFor, OrgStatuses

\* Between its two saves a handler of the lifecycle is itself what will make the two
\* statuses agree.
LEMMA SaveProfileTInv ==
  ASSUME TInv, NEW q \in Requests, SaveProfile(q)
  PROVE  TInv'
<1> DEFINE o == req[q].on
<1> DEFINE n == req[q].new
<1> DEFINE s == [pc |-> "organization", on |-> o, was |-> n, orgWas |-> req[q].orgWas,
                 new |-> OrgStatusFor(n), proposal |-> Nothing]
<1>1. /\ o \in Orgs /\ req[q].pc = "profile" /\ org[o] # "absent" /\ req[q] \in Slots
      /\ n \in TenantStatuses /\ OrgStatusFor(n) \in OrgStatuses \ {"absent"}
      /\ profile \in [Orgs -> TenantStatuses \cup {Nothing}] /\ raced \in [Orgs -> BOOLEAN]
  BY OrgStatusForType DEF SaveProfile, TInv, LifePart, LifeSlots, LifeSlot, LifePcs, TypeOK
<1>2. Move(q, s)
  BY DEF SaveProfile, Slot
<1>3. s \in Slots
  BY <1>1 DEF Slots
<1>4. s.pc = "organization" /\ s.on = o /\ s.was = n /\ s.new = OrgStatusFor(n)
  OBVIOUS
<1> HIDE DEF s
<1>5. /\ profile' = [profile EXCEPT ![o] = profile'[o]]
      /\ profile'[o] \in {profile[o], n}
      /\ profile[o] = req[q].was => profile'[o] = n
      /\ \A x \in Orgs : x # o => profile'[x] = profile[x]
  BY <1>1 DEF SaveProfile, Changed
<1>6. /\ raced' \in [Orgs -> BOOLEAN] /\ \A x \in Orgs : raced[x] => raced'[x]
      /\ ~raced'[o] => profile[o] = req[q].was
  BY <1>1 DEF SaveProfile
<1>7. UNCHANGED <<org, origin, session, sidestepped, reg, disturbed>>
  BY DEF SaveProfile, regVars
<1>8. Others(q) /\ req'[q] = s /\ req' \in [Requests -> Slots]
  BY <1>2, <1>3, ReqUpdate DEF TInv
<1>9. RegSlot(s) /\ LifeSlot(s)
  BY <1>1, <1>4 DEF RegSlot, LifeSlot, RegPcs, LifePcs
<1> HIDE DEF o, n
<1>10. profile' \in [Orgs -> TenantStatuses \cup {Nothing}]
  <2>1. profile'[o] \in TenantStatuses \cup {Nothing}
    BY <1>1, <1>5
  <2> QED BY <1>1, <1>5, <2>1
<1>11. TypeOK'
  BY <1>6, <1>7, <1>8, <1>10 DEF TInv, TypeOK
<1>12. Unborn'
  BY <1>1, <1>5, <1>7 DEF TInv, Unborn
<1>13. RegPart'
  BY <1>2, <1>3, <1>4, <1>7, <1>9, RegKept DEF RegPcs
<1>14. LifePart'
  <2>1. LifeSlots'
    BY <1>1, <1>4, <1>7, <1>8, <1>9 DEF TInv, LifePart, LifeSlots, Others
  <2>2. ASSUME NEW x \in Orgs, profile'[x] # Nothing, ~raced'[x], ~sidestepped'[x]
        PROVE  org'[x] = OrgStatusFor(profile'[x]) \/ \E p \in Requests : Brings(req[p], x)'
    <3>1. CASE x = o
      <4>1. profile'[x] = n
        BY <1>5, <1>6, <2>2, <3>1
      <4>2. Brings(req[q], x)'
        BY <1>4, <1>8, <3>1, <4>1 DEF Brings
      <4> QED BY <4>2
    <3>2. CASE x # o
      <4>1. profile'[x] = profile[x] /\ org'[x] = org[x] /\ ~raced[x] /\ ~sidestepped[x]
        BY <1>5, <1>6, <1>7, <2>2, <3>2
      <4>2. CASE org[x] = OrgStatusFor(profile[x])
        BY <4>1, <4>2
      <4>3. CASE \E p \in Requests : Brings(req[p], x)
        <5>1. PICK p \in Requests : Brings(req[p], x)
          BY <4>3
        <5>2. p # q
          BY <1>1, <5>1 DEF Brings
        <5> QED BY <1>8, <4>1, <5>1, <5>2 DEF Brings, Others
      <4> QED BY <2>2, <4>1, <4>2, <4>3 DEF TInv, LifePart, StatusOnItsWay
    <3> QED BY <3>1, <3>2
  <2>3. StatusOnItsWay'
    BY <2>2 DEF StatusOnItsWay
  <2>4. RevocationOnItsWay'
    BY <1>1, <1>6, <1>7, <1>8 DEF TInv, LifePart, RevocationOnItsWay, Revokes, Others
  <2> QED BY <2>1, <2>3, <2>4 DEF LifePart
<1> QED BY <1>11, <1>12, <1>13, <1>14 DEF TInv

\* The save of the organization: the statuses agree afterwards, and if it blocks, the
\* handler is itself what will revoke the sessions.
LEMMA SaveOrgTInv ==
  ASSUME TInv, NEW q \in Requests, SaveOrg(q)
  PROVE  TInv'
<1> DEFINE o == req[q].on
<1> DEFINE n == req[q].new
<1> DEFINE rev == [pc |-> "revoke", on |-> o, was |-> req[q].was, orgWas |-> req[q].orgWas,
                   new |-> n, proposal |-> req[q].proposal]
<1> DEFINE s == IF n = "Active" THEN Idle ELSE rev
<1>1. /\ o \in Orgs /\ req[q].pc = "organization" /\ org[o] # "absent" /\ req[q] \in Slots
      /\ n \in OrgStatuses \ {"absent"}
      /\ req[q].was # Nothing => n = OrgStatusFor(req[q].was)
      /\ org \in [Orgs -> OrgStatuses] /\ raced \in [Orgs -> BOOLEAN] /\ sidestepped \in [Orgs -> BOOLEAN]
  BY DEF SaveOrg, TInv, LifePart, LifeSlots, LifeSlot, LifePcs, TypeOK
<1>2. Move(q, s)
  <2>1. [req[q] EXCEPT !.pc = "revoke"] = rev
    BY <1>1 DEF Slots
  <2> QED BY <2>1 DEF SaveOrg
<1>3. rev \in Slots
  BY <1>1 DEF Slots
<1>4. rev.pc = "revoke" /\ rev.on = o
  OBVIOUS
<1> HIDE DEF rev
<1>5. /\ s \in Slots /\ s.pc \in {"idle", "revoke"} /\ (s.pc = "revoke" => s.on = o)
      /\ n # "Active" => s.pc = "revoke"
  BY <1>3, <1>4, IdleSlot
<1> HIDE DEF s
<1>6. /\ org' = [org EXCEPT ![o] = org'[o]]
      /\ org'[o] \in {org[o], n}
      /\ org[o] = req[q].orgWas => org'[o] = n
      /\ \A x \in Orgs : x # o => org'[x] = org[x]
  BY <1>1 DEF SaveOrg, Changed
<1>7. /\ raced' \in [Orgs -> BOOLEAN] /\ sidestepped' \in [Orgs -> BOOLEAN]
      /\ \A x \in Orgs : (raced[x] => raced'[x]) /\ (sidestepped[x] => sidestepped'[x])
      /\ ~raced'[o] => org[o] = req[q].orgWas /\ (req[q].was # Nothing => profile[o] = req[q].was)
      /\ ~sidestepped'[o] => req[q].was # Nothing
  BY <1>1 DEF SaveOrg
<1>8. UNCHANGED <<profile, origin, session, reg, disturbed>>
  BY DEF SaveOrg, regVars
<1>9. Others(q) /\ req'[q] = s /\ req' \in [Requests -> Slots]
  BY <1>2, <1>5, ReqUpdate DEF TInv
<1>10. RegSlot(s) /\ LifeSlot(s)
  BY <1>1, <1>5 DEF RegSlot, LifeSlot, RegPcs, LifePcs
<1>11. org' \in [Orgs -> OrgStatuses] /\ \A x \in Orgs : org[x] # "absent" <=> org'[x] # "absent"
  <2>1. org'[o] \in OrgStatuses /\ org'[o] # "absent"
    BY <1>1, <1>6
  <2> QED BY <1>1, <1>6, <2>1
<1> HIDE DEF o, n
<1>12. TypeOK'
  BY <1>7, <1>8, <1>9, <1>11 DEF TInv, TypeOK
<1>13. Unborn'
  BY <1>8, <1>11 DEF TInv, Unborn
<1>14. RegPart'
  BY <1>2, <1>5, <1>8, <1>10, <1>11, RegKept DEF RegPcs
<1>15. LifePart'
  <2>1. LifeSlots'
    <3>1. s.pc \in LifePcs => s.on = o /\ org'[o] # "absent"
      BY <1>1, <1>5, <1>11 DEF LifePcs
    <3>2. \A p \in Requests : p # q => LifeSlot(req'[p]) /\ (req'[p].pc \in LifePcs => org'[req'[p].on] # "absent")
      <4> TAKE p \in Requests
      <4> HAVE p # q
      <4>1. req'[p] = req[p]
        BY <1>9 DEF Others
      <4>2. LifeSlot(req[p]) /\ (req[p].pc \in LifePcs => req[p].on \in Orgs /\ org[req[p].on] # "absent")
        BY DEF TInv, LifePart, LifeSlots, LifeSlot
      <4> QED BY <1>11, <4>1, <4>2
    <3> QED BY <1>9, <1>10, <3>1, <3>2 DEF LifeSlots
  <2>2. ASSUME NEW x \in Orgs, profile'[x] # Nothing, ~raced'[x], ~sidestepped'[x]
        PROVE  org'[x] = OrgStatusFor(profile'[x]) \/ \E p \in Requests : Brings(req[p], x)'
    <3>1. CASE x = o
      BY <1>1, <1>6, <1>7, <1>8, <2>2, <3>1 DEF n
    <3>2. CASE x # o
      <4>1. profile'[x] = profile[x] /\ org'[x] = org[x] /\ ~raced[x] /\ ~sidestepped[x]
        BY <1>6, <1>7, <1>8, <2>2, <3>2
      <4>2. CASE org[x] = OrgStatusFor(profile[x])
        BY <4>1, <4>2
      <4>3. CASE \E p \in Requests : Brings(req[p], x)
        <5>1. PICK p \in Requests : Brings(req[p], x)
          BY <4>3
        <5>2. p # q
          BY <3>2, <5>1 DEF Brings, o
        <5> QED BY <1>9, <4>1, <5>1, <5>2 DEF Brings, Others
      <4> QED BY <2>2, <4>1, <4>2, <4>3 DEF TInv, LifePart, StatusOnItsWay
    <3> QED BY <3>1, <3>2
  <2>3. StatusOnItsWay'
    BY <2>2 DEF StatusOnItsWay
  <2>4. ASSUME NEW x \in Orgs, org'[x] \in Blocked, ~raced'[x], session'[x]
        PROVE  \E p \in Requests : Revokes(req[p], x)'
    <3>1. CASE x = o
      <4>1. n # "Active"
        BY <1>6, <1>7, <2>4, <3>1 DEF Blocked
      <4> QED BY <1>5, <1>9, <3>1, <4>1 DEF Revokes
    <3>2. CASE x # o
      <4>1. org[x] \in Blocked /\ ~raced[x] /\ session[x]
        BY <1>6, <1>7, <1>8, <2>4, <3>2
      <4>2. PICK p \in Requests : Revokes(req[p], x)
        BY <4>1 DEF TInv, LifePart, RevocationOnItsWay
      <4>3. p # q
        BY <1>1, <4>2 DEF Revokes
      <4> QED BY <1>9, <4>2, <4>3 DEF Revokes, Others
    <3> QED BY <3>1, <3>2
  <2>5. RevocationOnItsWay'
    BY <2>4 DEF RevocationOnItsWay
  <2> QED BY <2>1, <2>3, <2>5 DEF LifePart
<1> QED BY <1>12, <1>13, <1>14, <1>15 DEF TInv

\* A step that ends a request, or a session, without a save.
LEMMA EndTInv ==
  ASSUME TInv, NEW q \in Requests, NEW s \in {Idle, Dead}, Move(q, s), NEW o \in Orgs,
         UNCHANGED <<org, profile, origin, sidestepped, reg, disturbed>>,
         session' \in [Orgs -> BOOLEAN], raced' \in [Orgs -> BOOLEAN],
         \A x \in Orgs : (raced[x] => raced'[x]) /\ (x # o => session'[x] = session[x]),
         req[q].pc \in {"organization", "revoke"} => req[q].on = o,
         \/ raced'[o]
         \/ req[q].pc = "revoke" /\ ~session'[o]
         \/ req[q].pc = "token" /\ org[o] \notin Blocked
  PROVE  TInv'
<1>1. s \in Slots /\ s.pc \in {"idle", "crashed"}
  BY IdleSlot
<1>2. Others(q) /\ req'[q] = s /\ req' \in [Requests -> Slots]
  BY <1>1, ReqUpdate DEF TInv
<1>3. TypeOK' /\ Unborn'
  BY <1>2 DEF TInv, TypeOK, Unborn
<1>4. RegPart'
  BY <1>1, RegKept DEF RegSlot, RegPcs
<1>5. LifeSlots'
  BY <1>1, <1>2 DEF TInv, LifePart, LifeSlots, LifeSlot, Others, LifePcs
<1>6. StatusOnItsWay'
  BY <1>1, <1>2 DEF TInv, LifePart, StatusOnItsWay, Brings, Others
<1>7. RevocationOnItsWay'
  BY <1>1, <1>2 DEF TInv, LifePart, RevocationOnItsWay, Revokes, Others
<1> QED BY <1>3, <1>4, <1>5, <1>6, <1>7 DEF TInv, LifePart

LEMMA EndSessionTInv ==
  ASSUME TInv, NEW o \in Orgs, EndSession(o)
  PROVE  TInv'
<1>1. /\ session' = [session EXCEPT ![o] = FALSE] /\ session' \in [Orgs -> BOOLEAN]
      /\ \A x \in Orgs : session'[x] => session[x]
      /\ UNCHANGED <<org, profile, origin, raced, sidestepped, reg, disturbed, req>>
  BY DEF EndSession, TInv, TypeOK, regVars
<1>2. TypeOK' /\ Unborn' /\ RegPart'
  BY <1>1 DEF TInv, TypeOK, Unborn, RegPart, RegSlots, ApprovedHasTenant, OneProposal, OneTenantPerRequest
<1>3. LifePart'
  BY <1>1 DEF TInv, LifePart, LifeSlots, StatusOnItsWay, Brings, RevocationOnItsWay, Revokes
<1> QED BY <1>2, <1>3 DEF TInv

LEMMA LifeTInv ==
  ASSUME TInv, NEW q \in Requests, Life(q)
  PROVE  TInv'
<1>t. /\ \A o \in Orgs : org[o] \in OrgStatuses /\ profile[o] \in TenantStatuses \cup {Nothing}
      /\ req[q] \in Slots /\ session \in [Orgs -> BOOLEAN] /\ raced \in [Orgs -> BOOLEAN]
  BY DEF TInv, TypeOK
<1>l. /\ req[q].pc \in LifePcs => req[q].on \in Orgs
      /\ req[q].pc = "token" => req[q].orgWas \notin Blocked
  BY DEF TInv, LifePart, LifeSlots, LifeSlot
<1>1. ASSUME NEW o \in Orgs, NEW op \in Lifecycle, LoadLifecycle(q, o, op) PROVE TInv'
  <2> DEFINE s == [pc |-> "profile", on |-> o, was |-> profile[o], orgWas |-> org[o], new |-> To(op), proposal |-> Nothing]
  <2>1. Move(q, s) /\ profile[o] \in From(op) /\ req[q].pc = "idle" /\ UNCHANGED <<orgVars, regVars>>
    BY <1>1 DEF LoadLifecycle, Slot
  <2>2. To(op) \in TenantStatuses /\ From(op) \subseteq TenantStatuses
    BY DEF To, From, Lifecycle, TenantStatuses
  <2>3. s \in Slots
    BY <1>t, <2>2 DEF Slots
  <2>4. RegSlot(s) /\ LifeSlot(s) /\ s.pc = "profile" /\ s.on = o
    BY <2>2 DEF RegSlot, LifeSlot, RegPcs
  <2>5. org[o] # "absent"
    <3>1. profile[o] \in TenantStatuses /\ Nothing \notin TenantStatuses
      BY <2>1, <2>2 DEF TenantStatuses, Nothing
    <3>2. profile[o] # Nothing
      BY <3>1
    <3> QED BY <3>2 DEF TInv, Unborn
  <2> HIDE DEF s
  <2> QED BY <2>1, <2>3, <2>4, <2>5, Read DEF RegPcs
<1>2. ASSUME NEW o \in Orgs, NEW n \in {"Active", "Suspended"}, LoadOrganization(q, o, n) PROVE TInv'
  <2> DEFINE s == [pc |-> "organization", on |-> o, was |-> Nothing, orgWas |-> org[o], new |-> n, proposal |-> Nothing]
  <2>1. Move(q, s) /\ org[o] # "absent" /\ req[q].pc = "idle" /\ UNCHANGED <<orgVars, regVars>>
    BY <1>2 DEF LoadOrganization, Slot
  <2>2. n \in OrgStatuses \ {"absent"}
    BY DEF OrgStatuses
  <2>3. s \in Slots
    BY <1>t, <2>2 DEF Slots
  <2>4. RegSlot(s) /\ LifeSlot(s) /\ s.pc = "organization" /\ s.on = o
    BY <2>2 DEF RegSlot, LifeSlot, RegPcs
  <2> HIDE DEF s
  <2> QED BY <2>1, <2>3, <2>4, Read DEF RegPcs
<1>3. ASSUME NEW o \in Orgs, CheckAccount(q, o) PROVE TInv'
  <2> DEFINE s == [pc |-> "token", on |-> o, was |-> Nothing, orgWas |-> org[o], new |-> Nothing, proposal |-> Nothing]
  <2>1. Move(q, s) /\ org[o] \notin Blocked \cup {"absent"} /\ req[q].pc = "idle" /\ UNCHANGED <<orgVars, regVars>>
    BY <1>3 DEF CheckAccount, Slot
  <2>2. s \in Slots
    BY <1>t DEF Slots
  <2>3. RegSlot(s) /\ LifeSlot(s) /\ s.pc = "token" /\ s.on = o
    BY <2>1 DEF RegSlot, LifeSlot, RegPcs
  <2> HIDE DEF s
  <2> QED BY <2>1, <2>2, <2>3, Read DEF RegPcs
<1>4. ASSUME Revoke(q) PROVE TInv'
  <2>1. /\ req[q].pc = "revoke" /\ req[q].on \in Orgs /\ Move(q, Idle)
        /\ session' = [session EXCEPT ![req[q].on] = FALSE]
        /\ UNCHANGED <<org, profile, origin, raced, sidestepped, reg, disturbed>>
    BY <1>4, <1>l DEF Revoke, LifePcs, regVars
  <2> QED BY <1>t, <2>1, EndTInv
<1>5. ASSUME IssueToken(q) PROVE TInv'
  <2>1. /\ req[q].pc = "token" /\ req[q].on \in Orgs /\ Move(q, Idle) /\ req[q].orgWas \notin Blocked
        /\ session' = [session EXCEPT ![req[q].on] = TRUE]
        /\ UNCHANGED <<org, profile, origin, sidestepped, reg, disturbed>>
    BY <1>5, <1>l DEF IssueToken, LifePcs, regVars
  <2>2. /\ raced' \in [Orgs -> BOOLEAN] /\ \A x \in Orgs : raced[x] => raced'[x]
        /\ raced'[req[q].on] \/ org[req[q].on] \notin Blocked
    BY <1>5, <1>t, <2>1 DEF IssueToken
  <2> QED BY <1>t, <2>1, <2>2, EndTInv
<1>6. ASSUME Crash(q) PROVE TInv'
  <2>1. /\ req[q].pc \in {"organization", "revoke"} /\ req[q].on \in Orgs /\ Move(q, Dead)
        /\ raced' = [raced EXCEPT ![req[q].on] = TRUE]
        /\ UNCHANGED <<org, profile, origin, session, sidestepped, reg, disturbed>>
    BY <1>6, <1>l DEF Crash, LifePcs, regVars
  <2>2. raced'[req[q].on] /\ raced' \in [Orgs -> BOOLEAN] /\ \A x \in Orgs : raced[x] => raced'[x]
    BY <1>t, <2>1
  <2> QED BY <1>t, <2>1, <2>2, EndTInv
<1> QED BY <1>1, <1>2, <1>3, <1>4, <1>5, <1>6, SaveProfileTInv, SaveOrgTInv DEF Life

LEMMA StepTInv == ASSUME TInv, [Next]_vars PROVE TInv'
<1>1. CASE UNCHANGED vars
  <2>1. UNCHANGED <<reg, org, profile, origin, session, raced, sidestepped, disturbed, req>>
    BY <1>1 DEF vars
  <2>2. TypeOK' /\ Unborn' /\ RegPart'
    BY <2>1 DEF TInv, TypeOK, Unborn, RegPart, RegSlots, ApprovedHasTenant, OneProposal, OneTenantPerRequest
  <2>3. LifePart'
    BY <2>1 DEF TInv, LifePart, LifeSlots, StatusOnItsWay, Brings, RevocationOnItsWay, Revokes
  <2> QED BY <2>2, <2>3 DEF TInv
<1>2. CASE Next
  BY <1>2, SubmitTInv, CreateOrganizationTInv, ProvisionTInv, EndSessionTInv, RegistrationTInv,
  LifeTInv DEF Next
<1> QED BY <1>1, <1>2

\* When nobody is at work on o, nothing about it is on its way.
LEMMA SettledWhenQuiet == ASSUME TInv PROVE StatusesAgree /\ BlockedHasNoSession
<1>1. StatusesAgree
  BY DEF TInv, LifePart, StatusOnItsWay, Brings, StatusesAgree, Quiet
<1>2. BlockedHasNoSession
  BY DEF TInv, LifePart, RevocationOnItsWay, Revokes, BlockedHasNoSession, Quiet
<1> QED BY <1>1, <1>2

\* A step that changes a decided request is the save of a handler that read it open.
LEMMA StepDecision ==
  ASSUME TInv, [Next]_vars, NEW r \in Regs, reg[r].status \in Decided, OpenReaders(r) = {}
  PROVE  reg'[r] = reg[r]
<1>t. reg \in [Regs -> Registrations]
  BY DEF TInv, TypeOK, Registrations
<1>r. \A q \in Requests : req[q].pc \in RegPcs => req[q].on # r
  BY DEF TInv, RegPart, RegSlots, RegSlot, OpenReaders, RegPcs
<1>1. ASSUME NEW x \in Regs, NEW p \in Proposals, NEW asDraft \in BOOLEAN,
             Submit(x, p, asDraft)
      PROVE  reg'[r] = reg[r]
  <2>1. x # r
    BY <1>1 DEF Submit, Decided
  <2> QED BY <1>1, <1>t, <2>1 DEF Submit
<1>2. ASSUME NEW q \in Requests, Registration(q) PROVE reg'[r] = reg[r]
  <2>1. CASE SaveUpdate(q)
    BY <2>1, <1>t, <1>r DEF SaveUpdate, RegPcs
  <2>2. CASE SaveStatus(q)
    BY <2>2, <1>t, <1>r DEF SaveStatus, RegPcs
  <2>3. CASE \E o \in NewOrgs : Approve(q, o)
    BY <2>3, <1>t, <1>r DEF Approve, RegPcs
  <2>4. CASE reg' = reg
    BY <2>4
  <2> QED BY <1>2, <2>1, <2>2, <2>3, <2>4
          DEF Registration, LoadUpdate, LoadTransition, LoadReject, LoadApprove, ApproveFails, Load, regVars
<1>3. ASSUME NEW q \in Requests, Life(q) PROVE reg'[r] = reg[r]
  BY <1>3 DEF Life, LoadLifecycle, LoadOrganization, CheckAccount, SaveProfile, SaveOrg, Revoke, IssueToken,
  Crash, regVars
<1>4. ASSUME NEW o, NEW p, NEW s, NEW x, Provision(o, p, s, x) PROVE reg'[r] = reg[r]
  BY <1>4, ProvisionLinksNothing
<1>5. CASE (\E o \in NewOrgs, p \in Proposals : CreateOrganization(o, p)) \/ (\E o \in Orgs : EndSession(o)) \/ UNCHANGED vars
  BY <1>5 DEF CreateOrganization, EndSession, vars, regVars
<1> QED BY <1>1, <1>2, <1>3, <1>4, <1>5 DEF Next

\* TInv holds throughout, and the types with it.
LEMMA TenancyInvariant == Spec => []TInv
BY InitTInv, StepTInv, PTL DEF Spec

\* An approved registration request has its tenant and only one (approveRegistration and
\* provisionTenant, whatever overlaps or dies in between), with the exceptions the property names.
THEOREM TenancySafety == Spec => []RequestsHaveTenants
<1>1. TInv => RequestsHaveTenants
  BY DEF TInv, RegPart, RequestsHaveTenants
<1> QED BY <1>1, TenancyInvariant, PTL

\* Where no handler overlapped or died, the two statuses of a tenant agree, and the members
\* of a blocked organization have no session.
THEOREM TenancyStatuses == Spec => []TenantStatus
<1>1. TInv => TenantStatus
  BY SettledWhenQuiet DEF TenantStatus
<1> QED BY <1>1, TenancyInvariant, PTL

\* A decision on a registration request is overwritten by nothing but a handler that had
\* read the request before it was decided.
THEOREM TenancyDecisions == Spec => DecisionStands
<1>1. TInv /\ [Next]_vars => [\A r \in Regs : reg[r].status \in Decided /\ OpenReaders(r) = {} => reg'[r] = reg[r]]_vars
  BY StepDecision
<1> QED BY <1>1, TenancyInvariant, PTL DEF Spec, DecisionStands
=============================================================================
