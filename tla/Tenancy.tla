------------------------------ MODULE Tenancy ------------------------------
(***************************************************************************)
(* How tenants come and go: registration requests                          *)
(* (organizations/registration.service.ts), direct provisioning and the    *)
(* tenant lifecycle (tenants/tenant.service.ts), the other door to an      *)
(* organization's status (organizations/organization.service.ts), and the  *)
(* refresh tokens of its members (iam/auth.service.ts).                    *)
(*                                                                         *)
(* None of these handlers locks what it reads.  A tenant's status is kept  *)
(* twice, in its profile and in its organization, by two statements.       *)
(***************************************************************************)
EXTENDS Sequelize

CONSTANTS
  Regs,       \* registration requests
  Orgs,       \* tenant organizations that may be created (a bound)
  Proposals,  \* what a request proposes: code, administrator's username and e-mail, each unique
  Requests    \* requests that may be in flight at once

Nothing == "nothing"

ASSUME TenancyAssumption == Nothing \notin Regs /\ Nothing \notin Orgs /\ Nothing \notin Proposals

VARIABLES
  reg,         \* reg[r]: a registration request: its status, what it proposes, its tenant
  org,         \* org[o]: organizations.status
  profile,     \* profile[o]: tenant_profiles.status, Nothing without a profile
  origin,      \* origin[o]: the request it was approved for and the proposal it was created with
  session,     \* session[o]: whether members of o hold a live refresh token
  raced,       \* raced[o]: history: handlers overlapped on o, and one wrote over what the other had done
  sidestepped, \* sidestepped[o]: history: the status of o was set through /organizations
  disturbed,   \* disturbed[r]: history: a handler wrote over a decision it had not read, or under one
  req          \* req[q]: the request in slot q

vars == <<reg, org, profile, origin, session, raced, sidestepped, disturbed, req>>
orgVars == <<org, profile, origin, session, raced, sidestepped>>
regVars == <<reg, disturbed>>

RegStatuses == {"absent", "Draft", "Submitted", "Under Review", "Approved", "Rejected", "Cancelled"}
Decided == {"Approved", "Rejected", "Cancelled"}
TenantStatuses == {"Draft", "Pending Activation", "Active", "Suspended", "Inactive"}
OrgStatuses == {"absent", "Draft", "Pending Approval", "Active", "Suspended", "Inactive"}

\* BLOCKED_ORG_STATUSES: members may not sign in nor refresh.
Blocked == {"Suspended", "Inactive"}

\* Mutant: the organization takes the tenant's status as it is.
OrgStatusForSame(s) == s

\* ORG_STATUS_FOR
OrgStatusFor(s) == IF s = "Pending Activation" THEN "Pending Approval" ELSE s

\* REVIEWABLE. "PendingApproval" is left by no migration and written by nobody.
Reviewable == {"Submitted", "Under Review"}

\* Mutant: a decided request can still be cancelled.
NextStatusesAnytime(s) ==
  CASE s = "Draft" -> {"Submitted", "Cancelled"}
    [] s = "Submitted" -> {"Under Review", "Cancelled"}
    [] s = "Under Review" -> {"Submitted", "Cancelled"}
    [] OTHER -> {"Cancelled"}

\* NEXT
NextStatuses(s) ==
  CASE s = "Draft" -> {"Submitted", "Cancelled"}
    [] s = "Submitted" -> {"Under Review", "Cancelled"}
    [] s = "Under Review" -> {"Submitted", "Cancelled"}
    [] OTHER -> {}

\* The lifecycle operations: the statuses each starts from, the one it leads to.
From(op) ==
  CASE op = "sendActivation" -> {"Draft"}
    [] op = "resendActivation" -> {"Pending Activation"}
    [] op = "activate" -> {"Pending Activation"}
    [] op = "suspend" -> {"Active"}
    [] op = "resume" -> {"Suspended"}
    [] op = "deactivate" -> {"Draft", "Pending Activation", "Active", "Suspended"}
    [] op = "reactivate" -> {"Inactive"}
To(op) ==
  CASE op \in {"sendActivation", "resendActivation"} -> "Pending Activation"
    [] op \in {"activate", "resume", "reactivate"} -> "Active"
    [] op = "suspend" -> "Suspended"
    [] op = "deactivate" -> "Inactive"
Lifecycle == {"sendActivation", "resendActivation", "activate", "suspend", "resume", "deactivate", "reactivate"}

\* on: the request or the organization; was, orgWas: the statuses read; new: what to
\* write; proposal: the one read, or to write.
Idle == [pc |-> "idle", on |-> Nothing, was |-> Nothing, orgWas |-> Nothing, new |-> Nothing, proposal |-> Nothing]

\* A request that died: its slot is not used again.
Dead == [Idle EXCEPT !.pc = "crashed"]

Move(q, s) == req' = [req EXCEPT ![q] = s]
Slot(pc, on, was, orgWas, new, p) ==
  [pc |-> pc, on |-> on, was |-> was, orgWas |-> orgWas, new |-> new, proposal |-> p]

NewOrgs == {o \in Orgs : org[o] = "absent"}

\* The unique indexes on organizations.code, users.username and users.email.
Taken(p) == \E o \in Orgs : org[o] # "absent" /\ origin[o].proposal = p

-----------------------------------------------------------------------------
Init ==
  /\ reg = [r \in Regs |-> [status |-> "absent", proposal |-> Nothing, tenant |-> Nothing]]
  /\ org = [o \in Orgs |-> "absent"]
  /\ profile = [o \in Orgs |-> Nothing]
  /\ origin = [o \in Orgs |-> [reg |-> Nothing, proposal |-> Nothing]]
  /\ session = [o \in Orgs |-> FALSE]
  /\ raced = [o \in Orgs |-> FALSE]
  /\ sidestepped = [o \in Orgs |-> FALSE]
  /\ disturbed = [r \in Regs |-> FALSE]
  /\ req = [q \in Requests |-> Idle]

\* submitRegistration: one transaction.
Submit(r, p, asDraft) ==
  /\ reg[r].status = "absent"
  /\ reg' = [reg EXCEPT ![r] = [status |-> IF asDraft THEN "Draft" ELSE "Submitted",
                                proposal |-> p, tenant |-> Nothing]]
  /\ UNCHANGED <<orgVars, disturbed, req>>

Load(q, r, pc, new, p) ==
  /\ req[q].pc = "idle"
  /\ Move(q, Slot(pc, r, reg[r].status, Nothing, new, p))
  /\ UNCHANGED <<orgVars, regVars>>

\* updateRegistration, up to its check.
LoadUpdate(q, r, p) ==
  /\ reg[r].status \notin Decided \cup {"absent"}
  /\ Load(q, r, "update", Nothing, p)

SaveUpdate(q) ==
  LET r == req[q].on
  IN /\ req[q].pc = "update"
     /\ reg' = [reg EXCEPT ![r].proposal = req[q].proposal]
     /\ disturbed' = [disturbed EXCEPT ![r] = disturbed[r] \/ reg[r].status \in Decided
                     \/ \E p \in Requests : req[p].pc = "approve" /\ req[p].on = r]
     /\ Move(q, Idle)
     /\ UNCHANGED orgVars

\* transitionRegistration and rejectRegistration, up to their checks.
LoadTransition(q, r, s) ==
  /\ s \in NextStatuses(reg[r].status)
  /\ Load(q, r, "status", s, Nothing)

LoadReject(q, r) ==
  /\ reg[r].status \in Reviewable
  /\ Load(q, r, "status", "Rejected", Nothing)

\* Their save writes the status only.
SaveStatus(q) ==
  LET r == req[q].on
  IN /\ req[q].pc = "status"
     /\ reg' = [reg EXCEPT ![r].status = req[q].new]
     /\ disturbed' = [disturbed EXCEPT ![r] = disturbed[r] \/ reg[r].status \in Decided]
     /\ Move(q, Idle)
     /\ UNCHANGED orgVars

\* approveRegistration, up to its check: the proposal is taken from this copy.
LoadApprove(q, r) ==
  /\ reg[r].status \in Reviewable
  /\ Load(q, r, "approve", "Approved", reg[r].proposal)

\* Mutant: the tenant's id is written after the transaction, and lost.
ApproveUnlinked(q, o) ==
  LET r == req[q].on
      p == req[q].proposal
  IN /\ req[q].pc = "approve"
     /\ ~Taken(p)
     /\ org' = [org EXCEPT ![o] = "Active"]
     /\ origin' = [origin EXCEPT ![o] = [reg |-> r, proposal |-> p]]
     /\ reg' = [reg EXCEPT ![r].status = "Approved"]
     /\ Move(q, Idle)
     /\ UNCHANGED <<profile, session, raced, sidestepped, disturbed>>

\* Its transaction: the organization, Active at once and without a profile, its
\* administrator, and the request that names it.
Approve(q, o) ==
  LET r == req[q].on
      p == req[q].proposal
  IN /\ req[q].pc = "approve"
     /\ ~Taken(p)
     /\ org' = [org EXCEPT ![o] = "Active"]
     /\ origin' = [origin EXCEPT ![o] = [reg |-> r, proposal |-> p]]
     /\ reg' = [reg EXCEPT ![r] = [status |-> "Approved", proposal |-> reg[r].proposal, tenant |-> o]]
     /\ Move(q, Idle)
     /\ UNCHANGED <<profile, session, raced, sidestepped, disturbed>>

\* A statement of it fails, on a unique index among others: nothing is written.
ApproveFails(q) ==
  /\ req[q].pc = "approve"
  /\ Move(q, Idle)
  /\ UNCHANGED <<orgVars, regVars>>

\* provisionTenant: one transaction; r: the registration request it names, if any.
Provision(o, p, s, r) ==
  /\ ~Taken(p)
  /\ org' = [org EXCEPT ![o] = OrgStatusFor(s)]
  /\ profile' = [profile EXCEPT ![o] = s]
  /\ origin' = [origin EXCEPT ![o] = [reg |-> Nothing, proposal |-> p]]
  /\ reg' = [x \in Regs |-> IF x = r /\ reg[x].status = "Approved" /\ reg[x].tenant = Nothing
                              THEN [status |-> "Approved", proposal |-> reg[x].proposal, tenant |-> o]
                              ELSE reg[x]]
  /\ UNCHANGED <<session, raced, sidestepped, disturbed, req>>

\* createOrganization, of a tenant: Active, without a profile, a request or members.
CreateOrganization(o, p) ==
  /\ ~Taken(p)
  /\ org' = [org EXCEPT ![o] = "Active"]
  /\ origin' = [origin EXCEPT ![o] = [reg |-> Nothing, proposal |-> p]]
  /\ UNCHANGED <<regVars, profile, session, raced, sidestepped, req>>

\* tenant.service transition(), up to its check: profile and organization are read.
LoadLifecycle(q, o, op) ==
  /\ req[q].pc = "idle"
  /\ profile[o] \in From(op)
  /\ Move(q, Slot("profile", o, profile[o], org[o], To(op), Nothing))
  /\ UNCHANGED <<orgVars, regVars>>

SaveProfile(q) ==
  LET o == req[q].on
  IN /\ req[q].pc = "profile"
     /\ profile' = [profile EXCEPT ![o] = Changed(profile[o], req[q].was, req[q].new)]
     /\ raced' = [raced EXCEPT ![o] = raced[o] \/ profile[o] # req[q].was]
     /\ Move(q, Slot("organization", o, req[q].new, req[q].orgWas, OrgStatusFor(req[q].new), Nothing))
     /\ UNCHANGED <<org, origin, session, sidestepped, regVars>>

\* organization.service transition(): suspend or activate, whatever the status was.
LoadOrganization(q, o, s) ==
  /\ req[q].pc = "idle"
  /\ org[o] # "absent"
  /\ Move(q, Slot("organization", o, Nothing, org[o], s, Nothing))
  /\ UNCHANGED <<orgVars, regVars>>

\* org.save() of both. raced: the organization, or the profile this handler wrote, has
\* been changed since.
SaveOrg(q) ==
  LET o == req[q].on
  IN /\ req[q].pc = "organization"
     /\ org' = [org EXCEPT ![o] = Changed(org[o], req[q].orgWas, req[q].new)]
     /\ raced' = [raced EXCEPT ![o] = raced[o] \/ org[o] # req[q].orgWas
                                       \/ (req[q].was # Nothing /\ profile[o] # req[q].was)]
     /\ sidestepped' = [sidestepped EXCEPT ![o] = sidestepped[o] \/ req[q].was = Nothing]
     /\ Move(q, IF req[q].new = "Active" THEN Idle ELSE [req[q] EXCEPT !.pc = "revoke"])
     /\ UNCHANGED <<profile, origin, session, regVars>>

\* revokeOrgSessions
Revoke(q) ==
  /\ req[q].pc = "revoke"
  /\ session' = [session EXCEPT ![req[q].on] = FALSE]
  /\ Move(q, Idle)
  /\ UNCHANGED <<org, profile, origin, raced, sidestepped, regVars>>

\* Mutant: a refresh does not look at the organization.
CheckTokenOnly(q, o) ==
  /\ req[q].pc = "idle"
  /\ org[o] # "absent"
  /\ Move(q, Slot("token", o, Nothing, org[o], Nothing, Nothing))
  /\ UNCHANGED <<orgVars, regVars>>

\* login and refresh, up to isAccountActive.
CheckAccount(q, o) ==
  /\ req[q].pc = "idle"
  /\ org[o] \notin Blocked \cup {"absent"}
  /\ Move(q, Slot("token", o, Nothing, org[o], Nothing, Nothing))
  /\ UNCHANGED <<orgVars, regVars>>

\* ... and RefreshToken.create.
IssueToken(q) ==
  LET o == req[q].on
  IN /\ req[q].pc = "token"
     /\ session' = [session EXCEPT ![o] = TRUE]
     /\ raced' = [raced EXCEPT ![o] = raced[o] \/ (org[o] # req[q].orgWas /\ org[o] \in Blocked)]
     /\ Move(q, Idle)
     /\ UNCHANGED <<org, profile, origin, sidestepped, regVars>>

\* logout, or the last token expires.
EndSession(o) ==
  /\ session[o]
  /\ session' = [session EXCEPT ![o] = FALSE]
  /\ UNCHANGED <<org, profile, origin, raced, sidestepped, regVars, req>>

\* The server dies between two statements of a request.
Crash(q) ==
  /\ req[q].pc \in {"organization", "revoke"}
  /\ raced' = [raced EXCEPT ![req[q].on] = TRUE]
  /\ Move(q, Dead)
  /\ UNCHANGED <<org, profile, origin, session, sidestepped, regVars>>

-----------------------------------------------------------------------------
Registration(q) ==
  \/ \E r \in Regs :
       \/ \E p \in Proposals : LoadUpdate(q, r, p)
       \/ \E s \in RegStatuses : LoadTransition(q, r, s)
       \/ LoadReject(q, r) \/ LoadApprove(q, r)
  \/ SaveUpdate(q) \/ SaveStatus(q) \/ ApproveFails(q)
  \/ \E o \in NewOrgs : Approve(q, o)

Life(q) ==
  \/ \E o \in Orgs :
       \/ \E op \in Lifecycle : LoadLifecycle(q, o, op)
       \/ \E s \in {"Active", "Suspended"} : LoadOrganization(q, o, s)
       \/ CheckAccount(q, o)
  \/ SaveProfile(q) \/ SaveOrg(q) \/ Revoke(q) \/ IssueToken(q) \/ Crash(q)

Next ==
  \/ \E r \in Regs, p \in Proposals, asDraft \in BOOLEAN : Submit(r, p, asDraft)
  \/ \E o \in NewOrgs, p \in Proposals : CreateOrganization(o, p)
  \/ \E o \in NewOrgs, p \in Proposals, s \in {"Draft", "Pending Activation"}, r \in Regs \cup {Nothing} :
       Provision(o, p, s, r)
  \/ \E o \in Orgs : EndSession(o)
  \/ \E q \in Requests : Registration(q) \/ Life(q)

Spec == Init /\ [][Next]_vars

-----------------------------------------------------------------------------
Slots ==
  [pc : {"idle", "crashed", "update", "status", "approve", "profile", "organization", "revoke", "token"},
   on : Regs \cup Orgs \cup {Nothing}, was : RegStatuses \cup TenantStatuses \cup {Nothing},
   orgWas : OrgStatuses \cup {Nothing}, new : RegStatuses \cup TenantStatuses \cup OrgStatuses \cup {Nothing},
   proposal : Proposals \cup {Nothing}]

TypeOK ==
  /\ reg \in [Regs -> [status : RegStatuses, proposal : Proposals \cup {Nothing}, tenant : Orgs \cup {Nothing}]]
  /\ org \in [Orgs -> OrgStatuses]
  /\ profile \in [Orgs -> TenantStatuses \cup {Nothing}]
  /\ origin \in [Orgs -> [reg : Regs \cup {Nothing}, proposal : Proposals \cup {Nothing}]]
  /\ session \in [Orgs -> BOOLEAN]
  /\ raced \in [Orgs -> BOOLEAN]
  /\ sidestepped \in [Orgs -> BOOLEAN]
  /\ disturbed \in [Regs -> BOOLEAN]
  /\ req \in [Requests -> Slots]

\* An approved request names the tenant that was created for it, whoever decided, edited
\* or provisioned at the same time.
ApprovedHasTenant ==
  \A r \in Regs :
    reg[r].status = "Approved" =>
      \E o \in Orgs : reg[r].tenant = o /\ org[o] # "absent" /\ origin[o].reg = r

\* A request becomes one tenant at most, however many approvals overlap: the second one
\* meets the first one's code. (Unless its proposal is edited between them, or a late save
\* reopens it.)
OneTenantPerRequest ==
  \A r \in Regs, o, x \in Orgs :
    origin[o].reg = r /\ origin[x].reg = r => o = x \/ disturbed[r]

\* An approved request has its tenant and no second one.
RequestsHaveTenants == ApprovedHasTenant /\ OneTenantPerRequest

\* Handlers that read r while it was open.
OpenReaders(r) ==
  {q \in Requests : req[q].pc \in {"update", "status", "approve"} /\ req[q].on = r /\ req[q].was \notin Decided}

\* A decision stands: only a handler that had read the request before it may still
\* write over it.
DecisionStands ==
  [][\A r \in Regs : reg[r].status \in Decided /\ OpenReaders(r) = {} => reg'[r] = reg[r]]_vars

Quiet(o) == \A q \in Requests : req[q].on # o

\* The two statuses of a tenant agree whenever nobody is at work on it: no overlap, no
\* crash between the two saves, and nobody used the other door.
StatusesAgree ==
  \A o \in Orgs :
    Quiet(o) /\ profile[o] # Nothing /\ ~raced[o] /\ ~sidestepped[o] => org[o] = OrgStatusFor(profile[o])

\* Reviewing a request is the partners' door "to the same outcome" as provisioning a
\* tenant directly: the tenant of an approved request has a profile, as every tenant of
\* provisionTenant has.
ApprovedTenantHasProfile ==
  \A r \in Regs : reg[r].status = "Approved" => profile[reg[r].tenant] # Nothing

\* "A suspended org's members lose their sessions now, not at token expiry": no member
\* of a blocked organization keeps one, unless a sign-in overlapped the suspension.
BlockedHasNoSession ==
  \A o \in Orgs : Quiet(o) /\ org[o] \in Blocked /\ ~raced[o] => ~session[o]

\* Whatever stands between the two statuses of a tenant and its members' sessions is
\* settled once nobody is at work on it.
TenantStatus == StatusesAgree /\ BlockedHasNoSession
=============================================================================
