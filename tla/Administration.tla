--------------------------- MODULE Administration ---------------------------
(***************************************************************************)
(* What administrators work on, side by side: registration requests and    *)
(* tenants (Tenancy), an account and its sessions (Accounts), the sites of *)
(* a tenant (Sites), the units of an organization (OrgUnits) and a finding *)
(* of an internal audit (AuditFinding).  They share no row, so a behaviour *)
(* is about one of them, the focus, and the others stand still.            *)
(***************************************************************************)
EXTENDS Tenancy, Naturals

CONSTANTS
  Tokens, MaxLinks, MaxEpoch, NoToken,  \* of Accounts
  Ids, Firsts, SiteReqs, None,          \* of Sites
  Units, NoUnit, Tiers,                 \* of OrgUnits
  Raised, NoRecord                      \* of AuditFinding

\* No marker is one of the rows it stands beside, and the bounds are numbers.
ASSUME AdministrationAssumption ==
  /\ NoToken \notin Tokens /\ MaxLinks \in Nat \ {0} /\ MaxEpoch \in Nat
  /\ None \in Firsts /\ Firsts \subseteq Ids \cup {None} /\ None \notin Ids \cup SiteReqs
  /\ NoUnit \notin Units /\ Tiers \in Nat \ {0}
  /\ NoRecord \notin Raised

VARIABLES
  focus,
  status, password, invite, reset, issued, token, uses, voided, epoch, swept, accountReq,  \* of Accounts
  site, sreq, made, overlap, siteReq,                                                      \* of Sites
  unit, late, unitReq,                                                                     \* of OrgUnits
  finding, mandatory, record, cleared, mixed, findingReq                                   \* of AuditFinding

account == <<status, password, invite, reset, issued, token, uses, voided, epoch, swept, accountReq>>
sites == <<site, sreq, made, overlap, siteReq>>
units == <<unit, late, unitReq>>
audit == <<finding, mandatory, record, cleared, mixed, findingReq>>
administration == <<focus, vars, account, sites, units, audit>>

Acc == INSTANCE Accounts WITH req <- accountReq
Site == INSTANCE Sites WITH req <- siteReq
Unit == INSTANCE OrgUnits WITH req <- unitReq
Find == INSTANCE AuditFinding WITH Records <- Raised, upset <- mixed, req <- findingReq

AdministrationInit ==
  /\ focus \in {"tenants", "account", "sites", "units", "audit"}
  /\ Init /\ Acc!Init /\ Site!Init /\ Unit!Init /\ Find!Init
  /\ focus = "account" \/ password
  /\ focus = "sites" \/ Site!Primaries = {}
  /\ focus = "audit" \/ mandatory

AdministrationNext ==
  \/ focus = "tenants" /\ Next /\ UNCHANGED <<focus, account, sites, units, audit>>
  \/ focus = "account" /\ Acc!Next /\ UNCHANGED <<focus, vars, sites, units, audit>>
  \/ focus = "sites" /\ Site!Next /\ UNCHANGED <<focus, vars, account, units, audit>>
  \/ focus = "units" /\ Unit!Next /\ UNCHANGED <<focus, vars, account, sites, audit>>
  \/ focus = "audit" /\ Find!Next /\ UNCHANGED <<focus, vars, account, sites, units>>

AdministrationSpec == AdministrationInit /\ [][AdministrationNext]_administration

-----------------------------------------------------------------------------
\* The types of what administrators work on: Tenancy, Accounts, Sites, OrgUnits
\* and AuditFinding.
TypesOK == TypeOK /\ Acc!TypeOK /\ Site!TypeOK /\ Unit!TypeOK /\ Find!TypeOK

\* A refresh token has one successor, a reset link sets one password, a voided link none.
CredentialsSpent == Acc!CredentialsSpent

\* Condemned sessions end, and a deleted account stays deleted.
ShutStaysShut == Acc!ShutStaysShut

\* A tenant that has a primary site keeps one; a site request is decided once and
\* becomes one site at most.
SitesSettled == Site!PrimaryKept /\ Site!RequestsSettled

\* The units of an organization stay a tree, each at the tier of its depth.
TreeKept == Unit!TreeKept

\* A finding is issued when it was cleared, and becomes one record of a register.
FindingSound == Find!FindingSound
=============================================================================
