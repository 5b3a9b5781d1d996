-------------------------- MODULE MCAdministration --------------------------
(***************************************************************************)
(* Administration for TLC, two requests in flight in each component.       *)
(*                                                                         *)
(* Tenancy: one registration request, two proposals and two organizations, *)
(* so that an approval may be repeated or meet a tenant provisioned        *)
(* directly.  A behaviour is followed as long as it is about how tenants   *)
(* are created, with none of them used yet, or about the life of one       *)
(* tenant, created by either door: the two share no more than the rows     *)
(* they hand over.  Accounts: one account, three refresh tokens, two       *)
(* links.  Sites: two sites and one site request.  OrgUnits: three units   *)
(* in three tiers, so that a unit could be moved below its own sub-unit.   *)
(* AuditFinding: two records that a finding may be routed into.            *)
(***************************************************************************)
EXTENDS Administration, Naturals, FiniteSets, TLC

-----------------------------------------------------------------------------
Untouched(o) ==
  /\ org[o] \in {"absent", "Draft", "Pending Approval", "Active"}
  /\ profile[o] \in {Nothing, "Draft", "Pending Activation"}
  /\ ~session[o] /\ ~sidestepped[o] /\ ~raced[o]

Creation ==
  /\ \A o \in Orgs : Untouched(o)
  /\ \A q \in Requests : req[q].pc \in {"idle", "update", "status", "approve"}

OneLife ==
  /\ \A o, x \in Orgs : org[o] # "absent" /\ org[x] # "absent" => o = x
  /\ \A r \in Regs : reg[r].status \in {"absent", "Submitted", "Approved"}
  /\ \A q \in Requests : req[q].pc \notin {"update", "status"}

CreationOrOneLife == Creation \/ OneLife

\* The same of an account: a second link is mailed, or a session opened and rotated.
SecondLinkOrSession == issued > 1 => \A s, t \in Tokens : token[s].state # "unused" /\ token[t].state # "unused" => s = t

\* One exception among the units, after which requests come one after the other; and
\* three units overlap with nobody appointed.
UnitsInTurn ==
  LET busy == Cardinality({q \in Requests : unitReq[q].pc # "idle"}) IN
  /\ Cardinality(late) <= 1
  /\ late # {} => busy <= 1
  /\ Cardinality(Unit!Present(unit)) > 2 /\ busy > 1 =>
       \A u \in Unit!Present(unit) : unit[u].appt = {}

\* A tenant whose statuses and sessions TenantStatus says nothing of any more: one request
\* at a time.
NotUnderWay == {"idle", "crashed"}

LivesInTurn ==
  (\E o \in Orgs : sidestepped[o] /\ raced[o]) => Cardinality({q \in Requests : req[q].pc \notin NotUnderWay}) <= 1

\* One exception of a finding; after it, or once two records came of the finding, one
\* request at a time. One of two overlapping requests changes the type.
FindingInTurn ==
  LET busy == {q \in Requests : findingReq[q].pc # "idle"} IN
  /\ Cardinality(mixed) <= 1
  /\ mixed # {} \/ (\A r \in Raised : record[r] # "absent") => Cardinality(busy) <= 1
  /\ Cardinality({q \in busy : findingReq[q].was.type # findingReq[q].now.type}) <= 1

Followed ==
  CASE focus = "tenants" -> CreationOrOneLife /\ LivesInTurn
    [] focus = "account" -> SecondLinkOrSession
    [] focus = "sites" -> TRUE
    [] focus = "units" -> UnitsInTurn
    [] focus = "audit" -> FindingInTurn

\* The requests are interchangeable, and so are the organizations, the refresh tokens,
\* the units, the sites and the records. The last five never occur in one focus: it is
\* enough to permute them together.
Swaps(f) == Cardinality({x \in DOMAIN f : f[x] # x}) = 2

TokenOf == CHOOSE t \in [Units -> Tokens] : \A u, v \in Units : t[u] = t[v] => u = v

\* The permutation of the units that goes with one of the tokens.
Alike(f) == [u \in Units |-> CHOOSE v \in Units : TokenOf[v] = f[TokenOf[u]]]

\* The permutation of two rows, records or sites, that goes with one of the organizations.
Along(rows, f) == [r \in rows |-> IF Swaps(f) THEN CHOOSE x \in rows : x # r ELSE r]

Together ==
  {p \in Permutations(Orgs) \X Permutations(Tokens) : Swaps(p[1]) <=> Swaps(p[2])}

Symmetric == Permutations(Requests) \cup
  {p[1] @@ p[2] @@ Alike(p[2]) @@ Along(Raised, p[1]) @@ Along(Ids, p[1]) : p \in Together}
=============================================================================
