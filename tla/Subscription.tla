---------------------------- MODULE Subscription ----------------------------
(***************************************************************************)
(* A tenant's subscription: its renewals (saas/saas.service.ts,            *)
(* renewSubscription), and the access the tenant has from the dates alone  *)
(* (saas/lifecycle.service.ts; middleware/tenantScope.ts).                 *)
(*                                                                         *)
(* Time is counted in days, say, and so are the durations.  The columns    *)
(* status, grace_started_at and archived_at decide nothing: whatever is    *)
(* written to them is "Active" and NULL.                                   *)
(***************************************************************************)
EXTENDS Naturals

CONSTANTS
  Term,       \* what a payment buys: 12 months
  Grace1,     \* SAAS_GRACE1_DAYS
  Grace2,     \* SAAS_GRACE2_DAYS
  Retention,  \* SAAS_RETENTION_MONTHS, from the end of Grace 1
  Requests,   \* renewals in flight at once
  Horizon     \* bound: the last day looked at

VARIABLES
  now,          \* today
  renewalDate,  \* the end of the paid term
  lastPayment,  \* last_payment_at
  paid,         \* terms paid for (history)
  owed,         \* days of the terms paid for, less those of renewals that the last one,
                \* in flight with them, did not see (history)
  req           \* req[q]: the renewal in slot q

vars == <<now, renewalDate, lastPayment, paid, owed, req>>

\* seen: the renewal date it loaded; at: its own clock; owed: what was owed then.
Slot(pc, seen, at, due) == [pc |-> pc, seen |-> seen, at |-> at, owed |-> due]

Idle == Slot("idle", 0, 0, 0)

\* resolveSaasSubState.
SubState(day) ==
  LET g1 == renewalDate + Grace1
      g2 == g1 + Grace2
      ret == g1 + Retention IN
  CASE day <= renewalDate -> "Active"
    [] renewalDate < day /\ day <= g1 -> "Grace 1"
    [] g1 < day /\ day <= g2 -> "Grace 2"
    [] g2 < day /\ day <= ret -> "Archived"
    [] OTHER -> "Purged"

\* Mutant: what is archived may be read.
AccessKept(day) ==
  CASE SubState(day) = "Active" -> "full"
    [] SubState(day) \in {"Grace 1", "Archived"} -> "read"
    [] OTHER -> "none"

\* getTenantAccess, of an active workspace: resolveSaasWsState, resolveSaasAccess.
Access(day) ==
  CASE SubState(day) = "Active" -> "full"
    [] SubState(day) = "Grace 1" -> "read"
    [] OTHER -> "none"

\* runProvisioning: the first term is paid for.
Init ==
  /\ now = 0
  /\ renewalDate = Term
  /\ lastPayment = 0
  /\ paid = 1
  /\ owed = Term
  /\ req = [q \in Requests |-> Idle]

Tick ==
  /\ now < Horizon
  /\ now' = now + 1
  /\ UNCHANGED <<renewalDate, lastPayment, paid, owed, req>>

\* renewSubscription loads the row, whatever its state is.
LoadRenewal(q) ==
  /\ req[q].pc = "idle"
  /\ req' = [req EXCEPT ![q] = Slot("renew", renewalDate, now, owed)]
  /\ UNCHANGED <<now, renewalDate, lastPayment, paid, owed>>

\* An early renewal extends the term, a late one starts today.
Base(r) == IF r.seen > r.at THEN r.seen ELSE r.at

\* Its save.
SaveRenewal(q) ==
  LET r == req[q] IN
  /\ r.pc = "renew"
  /\ Base(r) + Term <= Horizon
  /\ renewalDate' = Base(r) + Term
  /\ lastPayment' = r.at
  /\ paid' = paid + 1
  /\ owed' = r.owed + Term
  /\ req' = [req EXCEPT ![q] = Idle]
  /\ UNCHANGED now

\* The process dies before it saves.
Crash(q) ==
  /\ req[q].pc = "renew"
  /\ req' = [req EXCEPT ![q] = Idle]
  /\ UNCHANGED <<now, renewalDate, lastPayment, paid, owed>>

Next == Tick \/ \E q \in Requests : LoadRenewal(q) \/ SaveRenewal(q) \/ Crash(q)

Spec == Init /\ [][Next]_vars

-----------------------------------------------------------------------------
TypeOK ==
  /\ now \in Nat /\ renewalDate \in Nat /\ lastPayment \in 0..now
  /\ paid \in Nat /\ owed \in Nat
  /\ req \in [Requests -> [pc : {"idle", "renew"}, seen : Nat, at : Nat, owed : Nat]]

\* "Extends from the current renewalDate when it is still in the future": a tenant who
\* pays early loses no day: the terms paid for add up, but those of renewals that
\* overlapped.
TermsServed == renewalDate >= owed

\* "This is also what lifts a lockout": a tenant has full access for a term from the
\* last payment on record, however late it came and whatever overlapped it.
PaidIsFull == now <= lastPayment + Term => Access(now) = "full"

Level(a) == CASE a = "full" -> 2 [] a = "read" -> 1 [] OTHER -> 0

\* Time alone takes access away, and never gives any back.
OnlyPaymentRestores == [][paid' = paid => Level(Access(now)') <= Level(Access(now))]_vars

\* What was paid for is served, and nothing else.
PaidTerms == [](TermsServed /\ PaidIsFull) /\ OnlyPaymentRestores
=============================================================================
