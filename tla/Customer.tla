------------------------------ MODULE Customer ------------------------------
(***************************************************************************)
(* A customer: the sales pipeline, from quote to tenant (SaasPipeline),    *)
(* and the subscription of a tenant over its terms (Subscription).  The    *)
(* pipeline creates the row the renewals are about and never touches it    *)
(* again: a behaviour is about one of the two, the focus, and the other    *)
(* stands still.  The run needs no module of its own: one entry, three     *)
(* requests in flight, three terms, two renewals in flight, and no         *)
(* symmetry, since it checks liveness.                                     *)
(***************************************************************************)
EXTENDS SaasPipeline

CONSTANTS Term, Grace1, Grace2, Retention, Renewals, Horizon  \* of Subscription

VARIABLES
  focus,
  now, renewalDate, lastPayment, paid, owed, renewal  \* of Subscription

subscription == <<now, renewalDate, lastPayment, paid, owed, renewal>>
customer == <<focus, vars, subscription>>

Sub == INSTANCE Subscription WITH Requests <- Renewals, req <- renewal

CustomerInit ==
  /\ focus \in {"pipeline", "subscription"}
  /\ Init /\ Sub!Init

CustomerNext ==
  \/ focus = "pipeline" /\ Next /\ UNCHANGED <<focus, subscription>>
  \/ focus = "subscription" /\ Sub!Next /\ UNCHANGED <<focus, vars>>

\* The fairness of SaasPipeline.
Goes(q) == focus = "pipeline" /\ Proceed(q) /\ UNCHANGED <<focus, subscription>>

CustomerSpec == CustomerInit /\ [][CustomerNext]_customer /\ \A q \in Requests : SF_customer(Goes(q))

-----------------------------------------------------------------------------
\* The types of a pipeline entry and of a subscription.
TypesOK == TypeOK /\ Sub!TypeOK

\* What a tenant paid for is served, and nothing else.
PaidTerms == Sub!PaidTerms
=============================================================================
