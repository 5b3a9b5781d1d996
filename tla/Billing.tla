------------------------------ MODULE Billing ------------------------------
(***************************************************************************)
(* Recording payments of invoices and settling payouts                     *)
(* (billing/billing.service.ts), with the code lock that numbers rows      *)
(* (lib/codeSeq.ts).                                                       *)
(*                                                                         *)
(* payInvoice is one transaction: it locks the invoice row, then the code  *)
(* lock PAY, then the code lock RCP, and holds all three until it commits; *)
(* rows it inserted are seen by others only then.  markPayoutPaid issues   *)
(* its statements one by one.                                              *)
(***************************************************************************)
EXTENDS Naturals, FiniteSets, Sequelize

CONSTANTS
  Invoices,  \* invoices of the tenants
  Payouts,   \* payouts, each with a revenue-share statement of its own
  Requests   \* requests that may be in flight at once

NoRow == "no row"

VARIABLES
  invoice,    \* invoice[i]: the status of an invoice
  payments,   \* committed rows
  receipts,   \* committed rows
  payout,     \* payout[p]: the status of a payout
  statement,  \* statement[p]: the status of its statement
  req         \* req[q]: the request in slot q

vars == <<invoice, payments, receipts, payout, statement, req>>

\* row: the invoice or the payout; pay, rcp: the numbers taken, 0 for none.
Idle == [pc |-> "idle", row |-> NoRow, pay |-> 0, rcp |-> 0]

\* A request that died: its slot is not used again.
Dead == [pc |-> "crashed", row |-> NoRow, pay |-> 0, rcp |-> 0]

Numbers(rows) == {x.code : x \in rows}

\* maxCodeSeq: the highest number given out, 0 when there is none.
MaxCodeSeq(S) == CHOOSE m \in S \cup {0} : \A x \in S \cup {0} : x <= m

\* The locks a transaction holds at each point.
HoldsInvoice(q, i) == req[q].pc \in {"locked", "paid", "receipted"} /\ req[q].row = i
HoldsPAY(q) == req[q].pc \in {"paid", "receipted"}
HoldsRCP(q) == req[q].pc = "receipted"

Move(q, r) == req' = [req EXCEPT ![q] = r]

-----------------------------------------------------------------------------
Init ==
  /\ invoice \in [Invoices -> {"Draft", "Unpaid"}]
  /\ payments = {}
  /\ receipts = {}
  /\ payout = [p \in Payouts |-> "Pending"]
  /\ statement = [p \in Payouts |-> "Approved"]
  /\ req = [q \in Requests |-> Idle]

\* Mutant: the invoice row is read without FOR UPDATE.
LockInvoiceUnlocked(q, i) ==
  /\ req[q].pc = "idle"
  /\ invoice[i] = "Unpaid"
  /\ Move(q, [pc |-> "locked", row |-> i, pay |-> 0, rcp |-> 0])
  /\ UNCHANGED <<invoice, payments, receipts, payout, statement>>

\* payInvoice up to its checks: FOR UPDATE waits for whoever holds the row; a
\* Paid or a Draft invoice is refused.
LockInvoice(q, i) ==
  /\ req[q].pc = "idle"
  /\ \A p \in Requests : ~HoldsInvoice(p, i)
  /\ invoice[i] = "Unpaid"
  /\ Move(q, [pc |-> "locked", row |-> i, pay |-> 0, rcp |-> 0])
  /\ UNCHANGED <<invoice, payments, receipts, payout, statement>>

\* Payment.create under the code lock PAY. The lock is waited for; the number
\* is read after it is held, and the row inserted.
CreatePayment(q) ==
  /\ req[q].pc = "locked"
  /\ \A p \in Requests : ~HoldsPAY(p)
  /\ Move(q, [pc |-> "paid", row |-> req[q].row, pay |-> MaxCodeSeq(Numbers(payments)) + 1, rcp |-> 0])
  /\ UNCHANGED <<invoice, payments, receipts, payout, statement>>

\* Receipt.create under the code lock RCP.
CreateReceipt(q) ==
  /\ req[q].pc = "paid"
  /\ \A p \in Requests : ~HoldsRCP(p)
  /\ Move(q, [pc |-> "receipted", row |-> req[q].row, pay |-> req[q].pay,
              rcp |-> MaxCodeSeq(Numbers(receipts)) + 1])
  /\ UNCHANGED <<invoice, payments, receipts, payout, statement>>

\* Mutant: the receipt is left out of the transaction.
CommitWithoutReceipt(q) ==
  /\ req[q].pc = "receipted"
  /\ invoice' = [invoice EXCEPT ![req[q].row] = "Paid"]
  /\ payments' = payments \cup {[code |-> req[q].pay, invoice |-> req[q].row]}
  /\ Move(q, Idle)
  /\ UNCHANGED <<receipts, payout, statement>>

\* Mutant: the code lock of the session, not of the transaction, is taken.
CommitKeepingLocks(q) ==
  /\ req[q].pc = "receipted"
  /\ invoice' = [invoice EXCEPT ![req[q].row] = "Paid"]
  /\ payments' = payments \cup {[code |-> req[q].pay, invoice |-> req[q].row]}
  /\ receipts' = receipts \cup {[code |-> req[q].rcp, invoice |-> req[q].row, payment |-> req[q].pay]}
  /\ UNCHANGED <<req, payout, statement>>

\* inv.save() and the commit: the invoice is paid, both rows are there, the
\* locks are released.
Commit(q) ==
  /\ req[q].pc = "receipted"
  /\ invoice' = [invoice EXCEPT ![req[q].row] = "Paid"]
  /\ payments' = payments \cup {[code |-> req[q].pay, invoice |-> req[q].row]}
  /\ receipts' = receipts \cup {[code |-> req[q].rcp, invoice |-> req[q].row, payment |-> req[q].pay]}
  /\ Move(q, Idle)
  /\ UNCHANGED <<payout, statement>>

\* A statement fails or the process dies: the transaction is rolled back, its
\* rows and its numbers with it.
Rollback(q) ==
  /\ req[q].pc \in {"locked", "paid", "receipted"}
  /\ Move(q, Idle)
  /\ UNCHANGED <<invoice, payments, receipts, payout, statement>>

\* markPayoutPaid, up to its check.
LoadPayout(q, p) ==
  /\ req[q].pc = "idle"
  /\ payout[p] = "Pending"
  /\ Move(q, [pc |-> "payout", row |-> p, pay |-> 0, rcp |-> 0])
  /\ UNCHANGED <<invoice, payments, receipts, payout, statement>>

SavePayout(q) ==
  /\ req[q].pc = "payout"
  /\ payout' = [payout EXCEPT ![req[q].row] = "Paid"]
  /\ Move(q, [pc |-> "statement", row |-> req[q].row, pay |-> 0, rcp |-> 0])
  /\ UNCHANGED <<invoice, payments, receipts, statement>>

\* Mutant: the statement gets a status of its own.
SaveStatementSettled(q) ==
  /\ req[q].pc = "statement"
  /\ statement' = [statement EXCEPT ![req[q].row] = "Settled"]
  /\ Move(q, Idle)
  /\ UNCHANGED <<invoice, payments, receipts, payout>>

\* Settling the payout also marks its statement Paid.
SaveStatement(q) ==
  /\ req[q].pc = "statement"
  /\ statement' = [statement EXCEPT ![req[q].row] = "Paid"]
  /\ Move(q, Idle)
  /\ UNCHANGED <<invoice, payments, receipts, payout>>

\* The process dies within markPayoutPaid.
Crash(q) ==
  /\ req[q].pc \in {"payout", "statement"}
  /\ Move(q, Dead)
  /\ UNCHANGED <<invoice, payments, receipts, payout, statement>>

-----------------------------------------------------------------------------
Proceed(q) ==
  \/ CreatePayment(q) \/ CreateReceipt(q) \/ Commit(q) \/ SavePayout(q) \/ SaveStatement(q)

Next ==
  \E q \in Requests :
    \/ \E i \in Invoices : LockInvoice(q, i)
    \/ \E p \in Payouts : LoadPayout(q, p)
    \/ Proceed(q) \/ Rollback(q) \/ Crash(q)

Spec == Init /\ [][Next]_vars

\* A handler that may go on does, and PostgreSQL grants a lock to those who wait for
\* it in turn: whoever can take it again and again does get it.
FairSpec == Spec /\ \A q \in Requests : SF_vars(Proceed(q))

-----------------------------------------------------------------------------
Slots == [pc : {"idle", "crashed", "locked", "paid", "receipted", "payout", "statement"},
          row : Invoices \cup Payouts \cup {NoRow}, pay : Nat, rcp : Nat]

TypeOK ==
  /\ invoice \in [Invoices -> {"Draft", "Unpaid", "Paid"}]
  /\ payments \subseteq [code : Nat, invoice : Invoices]
  /\ receipts \subseteq [code : Nat, invoice : Invoices, payment : Nat]
  /\ payout \in [Payouts -> {"Pending", "Paid"}]
  /\ statement \in [Payouts -> {"Approved", "Paid"}]
  /\ req \in [Requests -> Slots]
  /\ \A q \in Requests :
       /\ req[q].pc \in {"locked", "paid", "receipted"} => req[q].row \in Invoices
       /\ req[q].pc \in {"payout", "statement"} => req[q].row \in Payouts

\* "Two concurrent calls can't both pay it": an invoice is paid exactly when there is
\* a payment of it, then just one, with just one receipt, of that payment.
PaidOnce ==
  \A i \in Invoices :
    LET ps == {x \in payments : x.invoice = i}
        rs == {x \in receipts : x.invoice = i}
    IN IF invoice[i] = "Paid"
         THEN \E p \in ps : ps = {p} /\ \E r \in rs : rs = {r} /\ r.payment = p.code
         ELSE ps = {} /\ rs = {}

\* Numbers are given out in turn: no two payments and no two receipts share one, and
\* whatever is rolled back leaves no gap.
Consecutive(rows) ==
  /\ \A x, y \in rows : x.code = y.code => x = y
  /\ Numbers(rows) = 1..Cardinality(rows)

NumbersConsecutive == Consecutive(payments) /\ Consecutive(receipts)

\* A payout and its statement are settled together, when every request ran to its end.
SettledTogether ==
  (\A q \in Requests : req[q].pc = "idle") =>
    \A p \in Payouts : payout[p] = "Paid" <=> statement[p] = "Paid"

\* What money was recorded for, and under which number, is right at every moment.
PaymentsSound == PaidOnce /\ NumbersConsecutive /\ SettledTogether

\* The invoice lock, then PAY, then RCP, in this order for everybody: no two requests
\* wait for each other, and each one ends.
EveryRequestEnds == \A q \in Requests : req[q].pc # "idle" ~> req[q].pc \in {"idle", "crashed"}

\* Recording a payment is one step as far as anybody else can see.
AsLedger == INSTANCE Ledger WITH Invoices <- Invoices, invoice <- invoice, payments <- payments,
                                 receipts <- receipts
LedgerSpec == AsLedger!Spec
=============================================================================
