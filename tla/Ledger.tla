------------------------------- MODULE Ledger -------------------------------
(***************************************************************************)
(* What recording a payment promises: an unpaid invoice becomes paid in    *)
(* one step, with one payment and one receipt of it, under numbers nobody  *)
(* else has.                                                               *)
(***************************************************************************)
CONSTANT Invoices

VARIABLES invoice, payments, receipts

Numbers(rows) == {x.code : x \in rows}

Init ==
  /\ invoice \in [Invoices -> {"Draft", "Unpaid"}]
  /\ payments = {}
  /\ receipts = {}

Settle(i) ==
  /\ invoice[i] = "Unpaid"
  /\ invoice' = [invoice EXCEPT ![i] = "Paid"]
  /\ \E p \in payments' \ payments, r \in receipts' \ receipts :
       /\ payments' = payments \cup {p}
       /\ receipts' = receipts \cup {r}
       /\ p.invoice = i /\ r.invoice = i /\ r.payment = p.code
       /\ p.code \notin Numbers(payments) /\ r.code \notin Numbers(receipts)

Next == \E i \in Invoices : Settle(i)

Spec == Init /\ [][Next]_<<invoice, payments, receipts>>
=============================================================================
