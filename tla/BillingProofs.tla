--------------------------- MODULE BillingProofs ---------------------------
(***************************************************************************)
(* For any invoices, payouts and requests in flight: an invoice is paid    *)
(* once, numbers are given out in turn, and recording a payment implements *)
(* the one step of Ledger.                                                 *)
(***************************************************************************)
EXTENDS Billing, FiniteSetTheorems, TLAPS

Pays(q) == req[q].pc \in {"locked", "paid", "receipted"}

\* The locks exclude, and what a holder read under them stays true.
LockInv ==
  /\ \A q \in Requests : Pays(q) => invoice[req[q].row] = "Unpaid"
  /\ \A p, q \in Requests : Pays(p) /\ Pays(q) /\ req[p].row = req[q].row => p = q
  /\ \A p, q \in Requests : HoldsPAY(p) /\ HoldsPAY(q) => p = q
  /\ \A p, q \in Requests : HoldsRCP(p) /\ HoldsRCP(q) => p = q
  /\ \A q \in Requests : HoldsPAY(q) => req[q].pay = MaxCodeSeq(Numbers(payments)) + 1
  /\ \A q \in Requests : HoldsRCP(q) => req[q].rcp = MaxCodeSeq(Numbers(receipts)) + 1

Numbered(rows) == IsFiniteSet(rows) /\ Consecutive(rows)

BInv == TypeOK /\ PaidOnce /\ Numbered(payments) /\ Numbered(receipts) /\ LockInv

\* A statement is paid after its payout, and lags behind it only while a request
\* is on its way to it or died there.
PayoutInv ==
  /\ \A q \in Requests : req[q].pc = "statement" => payout[req[q].row] = "Paid"
  /\ \A p \in Payouts : statement[p] = "Paid" => payout[p] = "Paid"
  /\ \A p \in Payouts : payout[p] = "Paid" /\ statement[p] # "Paid" =>
       \E q \in Requests : \/ req[q].pc = "statement" /\ req[q].row = p
                           \/ req[q].pc = "crashed"

Others(q) == \A p \in Requests : p # q => req'[p] = req[p]

-----------------------------------------------------------------------------
\* What maxCodeSeq returns when the numbers have no gap.
LEMMA MaxOfInterval == ASSUME NEW n \in Nat PROVE MaxCodeSeq(1..n) = n
<1>1. n \in (1..n) \cup {0} /\ \A x \in (1..n) \cup {0} : x <= n
  OBVIOUS
<1>2. ASSUME NEW m \in (1..n) \cup {0}, \A x \in (1..n) \cup {0} : x <= m PROVE m = n
  BY <1>1, <1>2
<1> QED BY <1>1, <1>2 DEF MaxCodeSeq

\* The next number is new, and continues the sequence.
LEMMA NextRow ==
  ASSUME NEW rows, Numbered(rows), NEW x, x.code = MaxCodeSeq(Numbers(rows)) + 1
  PROVE  /\ x.code \in Nat /\ x.code \notin Numbers(rows) /\ x \notin rows
         /\ Numbered(rows \cup {x})
<1> DEFINE n == Cardinality(rows)
<1>1. n \in Nat /\ Numbers(rows) = 1..n
  BY FS_CardinalityType DEF Numbered, Consecutive
<1>2. x.code = n + 1
  BY <1>1, MaxOfInterval
<1>3. x.code \in Nat /\ x.code \notin Numbers(rows)
  BY <1>1, <1>2
<1>4. x \notin rows
  BY <1>3 DEF Numbers
<1>5. IsFiniteSet(rows \cup {x}) /\ Cardinality(rows \cup {x}) = n + 1
  BY <1>4, FS_AddElement DEF Numbered
<1>6. Numbers(rows \cup {x}) = 1..(n + 1)
  <2>1. Numbers(rows \cup {x}) = Numbers(rows) \cup {x.code}
    BY DEF Numbers
  <2>2. (1..n) \cup {n + 1} = 1..(n + 1)
    BY <1>1
  <2> QED BY <1>1, <1>2, <2>1, <2>2
<1>7. \A y, z \in rows \cup {x} : y.code = z.code => y = z
  BY <1>3 DEF Numbered, Consecutive, Numbers
<1> QED BY <1>3, <1>4, <1>5, <1>6, <1>7 DEF Numbered, Consecutive

LEMMA ReqUpdate ==
  ASSUME TypeOK, NEW q \in Requests, NEW s \in Slots, Move(q, s)
  PROVE  Others(q) /\ req'[q] = s /\ req' \in [Requests -> Slots]
BY DEF TypeOK, Move, Others

-----------------------------------------------------------------------------
LEMMA InitBInv == ASSUME Init PROVE BInv
<1>1. TypeOK /\ PaidOnce
  BY DEF Init, TypeOK, PaidOnce, Slots, Idle, NoRow
<1>2. Numbered({})
  <2>1. IsFiniteSet({}) /\ Cardinality({}) = 0
    BY FS_EmptySet
  <2> QED BY <2>1 DEF Numbered, Consecutive, Numbers
<1>3. LockInv
  BY DEF Init, LockInv, Pays, HoldsPAY, HoldsRCP, Idle
<1> QED BY <1>1, <1>2, <1>3 DEF Init, BInv

\* A step of q on its way that leaves the invoices and their rows alone.
LEMMA QuietStep ==
  ASSUME BInv, NEW q \in Requests, NEW s \in Slots, Move(q, s),
         UNCHANGED <<invoice, payments, receipts>>,
         payout' \in [Payouts -> {"Pending", "Paid"}],
         statement' \in [Payouts -> {"Approved", "Paid"}],
         s.pc \in {"locked", "paid", "receipted"} =>
           /\ s.row \in Invoices /\ invoice[s.row] = "Unpaid"
           /\ \A p \in Requests : p # q /\ Pays(p) => req[p].row # s.row,
         s.pc \in {"payout", "statement"} => s.row \in Payouts,
         s.pc \in {"paid", "receipted"} =>
           /\ s.pay = MaxCodeSeq(Numbers(payments)) + 1
           /\ \A p \in Requests : p # q => ~HoldsPAY(p),
         s.pc = "receipted" =>
           /\ s.rcp = MaxCodeSeq(Numbers(receipts)) + 1
           /\ \A p \in Requests : p # q => ~HoldsRCP(p)
  PROVE  BInv'
<1>1. Others(q) /\ req'[q] = s /\ req' \in [Requests -> Slots]
  BY ReqUpdate DEF BInv
<1>2. TypeOK'
  BY <1>1 DEF BInv, TypeOK, Others
<1>3. PaidOnce' /\ Numbered(payments)' /\ Numbered(receipts)'
  BY DEF BInv, PaidOnce, Numbered
<1>4. LockInv'
  BY <1>1 DEF BInv, LockInv, Pays, HoldsPAY, HoldsRCP, Others
<1> QED BY <1>2, <1>3, <1>4 DEF BInv

\* The commit: one payment, one receipt, under the next numbers.
LEMMA CommitStep ==
  ASSUME BInv, NEW q \in Requests, Commit(q)
  PROVE  BInv' /\ AsLedger!Settle(req[q].row)
<1> DEFINE i == req[q].row
           p == [code |-> req[q].pay, invoice |-> i]
           r == [code |-> req[q].rcp, invoice |-> i, payment |-> req[q].pay]
<1>1. /\ Pays(q) /\ HoldsPAY(q) /\ HoldsRCP(q) /\ i \in Invoices /\ invoice[i] = "Unpaid"
      /\ invoice' = [invoice EXCEPT ![i] = "Paid"]
      /\ payments' = payments \cup {p} /\ receipts' = receipts \cup {r}
      /\ payout' = payout /\ statement' = statement
  BY DEF Commit, Pays, HoldsPAY, HoldsRCP, BInv, TypeOK, LockInv
<1>2. /\ p.code = MaxCodeSeq(Numbers(payments)) + 1 /\ p.invoice = i
      /\ r.code = MaxCodeSeq(Numbers(receipts)) + 1 /\ r.invoice = i /\ r.payment = p.code
  BY <1>1 DEF BInv, LockInv
<1>3. /\ p.code \in Nat /\ p.code \notin Numbers(payments) /\ p \notin payments
      /\ Numbered(payments \cup {p})
  BY <1>2, NextRow DEF BInv
<1>4. /\ r.code \in Nat /\ r.code \notin Numbers(receipts) /\ r \notin receipts
      /\ Numbered(receipts \cup {r})
  BY <1>2, NextRow DEF BInv
<1>5. Others(q) /\ req'[q] = Idle /\ req' \in [Requests -> Slots]
  <2>1. Idle \in Slots
    BY DEF Idle, Slots
  <2> QED BY <2>1, ReqUpdate DEF Commit, BInv
<1>6. TypeOK'
  <2>1. p \in [code : Nat, invoice : Invoices] /\ r \in [code : Nat, invoice : Invoices, payment : Nat]
    BY <1>1, <1>2, <1>3, <1>4
  <2>2. req'[q].pc = "idle"
    BY <1>5 DEF Idle
  <2> HIDE DEF p, r
  <2> QED BY <1>1, <1>5, <2>1, <2>2 DEF BInv, TypeOK, Others
<1>7. PaidOnce'
  <2> HIDE DEF p, r
  <2>1. ASSUME NEW j \in Invoices
        PROVE  LET ps == {x \in payments' : x.invoice = j}
                   rs == {x \in receipts' : x.invoice = j}
               IN IF invoice'[j] = "Paid"
                    THEN \E a \in ps : ps = {a} /\ \E b \in rs : rs = {b} /\ b.payment = a.code
                    ELSE ps = {} /\ rs = {}
    <3>1. CASE j = i
      <4>1. {x \in payments : x.invoice = i} = {} /\ {x \in receipts : x.invoice = i} = {}
        BY <1>1 DEF BInv, PaidOnce
      <4>2. {x \in payments' : x.invoice = i} = {p} /\ {x \in receipts' : x.invoice = i} = {r}
        BY <1>1, <1>2, <4>1
      <4>3. invoice'[i] = "Paid"
        BY <1>1 DEF BInv, TypeOK
      <4> QED BY <1>2, <3>1, <4>2, <4>3
    <3>2. CASE j # i
      <4>1. /\ {x \in payments' : x.invoice = j} = {x \in payments : x.invoice = j}
            /\ {x \in receipts' : x.invoice = j} = {x \in receipts : x.invoice = j}
            /\ invoice'[j] = invoice[j]
        BY <1>1, <1>2, <3>2 DEF BInv, TypeOK
      <4> QED BY <4>1 DEF BInv, PaidOnce
    <3> QED BY <3>1, <3>2
  <2> QED BY <2>1 DEF PaidOnce
<1>8. LockInv'
  <2>1. ~Pays(q)' /\ ~HoldsPAY(q)' /\ ~HoldsRCP(q)'
    BY <1>5 DEF Pays, HoldsPAY, HoldsRCP, Idle
  <2>2. ASSUME NEW o \in Requests, o # q
        PROVE  /\ ~HoldsPAY(o)' /\ ~HoldsRCP(o)'
               /\ Pays(o)' => Pays(o) /\ req'[o] = req[o] /\ invoice'[req[o].row] = invoice[req[o].row]
    <3>1. ~HoldsPAY(o) /\ ~HoldsRCP(o) /\ req'[o] = req[o]
      BY <1>1, <1>5, <2>2 DEF BInv, LockInv, Others
    <3>2. Pays(o) => req[o].row # i /\ req[o].row \in Invoices
      BY <1>1, <2>2 DEF BInv, LockInv, Pays, TypeOK
    <3> QED BY <1>1, <3>1, <3>2 DEF HoldsPAY, HoldsRCP, Pays, BInv, TypeOK
  <2> QED BY <2>1, <2>2 DEF BInv, LockInv
<1>9. AsLedger!Settle(i)
  <2> HIDE DEF p, r
  <2>1. p \in payments' \ payments /\ r \in receipts' \ receipts
    BY <1>1, <1>3, <1>4
  <2>2. AsLedger!Numbers(payments) = Numbers(payments) /\ AsLedger!Numbers(receipts) = Numbers(receipts)
    BY DEF AsLedger!Numbers, Numbers
  <2> QED BY <1>1, <1>2, <1>3, <1>4, <2>1, <2>2 DEF AsLedger!Settle
<1> QED BY <1>1, <1>3, <1>4, <1>6, <1>7, <1>8, <1>9 DEF BInv

LEMMA StepBInv ==
  ASSUME BInv, [Next]_vars
  PROVE  /\ BInv'
         /\ \/ \E i \in Invoices : AsLedger!Settle(i)
            \/ UNCHANGED <<invoice, payments, receipts>>
<1> USE DEF BInv
<1>1. ASSUME NEW q \in Requests, NEW i \in Invoices, LockInvoice(q, i) PROVE BInv'
  <2>1. [pc |-> "locked", row |-> i, pay |-> 0, rcp |-> 0] \in Slots
    BY DEF Slots
  <2> QED BY <1>1, <2>1, QuietStep DEF LockInvoice, HoldsInvoice, Pays, TypeOK
<1>2. ASSUME NEW q \in Requests, CreatePayment(q) PROVE BInv'
  <2>1. req[q] \in Slots /\ Pays(q) /\ req[q].row \in Invoices /\ invoice[req[q].row] = "Unpaid"
    BY <1>2 DEF CreatePayment, Pays, TypeOK, LockInv
  <2> DEFINE n == MaxCodeSeq(Numbers(payments)) + 1
  <2>2. n \in Nat
    <3>1. Cardinality(payments) \in Nat /\ Numbers(payments) = 1..Cardinality(payments)
      BY FS_CardinalityType DEF Numbered, Consecutive
    <3> QED BY <3>1, MaxOfInterval
  <2> DEFINE s == [pc |-> "paid", row |-> req[q].row, pay |-> n, rcp |-> 0]
  <2>3. s \in Slots
    BY <2>1, <2>2 DEF Slots
  <2>4. \A p \in Requests : p # q /\ Pays(p) => req[p].row # req[q].row
    BY <2>1 DEF LockInv
  <2> QED BY <1>2, <2>1, <2>3, <2>4, QuietStep DEF CreatePayment, TypeOK
<1>3. ASSUME NEW q \in Requests, CreateReceipt(q) PROVE BInv'
  <2>1. /\ req[q] \in Slots /\ Pays(q) /\ HoldsPAY(q) /\ req[q].row \in Invoices
        /\ invoice[req[q].row] = "Unpaid" /\ req[q].pay = MaxCodeSeq(Numbers(payments)) + 1
    BY <1>3 DEF CreateReceipt, Pays, HoldsPAY, TypeOK, LockInv
  <2> DEFINE n == MaxCodeSeq(Numbers(receipts)) + 1
  <2>2. n \in Nat
    <3>1. Cardinality(receipts) \in Nat /\ Numbers(receipts) = 1..Cardinality(receipts)
      BY FS_CardinalityType DEF Numbered, Consecutive
    <3> QED BY <3>1, MaxOfInterval
  <2> DEFINE s == [pc |-> "receipted", row |-> req[q].row, pay |-> req[q].pay, rcp |-> n]
  <2>3. s \in Slots
    BY <2>1, <2>2 DEF Slots
  <2>4. \A p \in Requests : p # q => ~HoldsPAY(p) /\ (Pays(p) => req[p].row # req[q].row)
    BY <2>1 DEF LockInv
  <2> QED BY <1>3, <2>1, <2>3, <2>4, QuietStep DEF CreateReceipt, TypeOK
<1>4. ASSUME NEW q \in Requests, Rollback(q) PROVE BInv'
  <2>1. Idle \in Slots /\ Idle.pc = "idle"
    BY DEF Idle, Slots
  <2> QED BY <1>4, <2>1, QuietStep DEF Rollback, TypeOK
<1>5. ASSUME NEW q \in Requests, NEW p \in Payouts, LoadPayout(q, p) PROVE BInv'
  <2>1. [pc |-> "payout", row |-> p, pay |-> 0, rcp |-> 0] \in Slots
    BY DEF Slots
  <2> QED BY <1>5, <2>1, QuietStep DEF LoadPayout, TypeOK
<1>6. ASSUME NEW q \in Requests, SavePayout(q) PROVE BInv'
  <2>1. [pc |-> "statement", row |-> req[q].row, pay |-> 0, rcp |-> 0] \in Slots /\ req[q].row \in Payouts
    BY <1>6 DEF SavePayout, Slots, TypeOK
  <2> QED BY <1>6, <2>1, QuietStep DEF SavePayout, TypeOK
<1>7. ASSUME NEW q \in Requests, SaveStatement(q) PROVE BInv'
  <2>1. Idle \in Slots /\ Idle.pc = "idle" /\ req[q].row \in Payouts
    BY <1>7 DEF SaveStatement, TypeOK, Idle, Slots
  <2> QED BY <1>7, <2>1, QuietStep DEF SaveStatement, TypeOK
<1>8. ASSUME NEW q \in Requests, Crash(q) PROVE BInv'
  <2>1. Dead \in Slots /\ Dead.pc = "crashed"
    BY DEF Dead, Slots
  <2> QED BY <1>8, <2>1, QuietStep DEF Crash, TypeOK
<1>9. ASSUME NEW q \in Requests, Commit(q) PROVE BInv' /\ \E i \in Invoices : AsLedger!Settle(i)
  BY <1>9, CommitStep DEF TypeOK, Commit
<1>10. CASE UNCHANGED vars
  <2>1. BInv'
    BY <1>10 DEF vars, TypeOK, PaidOnce, Numbered, LockInv, Pays, HoldsPAY, HoldsRCP
  <2> QED BY <1>10, <2>1 DEF vars
<1>11. ASSUME NEW q \in Requests,
              \/ \E i \in Invoices : LockInvoice(q, i)
              \/ \E p \in Payouts : LoadPayout(q, p)
              \/ Rollback(q) \/ Crash(q) \/ CreatePayment(q) \/ CreateReceipt(q)
              \/ SavePayout(q) \/ SaveStatement(q)
       PROVE  UNCHANGED <<invoice, payments, receipts>>
  BY <1>11 DEF LockInvoice, LoadPayout, Rollback, Crash, CreatePayment, CreateReceipt, SavePayout,
               SaveStatement
<1> HIDE DEF BInv
<1> QED
  BY <1>1, <1>2, <1>3, <1>4, <1>5, <1>6, <1>7, <1>8, <1>9, <1>10, <1>11 DEF Next, Proceed

LEMMA StepPayoutInv == ASSUME TypeOK, PayoutInv, [Next]_vars PROVE PayoutInv'
<1>1. ASSUME NEW q \in Requests,
             \/ \E i \in Invoices : LockInvoice(q, i)
             \/ \E p \in Payouts : LoadPayout(q, p)
             \/ Rollback(q) \/ CreatePayment(q) \/ CreateReceipt(q) \/ Commit(q)
      PROVE  PayoutInv'
  <2>1. /\ req[q].pc \notin {"statement", "crashed"} /\ UNCHANGED <<payout, statement>>
        /\ req'[q].pc # "statement" /\ Move(q, req'[q])
    BY <1>1 DEF LockInvoice, LoadPayout, Rollback, CreatePayment, CreateReceipt, Commit, Move, Idle, TypeOK
  <2>2. Others(q)
    BY <2>1 DEF Move, Others, TypeOK
  <2>3. ASSUME NEW p \in Requests, req[p].pc \in {"statement", "crashed"} PROVE req'[p] = req[p]
    BY <2>1, <2>2, <2>3 DEF Others
  <2>4. ASSUME NEW p \in Requests, req'[p].pc = "statement" PROVE req'[p] = req[p]
    BY <2>1, <2>2, <2>4 DEF Others
  <2> QED BY <2>1, <2>3, <2>4 DEF PayoutInv
<1>2. ASSUME NEW q \in Requests, SavePayout(q) PROVE PayoutInv'
  <2>1. /\ req[q].pc = "payout" /\ req[q].row \in Payouts /\ statement' = statement
        /\ payout' = [payout EXCEPT ![req[q].row] = "Paid"] /\ Others(q)
        /\ req'[q] = [pc |-> "statement", row |-> req[q].row, pay |-> 0, rcp |-> 0]
    BY <1>2 DEF SavePayout, Move, Others, TypeOK
  <2>2. \A p \in Payouts : payout'[p] = IF p = req[q].row THEN "Paid" ELSE payout[p]
    BY <2>1 DEF TypeOK
  <2>3. \A p \in Requests : req'[p].pc = "statement" => payout'[req'[p].row] = "Paid"
    BY <2>1, <2>2 DEF PayoutInv, Others, TypeOK
  <2>4. ASSUME NEW p \in Payouts, payout'[p] = "Paid", statement'[p] # "Paid"
        PROVE  \E o \in Requests : \/ req'[o].pc = "statement" /\ req'[o].row = p
                                   \/ req'[o].pc = "crashed"
    <3>1. CASE p = req[q].row
      BY <2>1, <3>1
    <3>2. CASE p # req[q].row
      <4>1. PICK o \in Requests : \/ req[o].pc = "statement" /\ req[o].row = p
                                  \/ req[o].pc = "crashed"
        BY <2>1, <2>2, <2>4, <3>2 DEF PayoutInv
      <4> QED BY <2>1, <4>1 DEF Others
    <3> QED BY <3>1, <3>2
  <2> QED BY <2>1, <2>2, <2>3, <2>4 DEF PayoutInv
<1>3. ASSUME NEW q \in Requests, SaveStatement(q) PROVE PayoutInv'
  <2>1. /\ req[q].pc = "statement" /\ req[q].row \in Payouts /\ payout' = payout
        /\ statement' = [statement EXCEPT ![req[q].row] = "Paid"] /\ Others(q)
        /\ req'[q].pc = "idle" /\ payout[req[q].row] = "Paid"
    BY <1>3 DEF SaveStatement, Move, Idle, Others, TypeOK, PayoutInv
  <2>2. \A p \in Payouts : statement'[p] = IF p = req[q].row THEN "Paid" ELSE statement[p]
    BY <2>1 DEF TypeOK
  <2>3. ASSUME NEW p \in Payouts, payout'[p] = "Paid", statement'[p] # "Paid"
        PROVE  \E o \in Requests : \/ req'[o].pc = "statement" /\ req'[o].row = p
                                   \/ req'[o].pc = "crashed"
    <3>1. PICK o \in Requests : \/ req[o].pc = "statement" /\ req[o].row = p
                                \/ req[o].pc = "crashed"
      BY <2>1, <2>2, <2>3 DEF PayoutInv
    <3> QED BY <2>1, <2>2, <2>3, <3>1 DEF Others
  <2> QED BY <2>1, <2>2, <2>3 DEF PayoutInv, Others
<1>4. ASSUME NEW q \in Requests, Crash(q) PROVE PayoutInv'
  <2>1. req'[q].pc = "crashed" /\ Others(q) /\ payout' = payout /\ statement' = statement
    BY <1>4 DEF Crash, Move, Dead, Others, TypeOK
  <2> QED BY <2>1 DEF PayoutInv, Others
<1>5. CASE UNCHANGED vars
  BY <1>5 DEF vars, PayoutInv
<1> QED BY <1>1, <1>2, <1>3, <1>4, <1>5 DEF Next, Proceed

LEMMA BillingInvariant == Spec => [](BInv /\ PayoutInv)
<1>1. Init => BInv /\ PayoutInv
  BY InitBInv DEF Init, PayoutInv, Idle
<1>2. BInv /\ PayoutInv /\ [Next]_vars => BInv' /\ PayoutInv'
  BY StepBInv, StepPayoutInv DEF BInv
<1> QED BY <1>1, <1>2, PTL DEF Spec

\* The rows of invoices, payments, receipts, payouts and statements, and what the
\* handlers hold of them, keep their types.
THEOREM BillingTypes == Spec => []TypeOK
<1>1. BInv => TypeOK
  BY DEF BInv
<1> QED BY <1>1, BillingInvariant, PTL

\* An invoice is paid once, payments and receipts are numbered in turn, and a payout is
\* settled together with its statement.
THEOREM BillingSafety == Spec => []PaymentsSound
<1>1. BInv /\ PayoutInv => PaymentsSound
  <2>1. BInv => TypeOK /\ PaidOnce /\ NumbersConsecutive
    BY DEF BInv, Numbered, NumbersConsecutive
  <2>2. TypeOK /\ PayoutInv => SettledTogether
    BY DEF PayoutInv, SettledTogether, TypeOK
  <2> QED BY <2>1, <2>2 DEF PaymentsSound
<1> QED BY <1>1, BillingInvariant, PTL

\* The transaction, with its locks and its rows nobody sees before the commit,
\* implements the one step of Ledger.
THEOREM BillingImplementsLedger == Spec => LedgerSpec
<1>1. Init => AsLedger!Init
  BY DEF Init, AsLedger!Init
<1>2. BInv /\ [Next]_vars => BInv' /\ [AsLedger!Next]_<<invoice, payments, receipts>>
  BY StepBInv DEF AsLedger!Next
<1> QED BY <1>1, <1>2, InitBInv, PTL DEF Spec, LedgerSpec, AsLedger!Spec
=============================================================================
