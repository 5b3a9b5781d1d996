--------------------------- MODULE CustomerProofs ---------------------------
(***************************************************************************)
(* For any number of entries and of requests in flight, with or without    *)
(* crashes: an entry of the pipeline is provisioned at most once, and      *)
(* carries the ids of its tenant and subscription exactly then.  For any   *)
(* durations and any renewals in flight: what is paid for is served, the   *)
(* last payment buys a full term, and time alone only takes access away.   *)
(*                                                                         *)
(* ProvisionedOnce is not inductive: between the check of the transaction  *)
(* and its commit another request must not provision the entry.  What      *)
(* makes it so is the row lock (LockHeld: at most one transaction per row) *)
(* and that a transaction past its check holds a row that is not linked    *)
(* (NotYetLinked).  For the terms it is what a renewal read (ReadInv).     *)
(***************************************************************************)
EXTENDS Customer, Naturals, TLAPS

Holds(q, e) == req[q].pc \in {"verifying", "provisioning"} /\ req[q].entry = e

\* A row is locked by at most one transaction.
LockHeld == \A p, q \in Requests : \A e \in Entries : Holds(p, e) /\ Holds(q, e) => p = q

\* A transaction that is about to provision looks at an entry nobody has provisioned.
NotYetLinked == \A q \in Requests : req[q].pc = "provisioning" => ~entry[req[q].entry].linked

PInv == TypeOK /\ ProvisionedOnce /\ LockHeld /\ NotYetLinked

Pays == {"none", "Awaiting Transfer", "Under Verification", "Verified", "Rejected"}
Rows == [stage : Stages, linked : BOOLEAN, pay : Pays]

Others(q) == \A p \in Requests : p # q => req'[p] = req[p]

-----------------------------------------------------------------------------
LEMMA ReqUpdate ==
  ASSUME TypeOK, NEW q \in Requests, NEW s \in Slots, Move(q, s)
  PROVE  Others(q) /\ req'[q] = s /\ req' \in [Requests -> Slots]
BY DEF TypeOK, Move, Others

LEMMA IdleSlot == Idle \in Slots /\ Idle.pc = "idle" /\ Dead \in Slots /\ Dead.pc = "crashed"
BY DEF Idle, Dead, Slots, Stages

\* The slot of a request that moves on to pc keeps the rest.
LEMMA AtSlot ==
  ASSUME TypeOK, NEW q \in Requests, NEW pc \in {"provision", "paid", "provisioning", "failed"}
  PROVE  /\ At(q, pc) \in Slots
         /\ At(q, pc).pc = pc
         /\ At(q, pc).entry = req[q].entry
BY DEF TypeOK, At, Slots

LEMMA InitPInv == ASSUME Init PROVE PInv
<1>1. TypeOK
  BY IdleSlot DEF Init, TypeOK, Absent, Stages
<1>2. ProvisionedOnce
  BY DEF Init, ProvisionedOnce, Absent
<1>3. LockHeld /\ NotYetLinked
  BY IdleSlot DEF Init, LockHeld, NotYetLinked, Holds
<1> QED BY <1>1, <1>2, <1>3 DEF PInv

\* A step of q that provisions nothing.
LEMMA QuietStep ==
  ASSUME PInv, NEW q \in Requests, NEW s \in Slots, Move(q, s),
         UNCHANGED <<tenants, subs>>,
         entry' \in [Entries -> Rows], stale' \in [Entries -> BOOLEAN],
         \A e \in Entries : entry'[e].linked = entry[e].linked,
         s.pc \notin {"idle", "crashed"} => s.entry \in Entries,
         s.pc = "loaded" => s.op \in PlainEdits,
         s.pc \in {"verifying", "provisioning"} => \A p \in Requests : p # q => ~Holds(p, s.entry),
         s.pc = "provisioning" => ~entry[s.entry].linked
  PROVE  PInv'
<1> USE DEF PInv
<1>1. Others(q) /\ req'[q] = s /\ req' \in [Requests -> Slots]
  BY ReqUpdate
<1>2. TypeOK'
  BY <1>1 DEF TypeOK, Others, Rows, Pays
<1>3. ProvisionedOnce'
  BY DEF ProvisionedOnce
<1>4. LockHeld'
  BY <1>1 DEF LockHeld, Others, Holds
<1>5. NotYetLinked'
  BY <1>1 DEF NotYetLinked, Others, TypeOK
<1> QED BY <1>2, <1>3, <1>4, <1>5

\* The row after a save that keeps the ids.
LEMMA RowUpdate ==
  ASSUME TypeOK, NEW e \in Entries, NEW st \in Stages, NEW pay \in Pays,
         entry' = [entry EXCEPT ![e] = [stage |-> st, pay |-> pay, linked |-> entry[e].linked]]
  PROVE  entry' \in [Entries -> Rows] /\ \A f \in Entries : entry'[f].linked = entry[f].linked
BY DEF TypeOK, Rows, Pays

LEMMA StepPInv == ASSUME PInv, [Next]_vars PROVE PInv'
<1> USE DEF PInv
<1>t. TypeOK /\ LockHeld
  OBVIOUS
<1>e. /\ entry \in [Entries -> Rows] /\ stale \in [Entries -> BOOLEAN]
      /\ \A e \in Entries : entry[e].pay \in Pays /\ entry[e].stage \in Stages
  BY <1>t DEF TypeOK, Rows, Pays
<1>0. CASE UNCHANGED vars
  BY <1>0 DEF vars, TypeOK, ProvisionedOnce, LockHeld, NotYetLinked, Holds
<1>1. ASSUME NEW e \in Entries, CreateQuote(e) PROVE PInv'
  <2>1. /\ entry' \in [Entries -> Rows]
        /\ \A f \in Entries : entry'[f].linked = entry[f].linked
    <3> DEFINE r == [stage |-> "Quote Sent", pay |-> "none", linked |-> FALSE]
    <3>1. r \in Rows /\ ~r.linked /\ ~entry[e].linked
      <4>1. r \in Rows /\ ~r.linked
        BY DEF Rows, Pays, Stages
      <4>2. entry[e] = Absent /\ Absent.linked = FALSE
        BY <1>1 DEF CreateQuote, Absent
      <4> HIDE DEF r
      <4> QED BY <4>1, <4>2
    <3>2. entry' = [entry EXCEPT ![e] = r]
      BY <1>1 DEF CreateQuote
    <3> HIDE DEF r
    <3> QED BY <1>e, <3>1, <3>2 DEF Rows
  <2>2. TypeOK'
    BY <1>1, <1>t, <2>1 DEF CreateQuote, TypeOK, Rows, Pays
  <2>3. ProvisionedOnce' /\ LockHeld'
    BY <1>1, <2>1 DEF CreateQuote, ProvisionedOnce, LockHeld, Holds
  <2>4. NotYetLinked'
    BY <1>1, <2>1, <1>t DEF CreateQuote, NotYetLinked, TypeOK
  <2> QED BY <2>2, <2>3, <2>4
<1>2. ASSUME NEW q \in Requests, NEW e \in Entries, NEW op \in PlainEdits, LoadEdit(q, e, op) PROVE PInv'
  <2> DEFINE s == [pc |-> "loaded", entry |-> e, op |-> op, stage |-> entry[e].stage]
  <2>1. s \in Slots
    BY <1>e DEF Slots
  <2> QED BY <1>2, <1>e, <2>1, QuietStep DEF LoadEdit
<1>3. ASSUME NEW q \in Requests, NEW e \in Entries, LockVerify(q, e) PROVE PInv'
  <2> DEFINE s == [pc |-> "verifying", entry |-> e, op |-> "none", stage |-> entry[e].stage]
  <2>1. s \in Slots
    BY <1>e DEF Slots
  <2>2. \A p \in Requests : ~Holds(p, e)
    BY <1>3 DEF LockVerify, RowLocked, Holds
  <2> QED BY <1>3, <1>e, <2>1, <2>2, QuietStep DEF LockVerify
<1>4. ASSUME NEW q \in Requests, NEW e \in Entries, Retry(q, e) PROVE PInv'
  <2> DEFINE s == [pc |-> "provision", entry |-> e, op |-> "none", stage |-> entry[e].stage]
  <2>1. s \in Slots
    BY <1>e DEF Slots
  <2> QED BY <1>4, <1>e, <2>1, QuietStep DEF Retry
<1>5. ASSUME NEW q \in Requests, SaveEdit(q) PROVE PInv'
  <2> DEFINE e == req[q].entry
  <2>1. e \in Entries /\ req[q].op \in PlainEdits
    BY <1>5, <1>t DEF SaveEdit, TypeOK
  <2>2. StageAfter(req[q].op) \in Stages /\ PaymentAfter(req[q].op, entry[e].pay) \in Pays
    <3>1. PaymentAfter(req[q].op, entry[e].pay) \in {"Awaiting Transfer", "Under Verification", entry[e].pay}
      BY DEF PaymentAfter
    <3>2. PaymentAfter(req[q].op, entry[e].pay) \in Pays
      BY <2>1, <3>1, <1>e DEF Pays
    <3>3. StageAfter(req[q].op) \in Stages
      BY <2>1 DEF StageAfter, PlainEdits, Stages
    <3> QED BY <3>2, <3>3
  <2>3. entry' \in [Entries -> Rows] /\ \A f \in Entries : entry'[f].linked = entry[f].linked
    BY <1>5, <1>t, <2>1, <2>2, RowUpdate DEF SaveEdit
  <2>4. stale' \in [Entries -> BOOLEAN]
    BY <1>5, <1>e DEF SaveEdit
  <2> QED BY <1>5, <2>3, <2>4, IdleSlot, QuietStep DEF SaveEdit
<1>6. ASSUME NEW q \in Requests, CommitVerified(q) PROVE PInv'
  <2>1. req[q].entry \in Entries
    BY <1>6, <1>t DEF CommitVerified, TypeOK
  <2>2. entry' \in [Entries -> Rows] /\ \A f \in Entries : entry'[f].linked = entry[f].linked
    BY <1>6, <1>t, <1>e, <2>1, RowUpdate DEF CommitVerified, Pays
  <2> QED BY <1>6, <1>t, <1>e, <2>1, <2>2, AtSlot, QuietStep DEF CommitVerified
<1>7. ASSUME NEW q \in Requests, CommitRejected(q) PROVE PInv'
  <2>1. req[q].entry \in Entries
    BY <1>7, <1>t DEF CommitRejected, TypeOK
  <2>2. entry' \in [Entries -> Rows] /\ \A f \in Entries : entry'[f].linked = entry[f].linked
    BY <1>7, <1>t, <2>1, RowUpdate DEF CommitRejected, Pays, Stages
  <2> QED BY <1>7, <1>e, <2>2, IdleSlot, QuietStep DEF CommitRejected
<1>8. ASSUME NEW q \in Requests, CheckPayment(q) PROVE PInv'
  <2>1. req[q].entry \in Entries
    BY <1>8, <1>t DEF CheckPayment, TypeOK
  <2>2. CASE entry[req[q].entry].pay = "Verified"
    BY <1>8, <1>t, <1>e, <2>1, <2>2, AtSlot, QuietStep DEF CheckPayment
  <2>3. CASE entry[req[q].entry].pay # "Verified"
    BY <1>8, <1>e, <2>3, IdleSlot, QuietStep DEF CheckPayment
  <2> QED BY <2>2, <2>3
<1>9. ASSUME NEW q \in Requests, LockProvision(q) PROVE PInv'
  <2> DEFINE e == req[q].entry
  <2>1. e \in Entries
    BY <1>9, <1>t DEF LockProvision, TypeOK
  <2>2. \A p \in Requests : ~Holds(p, e)
    BY <1>9 DEF LockProvision, RowLocked, Holds
  <2>3. CASE entry[e].linked \/ entry[e].stage = "Completed"
    BY <1>9, <1>e, <2>3, IdleSlot, QuietStep DEF LockProvision
  <2>4. CASE ~(entry[e].linked \/ entry[e].stage = "Completed")
    <3>1. Move(q, At(q, "provisioning"))
      BY <1>9, <2>4 DEF LockProvision
    <3> QED BY <1>9, <1>t, <1>e, <2>1, <2>2, <2>4, <3>1, AtSlot, QuietStep DEF LockProvision
  <2> QED BY <2>3, <2>4
<1>10. ASSUME NEW q \in Requests, CommitProvision(q) PROVE PInv'
  <2> DEFINE e == req[q].entry
  <2>1. e \in Entries /\ ~entry[e].linked /\ Holds(q, e)
    BY <1>10, <1>t DEF CommitProvision, TypeOK, NotYetLinked, Holds
  <2>2. Others(q) /\ req'[q] = Idle /\ req' \in [Requests -> Slots]
    BY <1>10, IdleSlot, ReqUpdate DEF CommitProvision
  <2>3. \A f \in Entries :
          /\ f # e => entry'[f] = entry[f] /\ subs'[f] = subs[f] /\ tenants'[f] = tenants[f]
          /\ f = e => entry'[f].linked /\ subs'[f] = subs[f] + 1 /\ tenants'[f] = tenants[f] + 1
    BY <1>10, <1>t, <1>e DEF CommitProvision, TypeOK
  <2>4. entry' \in [Entries -> Rows] /\ tenants' \in [Entries -> Nat] /\ subs' \in [Entries -> Nat]
    <3> DEFINE r == [stage |-> "Completed", pay |-> entry[e].pay, linked |-> TRUE]
    <3>1. r \in Rows
      BY <1>e, <2>1 DEF Rows, Stages
    <3>2. entry' = [entry EXCEPT ![e] = r]
      BY <1>10 DEF CommitProvision
    <3>3. tenants' = [tenants EXCEPT ![e] = tenants[e] + 1] /\ subs' = [subs EXCEPT ![e] = subs[e] + 1]
      BY <1>10 DEF CommitProvision
    <3>4. tenants' \in [Entries -> Nat] /\ subs' \in [Entries -> Nat]
      <4>1. tenants \in [Entries -> Nat] /\ subs \in [Entries -> Nat]
        BY <1>t DEF TypeOK
      <4>2. tenants[e] + 1 \in Nat /\ subs[e] + 1 \in Nat
        BY <2>1, <4>1
      <4> HIDE DEF e
      <4> QED BY <3>3, <4>1, <4>2
    <3> HIDE DEF r
    <3> QED BY <1>e, <3>1, <3>2, <3>4
  <2>5. TypeOK'
    BY <1>10, <1>t, <2>2, <2>4, IdleSlot DEF CommitProvision, TypeOK, Others, Rows, Pays
  <2>6. ProvisionedOnce'
    <3>1. ASSUME NEW f \in Entries
          PROVE  /\ tenants'[f] = subs'[f]
                 /\ entry'[f].linked => subs'[f] = 1
                 /\ ~entry'[f].linked => subs'[f] = 0
      <4>1. /\ tenants[f] = subs[f]
            /\ entry[f].linked => subs[f] = 1
            /\ ~entry[f].linked => subs[f] = 0
        BY DEF ProvisionedOnce
      <4>2. CASE f = e
        <5>1. tenants[e] = 0 /\ subs[e] = 0
          BY <2>1, <4>1, <4>2
        <5>2. subs'[f] = subs[f] + 1 /\ tenants'[f] = tenants[f] + 1 /\ entry'[f].linked
          BY <2>3, <4>2
        <5> QED BY <4>2, <5>1, <5>2
      <4>3. CASE f # e
        BY <2>3, <4>1, <4>3
      <4> QED BY <4>2, <4>3
    <3> QED BY <3>1 DEF ProvisionedOnce
  <2>7. LockHeld'
    BY <2>2, IdleSlot DEF LockHeld, Others, Holds
  <2>8. NotYetLinked'
    <3>1. ASSUME NEW p \in Requests, p # q, req[p].pc = "provisioning" PROVE ~entry'[req[p].entry].linked
      <4>1. req[p].entry \in Entries /\ req[p].entry # e
        BY <2>1, <3>1, <1>t DEF TypeOK, LockHeld, Holds
      <4>2. entry'[req[p].entry] = entry[req[p].entry]
        BY <2>3, <4>1
      <4>3. ~entry[req[p].entry].linked
        BY <3>1 DEF NotYetLinked
      <4> QED BY <4>2, <4>3
    <3>2. \A p \in Requests : p # q => req'[p] = req[p]
      BY <2>2 DEF Others
    <3>3. req'[q].pc = "idle"
      BY <2>2, IdleSlot
    <3> QED BY <3>1, <3>2, <3>3 DEF NotYetLinked
  <2> QED BY <2>5, <2>6, <2>7, <2>8
<1>11. ASSUME NEW q \in Requests, FailProvision(q) PROVE PInv'
  <2>1. req[q].entry \in Entries
    BY <1>11, <1>t DEF FailProvision, TypeOK
  <2> QED BY <1>11, <1>t, <1>e, <2>1, AtSlot, QuietStep DEF FailProvision
<1>12. ASSUME NEW q \in Requests, LoadFailure(q) PROVE PInv'
  <2> DEFINE s == [pc |-> "recording", entry |-> req[q].entry, op |-> "none", stage |-> entry[req[q].entry].stage]
  <2>1. req[q].entry \in Entries
    BY <1>12, <1>t DEF LoadFailure, TypeOK
  <2>2. s \in Slots
    BY <1>e, <2>1 DEF Slots
  <2> QED BY <1>12, <1>e, <2>1, <2>2, QuietStep DEF LoadFailure
<1>13. ASSUME NEW q \in Requests, SaveFailure(q) PROVE PInv'
  <2> DEFINE e == req[q].entry
  <2> DEFINE st == Changed(entry[e].stage, req[q].stage, "Provisioning Failed")
  <2>1. e \in Entries
    BY <1>13, <1>t DEF SaveFailure, TypeOK
  <2>2. st \in Stages
    BY <1>e, <2>1 DEF Changed, Stages
  <2>3. entry' \in [Entries -> Rows] /\ \A f \in Entries : entry'[f].linked = entry[f].linked
    BY <1>13, <1>t, <1>e, <2>1, <2>2, RowUpdate DEF SaveFailure
  <2>4. stale' \in [Entries -> BOOLEAN]
    BY <1>13, <1>e DEF SaveFailure
  <2> QED BY <1>13, <2>3, <2>4, IdleSlot, QuietStep DEF SaveFailure
<1>14. ASSUME NEW q \in Requests, Crash(q) PROVE PInv'
  BY <1>14, <1>e, IdleSlot, QuietStep DEF Crash
<1> QED BY <1>0, <1>1, <1>2, <1>3, <1>4, <1>5, <1>6, <1>7, <1>8, <1>9, <1>10, <1>11, <1>12, <1>13, <1>14
        DEF Next, Proceed

\* For every set of entries and of requests in flight, crashes or not: an entry is
\* provisioned at most once, tenant and subscription together, and names them.
THEOREM PipelineSafety == Spec => [](TypeOK /\ ProvisionedOnce)
<1>1. Init => PInv
  BY InitPInv
<1>2. PInv /\ [Next]_vars => PInv'
  BY StepPInv
<1>3. PInv => TypeOK /\ ProvisionedOnce
  BY DEF PInv
<1> QED BY <1>1, <1>2, <1>3, PTL DEF Spec

-----------------------------------------------------------------------------
Working == {"provision", "paid", "provisioning", "failed", "recording"}

\* What a row says of itself: completed means linked and, unless it was overwritten,
\* paid; a paid row waits at one of three stages.
RowInv(e) ==
  /\ entry[e].stage = "Completed" => entry[e].linked /\ (stale[e] \/ entry[e].pay = "Verified")
  /\ entry[e].linked => entry[e].stage = "Completed" \/ stale[e]
  /\ ~stale[e] /\ entry[e].pay = "Verified" =>
       entry[e].stage \in {"Under Verification", "Provisioning Failed", "Completed"}

\* What a request may rely on.
SlotInv(q) ==
  /\ req[q].pc = "loaded" => req[q].op \in Allowed(req[q].stage)
  /\ req[q].pc \in {"paid", "provisioning"} =>
       stale[req[q].entry] \/ entry[req[q].entry].pay = "Verified"
  /\ req[q].pc = "verifying" =>
       /\ entry[req[q].entry].stage = "Under Verification"
       /\ entry[req[q].entry].pay # "Verified"

\* A paid row is resolved, or a request is at work on it.
Carried(e) ==
  NobodyDied /\ ~stale[e] /\ entry[e].pay = "Verified" =>
    Resolved(e) \/ \E q \in Requests : req[q].pc \in Working /\ req[q].entry = e

PaidInv == (\A e \in Entries : RowInv(e) /\ Carried(e)) /\ (\A q \in Requests : SlotInv(q))

LEMMA InitPaidInv == ASSUME Init PROVE PaidInv
BY DEF Init, PaidInv, RowInv, Carried, SlotInv, Idle, Absent

\* A step of q that leaves the rows alone, and drops no row it worked on unless the row
\* is settled or the request died.
LEMMA QuietPaid ==
  ASSUME PInv, PaidInv, NEW q \in Requests, NEW s \in Slots, Move(q, s), req[q].pc # "crashed",
         UNCHANGED <<entry, stale>>,
         s.pc = "loaded" => s.op \in Allowed(s.stage),
         s.pc \in {"paid", "provisioning"} => stale[s.entry] \/ entry[s.entry].pay = "Verified",
         s.pc = "verifying" => entry[s.entry].stage = "Under Verification" /\ entry[s.entry].pay # "Verified",
         req[q].pc \in Working =>
           \/ s.pc = "crashed"
           \/ s.pc \in Working /\ s.entry = req[q].entry
           \/ stale[req[q].entry] \/ entry[req[q].entry].pay # "Verified" \/ Resolved(req[q].entry)
  PROVE  PaidInv'
<1>1. Others(q) /\ req'[q] = s
  BY ReqUpdate DEF PInv
<1>2. \A e \in Entries : RowInv(e)'
  BY DEF PaidInv, RowInv
<1>3. ASSUME NEW p \in Requests PROVE SlotInv(p)'
  <2>1. CASE p = q
    BY <1>1, <2>1 DEF SlotInv
  <2>2. CASE p # q
    BY <1>1, <2>2 DEF SlotInv, PaidInv, Others
  <2> QED BY <2>1, <2>2
<1>4. ASSUME NEW e \in Entries, NobodyDied', ~stale[e], entry[e].pay = "Verified"
      PROVE  Resolved(e)' \/ \E p \in Requests : req'[p].pc \in Working /\ req'[p].entry = e
  <2>0. \A p \in Requests : req'[p].pc # "crashed"
    BY <1>4 DEF NobodyDied
  <2>1. NobodyDied /\ s.pc # "crashed"
    <3>1. s.pc # "crashed"
      BY <1>1, <2>0
    <3>2. ASSUME NEW p \in Requests PROVE req[p].pc # "crashed"
      <4>1. CASE p = q
        BY <4>1
      <4>2. CASE p # q
        BY <1>1, <2>0, <4>2 DEF Others
      <4> QED BY <4>1, <4>2
    <3> QED BY <3>1, <3>2 DEF NobodyDied
  <2>2. Resolved(e) => Resolved(e)'
    BY DEF Resolved
  <2>3. ASSUME NEW p \in Requests, req[p].pc \in Working, req[p].entry = e
        PROVE  Resolved(e)' \/ \E o \in Requests : req'[o].pc \in Working /\ req'[o].entry = e
    <3>1. CASE p = q
      BY <1>1, <1>4, <2>1, <2>2, <2>3, <3>1
    <3>2. CASE p # q
      BY <1>1, <2>3, <3>2 DEF Others
    <3> QED BY <3>1, <3>2
  <2> QED BY <1>4, <2>1, <2>2, <2>3 DEF PaidInv, Carried
<1>5. \A e \in Entries : Carried(e)'
  BY <1>4 DEF Carried
<1> QED BY <1>2, <1>3, <1>5 DEF PaidInv

\* A step of q that writes the row it works on.
LEMMA WritePaid ==
  ASSUME PInv, PaidInv, NEW q \in Requests, Others(q), req[q].pc \notin {"idle", "crashed"},
         NEW e \in Entries, req[q].entry = e, SlotInv(q)', RowInv(e)', Carried(e)',
         \A f \in Entries : f # e => entry'[f] = entry[f] /\ stale'[f] = stale[f],
         \A p \in Requests : p # q /\ req[p].entry = e => req[p].pc # "verifying",
         (stale[e] \/ entry[e].pay = "Verified") => (stale'[e] \/ entry'[e].pay = "Verified")
  PROVE  PaidInv'
<1>1. ASSUME NEW p \in Requests PROVE SlotInv(p)'
  <2>1. CASE p # q /\ req[p].pc \notin {"idle", "crashed"}
    <3>1. req'[p] = req[p] /\ req[p].entry \in Entries /\ SlotInv(p)
      BY <2>1 DEF Others, PInv, TypeOK, PaidInv
    <3>2. CASE req[p].entry = e
      BY <2>1, <3>1, <3>2 DEF SlotInv
    <3>3. CASE req[p].entry # e
      BY <3>1, <3>3 DEF SlotInv
    <3> QED BY <3>2, <3>3
  <2>2. CASE p # q /\ req[p].pc \in {"idle", "crashed"}
    <3>1. req'[p].pc \in {"idle", "crashed"}
      BY <2>2 DEF Others
    <3> QED BY <3>1 DEF SlotInv
  <2> QED BY <2>1, <2>2
<1>2. ASSUME NEW f \in Entries, f # e PROVE RowInv(f)' /\ Carried(f)'
  <2>1. RowInv(f)' /\ (Resolved(f) => Resolved(f)')
    BY <1>2 DEF PaidInv, RowInv, Resolved
  <2>2. NobodyDied' => NobodyDied
    BY DEF NobodyDied, Others
  <2>3. ASSUME NEW p \in Requests, req[p].pc \in Working, req[p].entry = f
        PROVE  req'[p].pc \in Working /\ req'[p].entry = f
    BY <1>2, <2>3 DEF Others
  <2>4. Carried(f)
    BY DEF PaidInv
  <2> QED BY <1>2, <2>1, <2>2, <2>3, <2>4 DEF Carried
<1> QED BY <1>1, <1>2 DEF PaidInv

\* A plain edit over a paid row is late: it read another stage.
LEMMA SaveEditPaid ==
  ASSUME PInv, PaidInv, NEW q \in Requests, SaveEdit(q), NEW e \in Entries, req[q].entry = e
  PROVE  PaidInv'
<1> DEFINE op == req[q].op
           r == [stage |-> StageAfter(op), pay |-> PaymentAfter(op, entry[e].pay), linked |-> entry[e].linked]
<1>1. /\ req[q].pc = "loaded" /\ e \in Entries /\ op \in Allowed(req[q].stage) /\ op \in PlainEdits
      /\ RowInv(e) /\ entry \in [Entries -> Rows] /\ stale \in [Entries -> BOOLEAN]
  BY DEF SaveEdit, PInv, TypeOK, PaidInv, SlotInv, Rows, Pays
<1>2. /\ entry' = [entry EXCEPT ![e] = r] /\ Move(q, Idle) /\ ~RowLocked(e)
      /\ stale' = [stale EXCEPT ![e] = stale[e] \/ entry[e].stage # req[q].stage]
  BY DEF SaveEdit
<1>3. r.stage \in {"Registration", "Declined", "Awaiting Transfer", "Under Verification"}
  <2>1. StageAfter(op) \in {"Registration", "Declined", "Awaiting Transfer", "Under Verification"}
    BY <1>1 DEF StageAfter, PlainEdits
  <2> QED BY <2>1
<1>4. req[q].stage \in {"Quote Sent", "Registration", "Awaiting Transfer"}
  <2>1. req[q].stage = "Under Verification" => op = "verifyPayment"
    BY <1>1 DEF Allowed
  <2>2. req[q].stage = "Provisioning Failed" => op = "provision"
    BY <1>1 DEF Allowed
  <2>3. req[q].stage \notin {"Quote Sent", "Registration", "Awaiting Transfer", "Under Verification",
                             "Provisioning Failed"} => op \in {}
    BY <1>1 DEF Allowed
  <2> QED BY <1>1, <2>1, <2>2, <2>3 DEF PlainEdits
<1>5. r.pay # "Verified" \/ r.pay = entry[e].pay
  <2>1. PaymentAfter(op, entry[e].pay) # "Verified" \/ PaymentAfter(op, entry[e].pay) = entry[e].pay
    BY <1>1 DEF PaymentAfter, PlainEdits
  <2> QED BY <2>1
<1>6. r.linked = entry[e].linked
  OBVIOUS
<1> HIDE DEF r
<1>7. entry'[e] = r /\ (stale[e] => stale'[e]) /\ (entry[e].stage # req[q].stage => stale'[e])
  BY <1>1, <1>2
<1>8. entry[e].pay = "Verified" \/ entry[e].linked => stale'[e]
  BY <1>1, <1>4, <1>7 DEF RowInv
<1>9. RowInv(e)' /\ Carried(e)'
  BY <1>3, <1>5, <1>6, <1>7, <1>8 DEF RowInv, Carried
<1>10. Others(q) /\ req'[q] = Idle
  BY <1>2, ReqUpdate, IdleSlot DEF PInv
<1>11. SlotInv(q)'
  BY <1>10, IdleSlot DEF SlotInv
<1>12. /\ \A f \in Entries : f # e => entry'[f] = entry[f] /\ stale'[f] = stale[f]
       /\ \A p \in Requests : p # q /\ req[p].entry = e => req[p].pc # "verifying"
  BY <1>1, <1>2 DEF RowLocked
<1> QED BY <1>1, <1>7, <1>8, <1>9, <1>10, <1>11, <1>12, WritePaid

\* The reviewer's decision, under the row lock.
LEMMA VerifyPaid ==
  ASSUME PInv, PaidInv, NEW q \in Requests, CommitVerified(q) \/ CommitRejected(q),
         NEW e \in Entries, req[q].entry = e
  PROVE  PaidInv'
<1>1. /\ req[q].pc = "verifying" /\ e \in Entries /\ RowInv(e) /\ SlotInv(q)
      /\ entry \in [Entries -> Rows] /\ stale' = stale
  BY DEF CommitVerified, CommitRejected, PInv, TypeOK, PaidInv, Rows, Pays
<1>2. entry[e].stage = "Under Verification" /\ entry[e].pay # "Verified"
  BY <1>1 DEF SlotInv
<1>3. /\ \A f \in Entries : f # e => entry'[f] = entry[f] /\ stale'[f] = stale[f]
      /\ \A p \in Requests : p # q /\ req[p].entry = e => req[p].pc # "verifying"
  <2>1. \A p \in Requests : p # q /\ req[p].entry = e => req[p].pc # "verifying"
    BY <1>1 DEF PInv, LockHeld, Holds
  <2> QED BY <1>1, <2>1 DEF CommitVerified, CommitRejected
<1>4. CASE CommitVerified(q)
  <2>1. Others(q) /\ req'[q] = At(q, "provision") /\ At(q, "provision").pc = "provision"
        /\ At(q, "provision").entry = e
    BY <1>4, ReqUpdate, AtSlot DEF CommitVerified, PInv
  <2>2. entry'[e].stage = "Under Verification" /\ entry'[e].pay = "Verified" /\ entry'[e].linked = entry[e].linked
    BY <1>1, <1>2, <1>4 DEF CommitVerified
  <2>3. RowInv(e)' /\ SlotInv(q)'
    BY <1>1, <1>2, <2>1, <2>2 DEF RowInv, SlotInv
  <2>4. Carried(e)'
    BY <2>1 DEF Carried, Working
  <2> QED BY <1>1, <1>3, <2>1, <2>2, <2>3, <2>4, WritePaid
<1>5. CASE CommitRejected(q)
  <2>1. Others(q) /\ req'[q] = Idle
    BY <1>5, ReqUpdate, IdleSlot DEF CommitRejected, PInv
  <2>2. entry'[e].stage = "Awaiting Transfer" /\ entry'[e].pay = "Rejected" /\ entry'[e].linked = entry[e].linked
    BY <1>1, <1>5 DEF CommitRejected
  <2>3. RowInv(e)' /\ SlotInv(q)' /\ Carried(e)'
    BY <1>1, <1>2, <2>1, <2>2, IdleSlot DEF RowInv, SlotInv, Carried
  <2> QED BY <1>1, <1>2, <1>3, <2>1, <2>2, <2>3, WritePaid
<1> QED BY <1>4, <1>5

LEMMA ProvisionPaid ==
  ASSUME PInv, PaidInv, NEW q \in Requests, CommitProvision(q), NEW e \in Entries, req[q].entry = e
  PROVE  PaidInv'
<1>1. /\ req[q].pc = "provisioning" /\ e \in Entries /\ SlotInv(q)
      /\ entry \in [Entries -> Rows] /\ stale' = stale
  BY DEF CommitProvision, PInv, TypeOK, PaidInv, Rows, Pays
<1>2. Others(q) /\ req'[q] = Idle
  BY ReqUpdate, IdleSlot DEF CommitProvision, PInv
<1>3. entry'[e].stage = "Completed" /\ entry'[e].pay = entry[e].pay /\ entry'[e].linked
  BY <1>1 DEF CommitProvision
<1>4. stale[e] \/ entry[e].pay = "Verified"
  BY <1>1 DEF SlotInv
<1>5. /\ \A f \in Entries : f # e => entry'[f] = entry[f] /\ stale'[f] = stale[f]
      /\ \A p \in Requests : p # q /\ req[p].entry = e => req[p].pc # "verifying"
  <2>1. \A p \in Requests : p # q /\ req[p].entry = e => req[p].pc # "verifying"
    BY <1>1 DEF PInv, LockHeld, Holds
  <2> QED BY <1>1, <2>1 DEF CommitProvision
<1>6. RowInv(e)' /\ Carried(e)' /\ SlotInv(q)'
  BY <1>1, <1>2, <1>3, <1>4, IdleSlot DEF RowInv, Carried, Resolved, SlotInv
<1> QED BY <1>1, <1>2, <1>3, <1>5, <1>6, WritePaid

\* Recording a failure resolves the row, or counts as late.
LEMMA FailurePaid ==
  ASSUME PInv, PaidInv, NEW q \in Requests, SaveFailure(q), NEW e \in Entries, req[q].entry = e
  PROVE  PaidInv'
<1> DEFINE s == Changed(entry[e].stage, req[q].stage, "Provisioning Failed")
<1>1. /\ req[q].pc = "recording" /\ e \in Entries /\ RowInv(e) /\ ~RowLocked(e)
      /\ entry \in [Entries -> Rows] /\ stale \in [Entries -> BOOLEAN]
  BY DEF SaveFailure, PInv, TypeOK, PaidInv, Rows, Pays
<1>2. Others(q) /\ req'[q] = Idle
  BY ReqUpdate, IdleSlot DEF SaveFailure, PInv
<1>3. /\ s \in {"Provisioning Failed", entry[e].stage}
      /\ entry[e].stage = req[q].stage => s = "Provisioning Failed"
  BY DEF Changed
<1>4. /\ entry' = [entry EXCEPT ![e] = [stage |-> s, pay |-> entry[e].pay, linked |-> entry[e].linked]]
      /\ stale' = [stale EXCEPT ![e] = stale[e] \/ entry[e].linked \/ entry[e].stage # req[q].stage]
  BY DEF SaveFailure
<1> HIDE DEF s
<1>5. /\ entry'[e].stage = s /\ entry'[e].pay = entry[e].pay /\ entry'[e].linked = entry[e].linked
      /\ stale[e] \/ entry[e].linked \/ entry[e].stage # req[q].stage => stale'[e]
  BY <1>1, <1>4
<1>6. RowInv(e)'
  BY <1>1, <1>3, <1>5 DEF RowInv
<1>7. Carried(e)' /\ SlotInv(q)'
  BY <1>2, <1>3, <1>5, IdleSlot DEF Carried, Resolved, SlotInv
<1>8. /\ \A f \in Entries : f # e => entry'[f] = entry[f] /\ stale'[f] = stale[f]
      /\ \A p \in Requests : p # q /\ req[p].entry = e => req[p].pc # "verifying"
  BY <1>1, <1>4 DEF RowLocked
<1> QED BY <1>1, <1>2, <1>5, <1>6, <1>7, <1>8, WritePaid

LEMMA StepPaidInv == ASSUME PInv, PaidInv, [Next]_vars PROVE PaidInv'
<1>t. TypeOK
  BY DEF PInv
<1>1. ASSUME NEW e \in Entries, CreateQuote(e) PROVE PaidInv'
  <2>1. /\ entry'[e].stage = "Quote Sent" /\ entry'[e].pay = "none" /\ ~entry'[e].linked
        /\ entry[e].stage = "absent" /\ entry[e].pay = "none" /\ ~entry[e].linked
        /\ \A f \in Entries : f # e => entry'[f] = entry[f]
        /\ stale' = stale /\ req' = req
    <3> DEFINE r == [stage |-> "Quote Sent", pay |-> "none", linked |-> FALSE]
    <3>1. r.stage = "Quote Sent" /\ r.pay = "none" /\ ~r.linked
      OBVIOUS
    <3>2. Absent.stage = "absent" /\ Absent.pay = "none" /\ ~Absent.linked
      BY DEF Absent
    <3>3. entry' = [entry EXCEPT ![e] = r] /\ entry[e] = Absent /\ stale' = stale /\ req' = req
      BY <1>1 DEF CreateQuote
    <3>4. DOMAIN entry = Entries
      BY <1>t DEF TypeOK
    <3> HIDE DEF r
    <3> QED BY <3>1, <3>2, <3>3, <3>4
  <2>2. \A f \in Entries : RowInv(f)' /\ Carried(f)'
    BY <2>1 DEF PaidInv, RowInv, Carried, Resolved, NobodyDied
  <2>3. ASSUME NEW q \in Requests PROVE SlotInv(q)'
    <3>1. SlotInv(q) /\ (req[q].pc \in {"paid", "provisioning", "verifying"} => req[q].entry \in Entries)
      BY <1>t DEF PaidInv, TypeOK
    <3>2. CASE req[q].entry = e
      BY <2>1, <3>1, <3>2 DEF SlotInv
    <3>3. CASE req[q].entry # e
      BY <2>1, <3>1, <3>3 DEF SlotInv
    <3> QED BY <3>2, <3>3
  <2> QED BY <2>2, <2>3 DEF PaidInv
<1>2. ASSUME NEW q \in Requests, NEW e \in Entries, NEW op \in PlainEdits, LoadEdit(q, e, op) PROVE PaidInv'
  <2> DEFINE s == [pc |-> "loaded", entry |-> e, op |-> op, stage |-> entry[e].stage]
  <2>1. s \in Slots /\ Move(q, s) /\ req[q].pc = "idle" /\ UNCHANGED <<entry, stale>>
        /\ s.op \in Allowed(s.stage) /\ s.pc = "loaded"
    BY <1>2, <1>t DEF LoadEdit, Slots, TypeOK
  <2> HIDE DEF s
  <2> QED BY <2>1, QuietPaid DEF Working
<1>3. ASSUME NEW q \in Requests, NEW e \in Entries, LockVerify(q, e) PROVE PaidInv'
  <2> DEFINE s == [pc |-> "verifying", entry |-> e, op |-> "none", stage |-> entry[e].stage]
  <2>1. s \in Slots /\ Move(q, s) /\ req[q].pc = "idle" /\ UNCHANGED <<entry, stale>>
        /\ s.pc = "verifying" /\ s.entry = e /\ entry[e].pay # "Verified"
    BY <1>3, <1>t DEF LockVerify, Slots, TypeOK
  <2>2. entry[e].stage = "Under Verification"
    BY <1>3 DEF LockVerify, Allowed
  <2> HIDE DEF s
  <2> QED BY <2>1, <2>2, QuietPaid DEF Working
<1>4. ASSUME NEW q \in Requests, NEW e \in Entries, Retry(q, e) PROVE PaidInv'
  <2> DEFINE s == [pc |-> "provision", entry |-> e, op |-> "none", stage |-> entry[e].stage]
  <2>1. s \in Slots /\ Move(q, s) /\ req[q].pc = "idle" /\ UNCHANGED <<entry, stale>> /\ s.pc = "provision"
    BY <1>4, <1>t DEF Retry, Slots, TypeOK
  <2> HIDE DEF s
  <2> QED BY <2>1, QuietPaid DEF Working
<1>5. ASSUME NEW q \in Requests, CheckPayment(q) PROVE PaidInv'
  <2>1. req[q].pc = "provision" /\ UNCHANGED <<entry, stale>>
    BY <1>5 DEF CheckPayment
  <2>2. CASE entry[req[q].entry].pay = "Verified"
    <3>1. /\ At(q, "paid") \in Slots /\ At(q, "paid").pc = "paid" /\ At(q, "paid").entry = req[q].entry
          /\ Move(q, At(q, "paid"))
      BY <1>5, <1>t, <2>2, AtSlot DEF CheckPayment
    <3> QED BY <2>1, <2>2, <3>1, QuietPaid DEF Working
  <2>3. CASE entry[req[q].entry].pay # "Verified"
    <3>1. Move(q, Idle)
      BY <1>5, <2>3 DEF CheckPayment
    <3> QED BY <2>1, <2>3, <3>1, IdleSlot, QuietPaid
  <2> QED BY <2>2, <2>3
<1>6. ASSUME NEW q \in Requests, LockProvision(q) PROVE PaidInv'
  <2> DEFINE e == req[q].entry
  <2>1. /\ req[q].pc = "paid" /\ UNCHANGED <<entry, stale>> /\ e \in Entries
        /\ stale[e] \/ entry[e].pay = "Verified"
    BY <1>6, <1>t DEF LockProvision, TypeOK, PaidInv, SlotInv
  <2>2. CASE entry[e].linked \/ entry[e].stage = "Completed"
    <3>1. Move(q, Idle)
      BY <1>6, <2>2 DEF LockProvision
    <3>2. stale[e] \/ Resolved(e)
      BY <2>1, <2>2 DEF PaidInv, RowInv, Resolved
    <3> QED BY <2>1, <3>1, <3>2, IdleSlot, QuietPaid
  <2>3. CASE ~(entry[e].linked \/ entry[e].stage = "Completed")
    <3>1. /\ At(q, "provisioning") \in Slots /\ At(q, "provisioning").pc = "provisioning"
          /\ At(q, "provisioning").entry = e /\ Move(q, At(q, "provisioning"))
      BY <1>6, <1>t, <2>3, AtSlot DEF LockProvision
    <3> QED BY <2>1, <3>1, QuietPaid DEF Working
  <2> QED BY <2>2, <2>3
<1>7. ASSUME NEW q \in Requests, FailProvision(q) PROVE PaidInv'
  <2>1. /\ At(q, "failed") \in Slots /\ At(q, "failed").pc = "failed" /\ At(q, "failed").entry = req[q].entry
        /\ Move(q, At(q, "failed")) /\ UNCHANGED <<entry, stale>> /\ req[q].pc # "crashed"
    BY <1>7, <1>t, AtSlot DEF FailProvision
  <2> QED BY <2>1, QuietPaid DEF Working
<1>8. ASSUME NEW q \in Requests, LoadFailure(q) PROVE PaidInv'
  <2> DEFINE s == [pc |-> "recording", entry |-> req[q].entry, op |-> "none", stage |-> entry[req[q].entry].stage]
  <2>1. /\ s \in Slots /\ Move(q, s) /\ req[q].pc = "failed" /\ UNCHANGED <<entry, stale>>
        /\ s.pc = "recording" /\ s.entry = req[q].entry
    BY <1>8, <1>t DEF LoadFailure, Slots, TypeOK
  <2> HIDE DEF s
  <2> QED BY <2>1, QuietPaid DEF Working
<1>9. ASSUME NEW q \in Requests, Crash(q) PROVE PaidInv'
  <2>1. Move(q, Dead) /\ UNCHANGED <<entry, stale>> /\ req[q].pc # "crashed"
    BY <1>9 DEF Crash
  <2> QED BY <2>1, IdleSlot, QuietPaid
<1>10. CASE UNCHANGED vars
  BY <1>10 DEF vars, PaidInv, RowInv, SlotInv, Carried, Resolved, NobodyDied
<1>11. ASSUME NEW q \in Requests,
              SaveEdit(q) \/ CommitVerified(q) \/ CommitRejected(q) \/ CommitProvision(q) \/ SaveFailure(q)
       PROVE  PaidInv'
  <2>1. req[q].entry \in Entries
    <3>1. req[q].pc \notin {"idle", "crashed"}
      BY <1>11 DEF SaveEdit, CommitVerified, CommitRejected, CommitProvision, SaveFailure
    <3> QED BY <1>t, <3>1 DEF TypeOK
  <2> QED BY <1>11, <2>1, SaveEditPaid, VerifyPaid, ProvisionPaid, FailurePaid
<1> QED
  BY <1>1, <1>2, <1>3, <1>4, <1>5, <1>6, <1>7, <1>8, <1>9, <1>10, <1>11 DEF Next, Proceed

\* What is completed was paid for, unless an edit was saved late; and what is paid for is
\* provisioned or can be retried, as long as no request died and no save was late.
THEOREM PipelinePaid == Spec => []PaidIsProvisioned
<1>1. Init => PInv /\ PaidInv
  BY InitPInv, InitPaidInv
<1>2. PInv /\ PaidInv /\ [Next]_vars => PInv' /\ PaidInv'
  BY StepPInv, StepPaidInv
<1>3. PInv /\ PaidInv => PaidIsProvisioned
  <2>1. PaidInv => CompletedPaid
    BY DEF PaidInv, RowInv, CompletedPaid
  <2>2. PaidInv => RetryableUndisturbed
    BY DEF PaidInv, Carried, RetryableUndisturbed, Quiet
  <2> QED BY <2>1, <2>2 DEF PaidIsProvisioned
<1> QED BY <1>1, <1>2, <1>3, PTL DEF Spec

-----------------------------------------------------------------------------
(* A behaviour of the customer is one of the pipeline and one of the subscription. *)

LEMMA PipelineWithin == CustomerSpec => Spec
<1>1. CustomerInit => Init
  BY DEF CustomerInit
<1>2. [CustomerNext]_customer => [Next]_vars
  BY DEF CustomerNext, customer, vars
<1> QED BY <1>1, <1>2, PTL DEF CustomerSpec, Spec

LEMMA SubscriptionWithin == CustomerSpec => Sub!Spec
<1>1. CustomerInit => Sub!Init
  BY DEF CustomerInit
<1>2. [CustomerNext]_customer => [Sub!Next]_(Sub!vars)
  BY DEF CustomerNext, customer, subscription, Sub!vars
<1> QED BY <1>1, <1>2, PTL DEF CustomerSpec, Sub!Spec

-----------------------------------------------------------------------------
(* The subscription. *)

Durations == Term \in Nat /\ Grace1 \in Nat /\ Grace2 \in Nat /\ Retention \in Nat /\ Horizon \in Nat

\* What a renewal read of the row covers what was owed then, and its clock is not ahead.
ReadInv ==
  \A q \in Renewals : renewal[q].pc = "renew" => renewal[q].seen >= renewal[q].owed /\ renewal[q].at <= now

TermInv == Sub!TypeOK /\ ReadInv /\ renewalDate >= owed /\ renewalDate >= lastPayment + Term

RenewalSlots == [pc : {"idle", "renew"}, seen : Nat, at : Nat, owed : Nat]

LEMMA RenewalUpdate ==
  ASSUME Sub!TypeOK, NEW q \in Renewals, NEW s \in RenewalSlots, renewal' = [renewal EXCEPT ![q] = s]
  PROVE  /\ renewal' \in [Renewals -> RenewalSlots] /\ renewal'[q] = s
         /\ \A p \in Renewals : p # q => renewal'[p] = renewal[p]
BY DEF Sub!TypeOK, RenewalSlots

LEMMA InitTermInv == ASSUME Durations, Sub!Init PROVE TermInv
<1>1. Sub!Idle \in RenewalSlots /\ Sub!Idle.pc = "idle"
  BY DEF Sub!Idle, Sub!Slot, RenewalSlots
<1> QED BY <1>1 DEF Durations, Sub!Init, TermInv, Sub!TypeOK, ReadInv, RenewalSlots

LEMMA StepTermInv == ASSUME Durations, TermInv, [Sub!Next]_(Sub!vars) PROVE TermInv'
<1>1. CASE Sub!Tick
  BY <1>1 DEF Sub!Tick, TermInv, Sub!TypeOK, ReadInv
<1>2. ASSUME NEW q \in Renewals, Sub!LoadRenewal(q) PROVE TermInv'
  <2>1. Sub!Slot("renew", renewalDate, now, owed) \in RenewalSlots
    BY DEF Sub!Slot, RenewalSlots, TermInv, Sub!TypeOK
  <2>2. /\ renewal' \in [Renewals -> RenewalSlots] /\ renewal'[q] = Sub!Slot("renew", renewalDate, now, owed)
        /\ \A p \in Renewals : p # q => renewal'[p] = renewal[p]
    BY <1>2, <2>1, RenewalUpdate DEF Sub!LoadRenewal, TermInv
  <2>3. UNCHANGED <<now, renewalDate, lastPayment, paid, owed>>
    BY <1>2 DEF Sub!LoadRenewal
  <2>4. ReadInv'
    <3>1. ASSUME NEW p \in Renewals, renewal'[p].pc = "renew"
          PROVE  renewal'[p].seen >= renewal'[p].owed /\ renewal'[p].at <= now
      <4>1. CASE p = q
        BY <2>2, <4>1 DEF Sub!Slot, TermInv, Sub!TypeOK
      <4>2. CASE p # q
        BY <2>2, <3>1, <4>2 DEF TermInv, ReadInv
      <4> QED BY <4>1, <4>2
    <3> QED BY <2>3, <3>1 DEF ReadInv
  <2> QED BY <2>2, <2>3, <2>4 DEF TermInv, Sub!TypeOK, RenewalSlots
<1>3. ASSUME NEW q \in Renewals, Sub!SaveRenewal(q) PROVE TermInv'
  <2>1. Sub!Idle \in RenewalSlots /\ Sub!Idle.pc = "idle"
    BY DEF Sub!Idle, Sub!Slot, RenewalSlots
  <2>2. /\ renewal' \in [Renewals -> RenewalSlots] /\ renewal'[q] = Sub!Idle
        /\ \A p \in Renewals : p # q => renewal'[p] = renewal[p]
    BY <1>3, <2>1, RenewalUpdate DEF Sub!SaveRenewal, TermInv
  <2>3. /\ renewal[q].seen \in Nat /\ renewal[q].at \in Nat /\ renewal[q].owed \in Nat /\ now \in Nat
        /\ renewal[q].seen >= renewal[q].owed /\ renewal[q].at <= now
    BY <1>3 DEF Sub!SaveRenewal, TermInv, Sub!TypeOK, ReadInv
  <2>4. /\ renewalDate' = Sub!Base(renewal[q]) + Term /\ lastPayment' = renewal[q].at
        /\ paid' = paid + 1 /\ owed' = renewal[q].owed + Term /\ now' = now
    BY <1>3 DEF Sub!SaveRenewal
  <2>5. /\ Sub!Base(renewal[q]) \in Nat
        /\ Sub!Base(renewal[q]) >= renewal[q].seen /\ Sub!Base(renewal[q]) >= renewal[q].at
    BY <2>3 DEF Sub!Base
  <2>6. /\ renewalDate' \in Nat /\ lastPayment' \in 0..now' /\ paid' \in Nat /\ owed' \in Nat
        /\ renewalDate' >= owed' /\ renewalDate' >= lastPayment' + Term
    BY <2>3, <2>4, <2>5 DEF Durations, TermInv, Sub!TypeOK
  <2>7. ReadInv'
    BY <2>1, <2>2, <2>4 DEF TermInv, ReadInv
  <2> QED BY <2>2, <2>3, <2>4, <2>6, <2>7 DEF TermInv, Sub!TypeOK, RenewalSlots
<1>4. ASSUME NEW q \in Renewals, Sub!Crash(q) PROVE TermInv'
  <2>1. Sub!Idle \in RenewalSlots /\ Sub!Idle.pc = "idle"
    BY DEF Sub!Idle, Sub!Slot, RenewalSlots
  <2>2. /\ renewal' \in [Renewals -> RenewalSlots] /\ renewal'[q] = Sub!Idle
        /\ \A p \in Renewals : p # q => renewal'[p] = renewal[p]
    BY <1>4, <2>1, RenewalUpdate DEF Sub!Crash, TermInv
  <2>3. UNCHANGED <<now, renewalDate, lastPayment, paid, owed>>
    BY <1>4 DEF Sub!Crash
  <2>4. ReadInv'
    BY <2>1, <2>2, <2>3 DEF TermInv, ReadInv
  <2> QED BY <2>2, <2>3, <2>4 DEF TermInv, Sub!TypeOK, RenewalSlots
<1>5. CASE UNCHANGED Sub!vars
  BY <1>5 DEF Sub!vars, TermInv, Sub!TypeOK, ReadInv
<1> QED BY <1>1, <1>2, <1>3, <1>4, <1>5 DEF Sub!Next

\* What the dates alone decide.
LEMMA AccessOfDay ==
  ASSUME Durations, TermInv, NEW day \in Nat
  PROVE  /\ day <= renewalDate => Sub!Access(day) = "full"
         /\ renewalDate < day /\ day <= renewalDate + Grace1 => Sub!Access(day) = "read"
         /\ renewalDate + Grace1 < day => Sub!Access(day) = "none"
<1>1. renewalDate \in Nat
  BY DEF TermInv, Sub!TypeOK
<1>2. CASE day <= renewalDate
  <2>1. Sub!SubState(day) = "Active"
    BY <1>1, <1>2 DEF Sub!SubState, Durations
  <2> QED BY <1>1, <1>2, <2>1 DEF Sub!Access, Durations
<1>3. CASE renewalDate < day /\ day <= renewalDate + Grace1
  <2>1. Sub!SubState(day) = "Grace 1"
    BY <1>1, <1>3 DEF Sub!SubState, Durations
  <2>2. Sub!Access(day) = "read"
    BY <2>1 DEF Sub!Access
  <2> QED BY <1>1, <1>3, <2>2 DEF Durations
<1>4. CASE renewalDate + Grace1 < day
  <2>1. Sub!SubState(day) \in {"Grace 2", "Archived", "Purged"}
    BY <1>1, <1>4 DEF Sub!SubState, Durations
  <2>2. Sub!SubState(day) # "Active" /\ Sub!SubState(day) # "Grace 1"
    BY <2>1
  <2>3. Sub!Access(day) = "none"
    BY <2>2 DEF Sub!Access
  <2> QED BY <1>1, <1>4, <2>3 DEF Durations
<1> QED BY <1>1, <1>2, <1>3, <1>4 DEF Durations

\* A step that is not a payment leaves the renewal date alone and time goes on.
LEMMA TimeStep ==
  ASSUME Durations, TermInv, [Sub!Next]_(Sub!vars), paid' = paid
  PROVE  renewalDate' = renewalDate /\ now' \in {now, now + 1}
<1>1. ASSUME NEW q \in Renewals, Sub!SaveRenewal(q) PROVE FALSE
  BY <1>1 DEF Sub!SaveRenewal, TermInv, Sub!TypeOK
<1> QED BY <1>1 DEF Sub!Next, Sub!Tick, Sub!LoadRenewal, Sub!Crash, Sub!vars

LEMMA SubscriptionInvariant == ASSUME Durations PROVE CustomerSpec => []TermInv
BY InitTermInv, StepTermInv, SubscriptionWithin, PTL DEF Sub!Spec

\* The terms paid for are served, a payment gives full access for a term, and no access
\* comes back but by a payment: for any length of the term, of the grace periods and of
\* the retention, and for any number of renewals in flight.
THEOREM SubscriptionTerms == ASSUME Durations PROVE CustomerSpec => PaidTerms
<1>1. TermInv => Sub!TermsServed /\ Sub!PaidIsFull
  <2>1. SUFFICES ASSUME TermInv PROVE Sub!TermsServed /\ Sub!PaidIsFull
    OBVIOUS
  <2>2. now \in Nat /\ renewalDate \in Nat /\ lastPayment \in Nat /\ renewalDate >= lastPayment + Term
    BY <2>1 DEF TermInv, Sub!TypeOK
  <2>3. now <= lastPayment + Term => now <= renewalDate
    BY <2>2 DEF Durations
  <2>4. now <= renewalDate => Sub!Access(now) = "full"
    BY <2>1, <2>2, AccessOfDay
  <2>5. Sub!PaidIsFull
    BY <2>3, <2>4 DEF Sub!PaidIsFull
  <2>6. Sub!TermsServed
    BY <2>1 DEF TermInv, Sub!TermsServed
  <2> QED BY <2>5, <2>6
<1>2. TermInv /\ [Sub!Next]_(Sub!vars) =>
        [paid' = paid => Sub!Level(Sub!Access(now)') <= Sub!Level(Sub!Access(now))]_(Sub!vars)
  <2>1. SUFFICES ASSUME TermInv, [Sub!Next]_(Sub!vars), paid' = paid
                 PROVE  Sub!Level(Sub!Access(now)') <= Sub!Level(Sub!Access(now))
    OBVIOUS
  <2>2. /\ renewalDate' = renewalDate /\ now' \in {now, now + 1}
        /\ now \in Nat /\ renewalDate \in Nat
    BY <2>1, TimeStep DEF TermInv, Sub!TypeOK
  <2>3. Sub!Access(now)' = Sub!Access(now')
    BY <2>2 DEF Sub!Access, Sub!SubState
  <2>4. /\ now <= renewalDate => Sub!Access(now) = "full"
        /\ renewalDate < now /\ now <= renewalDate + Grace1 => Sub!Access(now) = "read"
        /\ renewalDate + Grace1 < now => Sub!Access(now) = "none"
    BY <2>1, <2>2, AccessOfDay
  <2>5. /\ now' <= renewalDate => Sub!Access(now') = "full"
        /\ renewalDate < now' /\ now' <= renewalDate + Grace1 => Sub!Access(now') = "read"
        /\ renewalDate + Grace1 < now' => Sub!Access(now') = "none"
    BY <2>1, <2>2, AccessOfDay
  <2>6. Sub!Level("full") = 2 /\ Sub!Level("read") = 1 /\ Sub!Level("none") = 0
    BY DEF Sub!Level
  <2> HIDE DEF Sub!Level, Sub!Access
  <2>7. CASE now <= renewalDate
    BY <2>2, <2>3, <2>4, <2>5, <2>6, <2>7 DEF Durations
  <2>8. CASE renewalDate < now /\ now <= renewalDate + Grace1
    BY <2>2, <2>3, <2>4, <2>5, <2>6, <2>8 DEF Durations
  <2>9. CASE renewalDate + Grace1 < now
    BY <2>2, <2>3, <2>4, <2>5, <2>6, <2>9 DEF Durations
  <2> QED BY <2>2, <2>7, <2>8, <2>9 DEF Durations
<1> QED BY <1>1, <1>2, SubscriptionInvariant, SubscriptionWithin, PTL
       DEF Sub!Spec, PaidTerms, Sub!PaidTerms, Sub!OnlyPaymentRestores

\* The types of the pipeline and of the subscription.
THEOREM CustomerTypes == ASSUME Durations PROVE CustomerSpec => []TypesOK
<1>1. PInv /\ TermInv => TypesOK
  BY DEF PInv, TermInv, TypesOK
<1>2. Spec => []PInv
  BY InitPInv, StepPInv, PTL DEF Spec
<1> QED BY <1>1, <1>2, PipelineWithin, SubscriptionInvariant, PTL
=============================================================================
