-------------------------- MODULE ApprovalRunProofs --------------------------
(***************************************************************************)
(* What waits for somebody's answer, for any number of users, gates, pools *)
(* and requests in flight, crashes included: the approval run, while       *)
(* nobody submits the record twice at once (OneSubmit); the run whose      *)
(* requests come one after the other (TurnInv); and the link by which a    *)
(* supplier answers an order (OrderInv).                                   *)
(***************************************************************************)
EXTENDS Answering, TLAPS

(***************************************************************************)
(* The inductive invariant.  Two facts about requests in flight carry it:  *)
(* while approve holds the lock, its copy is the run; and between the      *)
(* look-up of submit and its save the run can only be returned or          *)
(* destroyed, so that the columns submit leaves out are the ones it read.  *)
(***************************************************************************)
LockInv ==
  \A q \in Requests : req[q].pc = "approve" =>
    /\ run.state = "active"
    /\ req[q].run = run
    /\ req[q].user \in Users
    /\ MaySign(run, req[q].user)
    /\ \A p \in Requests : req[p].pc = "approve" => p = q

SubmitInv ==
  /\ \A q \in Requests : req[q].pc \in {"submit", "submitRun", "submitRec"} =>
       \A p \in Submitting : p = q
  /\ \A q \in Requests : req[q].pc = "submit" => req[q].scheme # <<>> /\ req[q].user \in Users
  /\ \A q \in Requests : req[q].pc = "submitRun" =>
       /\ run.state # "active" /\ req[q].run.state # "active"
       /\ run.state # "none" => run.gateIdx = req[q].run.gateIdx /\ run.gates = req[q].run.gates
       /\ req[q].run.state = "none" => run.state = "none"
       /\ Len(req[q].gates) > 0
       /\ \A k \in DOMAIN req[q].gates : req[q].gates[k].signed = {}

IInv == TypeOK /\ LockInv /\ SubmitInv /\ SeparationOfDuties /\ GatesInOrder

\* The requests other than q are where they were.
Others(q) == \A p \in Requests : p # q => req'[p] = req[p]

-----------------------------------------------------------------------------
\* The gates of a new run: somebody may be eligible, nobody has signed.
LEMMA BuildType ==
  ASSUME NEW p \in [Users -> Flags], NEW s \in Schemes, NEW u \in Users
  PROVE  /\ BuildApproval(p, s, u) \in Seq(Gates)
         /\ Len(BuildApproval(p, s, u)) = Len(s)
         /\ \A k \in DOMAIN BuildApproval(p, s, u) :
              BuildApproval(p, s, u)[k].signed = {} /\ BuildApproval(p, s, u)[k].author = u
<1>1. s \in Seq({"mst", "top"}) /\ Len(s) \in Nat
  BY ConstantsAssumption
<1>2. \A i \in 1..Len(s) :
        [eligible |-> InPool(p, s[i]), required |-> RequiredIn(p, s[i]),
         signed |-> {}, author |-> u] \in Gates
  BY DEF InPool, RequiredIn, Gates
<1> QED BY <1>1, <1>2 DEF BuildApproval

\* A record that had no pool gets one of the right type.
LEMMA EnsuredType ==
  ASSUME NEW p \in [Users -> Flags], NEW e \in EnsuredPool(p) PROVE e \in [Users -> Flags]
<1> DEFINE SetUp == \E u \in Users : p[u] # [mst |-> "no", tm |-> "no"]
           Pairs == {y \in Users \X Users : y[1] # y[2] \/ Users = {y[1]}}
<1>1. EnsuredPool(p) = {p} \cup IF SetUp THEN {} ELSE {DefaultPool(x[1], x[2]) : x \in Pairs}
  BY DEF EnsuredPool
<1>2. \A x \in Pairs : DefaultPool(x[1], x[2]) \in [Users -> Flags]
  BY DEF DefaultPool, Flags
<1> HIDE DEF SetUp, Pairs
<1> QED BY <1>1, <1>2

\* Nothing is submitted, signed or in flight at first.
LEMMA InitIInv == ASSUME Init PROVE IInv
<1>1. TypeOK
  <2>1. <<>> \in Seq(Gates)
    OBVIOUS
  <2>2. rec \in Records /\ byHand \subseteq {"status", "approvedBy"}
    BY DEF Init, Records, Differing
  <2> QED BY <2>1, <2>2, ConstantsAssumption DEF Init, TypeOK, Runs, NoRun, Idle, NoRec, PCs, Slots
<1>2. LockInv /\ SubmitInv
  BY DEF Init, LockInv, SubmitInv, Submitting, Idle
<1>3. SeparationOfDuties /\ GatesInOrder
  <2>1. run.state = "none" /\ run.gates = <<>>
    BY DEF Init, NoRun
  <2>2. DOMAIN run.gates = {}
    BY <2>1
  <2> QED BY <2>1, <2>2 DEF SeparationOfDuties, GatesInOrder
<1> QED BY <1>1, <1>2, <1>3 DEF IInv

-----------------------------------------------------------------------------
\* Moving a request on, and what it keeps.
LEMMA SlotRec ==
  ASSUME NEW s \in Slots, NEW pc \in PCs, NEW r \in Records \cup {NoRec}
  PROVE  [s EXCEPT !.pc = pc, !.rec = r] \in Slots
BY DEF Slots

LEMMA SlotGates ==
  ASSUME NEW s \in Slots, NEW pc \in PCs, NEW g \in Seq(Gates)
  PROVE  [s EXCEPT !.pc = pc, !.gates = g] \in Slots
BY DEF Slots

LEMMA SlotRun ==
  ASSUME NEW s \in Slots, NEW pc \in PCs, NEW sch \in Schemes \cup {<<>>},
         NEW a \in Runs, NEW g \in Seq(Gates)
  PROVE  /\ [s EXCEPT !.pc = pc, !.run = a, !.gates = g] \in Slots
         /\ [s EXCEPT !.pc = pc, !.scheme = sch, !.run = a, !.gates = g] \in Slots
BY DEF Slots

\* The row, written by the engine.
LEMMA SavedRow ==
  ASSUME TypeOK, NEW s, NEW who \in Users \cup {NoOne, Unset},
         s \in {rec.status, cfg.submit, cfg.mid, cfg.final, cfg.revision, cfg.draft, "Superseded"},
         SaveRow([status |-> s, approvedBy |-> who])
  PROVE  rec' \in Records /\ byHand' \subseteq {"status", "approvedBy"}
<1>1. cfg.draft \in PlainStatuses
  BY DEF cfg, PlainStatuses
<1> QED BY <1>1 DEF TypeOK, Records, SaveRow, Differing

\* Type correctness, statement by statement. (What a request does to the run is
\* typed with the lemmas on the run below.)
LEMMA QuietType ==
  ASSUME TypeOK, NEW q \in Requests,
         \/ SelfServe(q) \/ SubmitSaveRec(q) \/ Visit(q) \/ RevisionSaveRec(q)
         \/ WithdrawReadRec(q) \/ WithdrawSaveRec(q) \/ EditSave(q) \/ SupersedeSave(q) \/ Crash(q)
  PROVE  TypeOK'
<1>0. /\ <<>> \in Seq(Gates) /\ req[q] \in Slots
      /\ req' = [req EXCEPT ![q] = Idle] => req' \in [Requests -> Slots]
  <2>1. <<>> \in Seq(Gates)
    OBVIOUS
  <2>2. Idle \in Slots
    BY <2>1 DEF Idle, Slots, NoRun, Runs, NoRec, PCs
  <2> QED BY <2>1, <2>2 DEF TypeOK
<1>a. /\ rec.approvedBy \in Users \cup {NoOne, Unset} /\ req[q].rec.approvedBy \in Users \cup {NoOne, Unset}
      /\ req[q].user \in Users \cup {NoOne}
      /\ req[q].rec.status \in {"none", cfg.submit, cfg.mid, cfg.final, cfg.revision, "Superseded"} \cup PlainStatuses
  BY <1>0 DEF TypeOK, Slots, Records, NoRec
<1>b. rec = [status |-> rec.status, approvedBy |-> rec.approvedBy]
  BY DEF TypeOK, Records
<1>1. CASE SelfServe(q)
  <2>1. rec' \in Records /\ byHand' \subseteq {"status", "approvedBy"}
    BY <1>1, <1>a, SavedRow DEF SelfServe, Changed
  <2> QED BY <1>0, <1>1, <2>1 DEF SelfServe, End, TypeOK
<1>2. CASE SubmitSaveRec(q)
  <2>1. rec' \in Records /\ byHand' \subseteq {"status", "approvedBy"}
    BY <1>2, <1>a, SavedRow DEF SubmitSaveRec, Changed
  <2> QED BY <1>0, <1>2, <2>1 DEF SubmitSaveRec, End, TypeOK
<1>3. CASE Visit(q)
  <2>1. PICK pc \in {"revision", "edit", "supersede"} :
          Begin(q, pc, NoOne, rec, NoRun) /\ UNCHANGED <<policy, run, pool, scheme>>
    BY <1>3 DEF Visit, RevisionStart, EditStart, SupersedeStart
  <2>2. PICK r : r = [pc |-> pc, user |-> NoOne, scheme |-> <<>>, rec |-> rec, run |-> NoRun, gates |-> <<>>]
    OBVIOUS
  <2>3. r \in Slots
    BY <1>0, <2>2 DEF Slots, NoRun, Runs, PCs, TypeOK
  <2>4. req' = [req EXCEPT ![q] = r]
    BY <2>1, <2>2 DEF Begin
  <2> QED BY <2>1, <2>3, <2>4 DEF TypeOK, policy
<1>4. CASE RevisionSaveRec(q)
  <2>1. rec' \in Records /\ byHand' \subseteq {"status", "approvedBy"}
    BY <1>4, <1>a, SavedRow DEF RevisionSaveRec, Changed
  <2>2. req' = [req EXCEPT ![q] = [req[q] EXCEPT !.pc = "revisionRun", !.rec = NoRec]]
    BY <1>4 DEF RevisionSaveRec, TypeOK
  <2>3. [req[q] EXCEPT !.pc = "revisionRun", !.rec = NoRec] \in Slots
    BY SlotRec DEF TypeOK, PCs
  <2> QED BY <1>4, <2>1, <2>2, <2>3 DEF RevisionSaveRec, TypeOK
<1>5. CASE WithdrawReadRec(q)
  <2>1. req' = [req EXCEPT ![q] = [req[q] EXCEPT !.pc = "withdrawRec", !.rec = rec]]
    BY <1>5 DEF WithdrawReadRec, TypeOK
  <2>2. [req[q] EXCEPT !.pc = "withdrawRec", !.rec = rec] \in Slots
    BY SlotRec DEF TypeOK, PCs
  <2> QED BY <1>5, <2>1, <2>2 DEF WithdrawReadRec, TypeOK, policy
<1>6. CASE WithdrawSaveRec(q)
  <2>1. PICK s : s = Changed(rec.status, req[q].rec.status, cfg.draft)
    OBVIOUS
  <2>2. [rec EXCEPT !.status = Changed(@, req[q].rec.status, cfg.draft)]
          = [status |-> s, approvedBy |-> rec.approvedBy]
    BY <1>b, <2>1
  <2>3. rec' \in Records /\ byHand' \subseteq {"status", "approvedBy"}
    BY <1>6, <1>a, <2>1, <2>2, SavedRow DEF WithdrawSaveRec, Changed
  <2>4. req' = [req EXCEPT ![q] = [req[q] EXCEPT !.pc = "withdrawRun", !.rec = NoRec]]
    BY <1>6 DEF WithdrawSaveRec, TypeOK
  <2>5. [req[q] EXCEPT !.pc = "withdrawRun", !.rec = NoRec] \in Slots
    BY SlotRec DEF TypeOK, PCs
  <2> QED BY <1>6, <2>3, <2>4, <2>5 DEF WithdrawSaveRec, TypeOK
<1>7. CASE EditSave(q)
  <2>1. rec' \in [status : {rec.status} \cup PlainStatuses, approvedBy : Users \cup {NoOne, Unset}]
    BY <1>7, <1>a DEF EditSave, Changed
  <2>2. rec' \in Records /\ byHand' \subseteq {"status", "approvedBy"}
    BY <1>7, <2>1 DEF EditSave, TypeOK, Records, Differing
  <2> QED BY <1>0, <1>7, <2>2 DEF EditSave, End, TypeOK
<1>8. CASE SupersedeSave(q)
  <2>1. rec' \in Records /\ byHand' \subseteq {"status", "approvedBy"}
    BY <1>8, <1>a, SavedRow DEF SupersedeSave
  <2> QED BY <1>0, <1>8, <2>1 DEF SupersedeSave, End, TypeOK
<1>9. CASE Crash(q)
  BY <1>0, <1>9 DEF Crash, End, TypeOK, policy
<1> QED BY <1>1, <1>2, <1>3, <1>4, <1>5, <1>6, <1>7, <1>8, <1>9

LEMMA StartType ==
  ASSUME TypeOK, NEW q \in Requests, NEW u \in Users, Start(q, u) PROVE TypeOK'
<1>0. <<>> \in Seq(Gates)
  OBVIOUS
<1>1. CASE SubmitStart(q, u)
  BY <1>0, <1>1 DEF SubmitStart, policy, Begin, NoRun, TypeOK, Slots, Runs, PCs
<1>2. CASE ApproveLock(q, u)
  BY <1>0, <1>2 DEF ApproveLock, policy, Begin, TypeOK, Slots, PCs
<1>3. CASE WithdrawStart(q, u)
  BY <1>0, <1>3 DEF WithdrawStart, policy, Begin, NoRun, TypeOK, Slots, Runs, PCs
<1> QED BY <1>1, <1>2, <1>3 DEF Start

\* Any step of one request that leaves the run alone, does not take the lock and
\* becomes a submission only when there is none, preserves the rest.
LEMMA RunUnchanged ==
  ASSUME IInv, TypeOK', run' = run, NEW q \in Requests, Others(q),
         req'[q].pc # "approve",
         req'[q].pc \in {"submit", "submitRun", "submitRec"} => q \in Submitting \/ Submitting = {},
         req'[q].pc = "submit" => req'[q].scheme # <<>> /\ req'[q].user \in Users,
         req'[q].pc = "submitRun" =>
           /\ run.state # "active"
           /\ run = req'[q].run
           /\ Len(req'[q].gates) > 0
           /\ \A k \in DOMAIN req'[q].gates : req'[q].gates[k].signed = {}
  PROVE  IInv'
<1>1. LockInv'
  BY DEF IInv, LockInv, Others, MaySign, SignedEarlier
<1>2. SubmitInv'
  <2>1. Submitting' \subseteq Submitting \cup {q}
    BY DEF Submitting, Others
  <2>2. \A p \in Requests : req'[p].pc \in {"submit", "submitRun", "submitRec"} =>
          \A r \in Submitting' : r = p
    BY <2>1 DEF IInv, SubmitInv, Submitting, Others
  <2> QED BY <2>2 DEF IInv, SubmitInv, Others
<1>3. SeparationOfDuties' /\ GatesInOrder'
  BY DEF IInv, SeparationOfDuties, GatesInOrder, SignedEarlier, Complete
<1> QED BY <1>1, <1>2, <1>3 DEF IInv

-----------------------------------------------------------------------------
\* submit looks the run up: what it will write is a fresh snapshot, and the run
\* is not active.
LEMMA CheckIInv == ASSUME IInv, NEW q \in Requests, SubmitCheck(q) PROVE IInv'
<1>0. TypeOK /\ <<>> \in Seq(Gates) /\ req[q].scheme \in Schemes /\ req[q].user \in Users
      /\ req[q].scheme # <<>> /\ req[q] \in Slots
  <2>1. <<>> \in Seq(Gates)
    OBVIOUS
  <2>2. TypeOK /\ req[q] \in Slots
    BY DEF IInv, TypeOK
  <2>3. req[q].scheme # <<>> /\ req[q].user \in Users
    BY DEF IInv, SubmitInv, SubmitCheck
  <2> QED BY <2>1, <2>2, <2>3 DEF Slots
<1>1. PICK p \in EnsuredPool(pool) :
        LET gates == BuildApproval(p, req[q].scheme, req[q].user)
        IN /\ pool' = p
           /\ IF (\E i \in DOMAIN gates : gates[i].eligible = {}) \/ run.state = "active"
                THEN End(q)
                ELSE req' = [req EXCEPT ![q].pc = "submitRun", ![q].scheme = <<>>,
                                        ![q].run = run, ![q].gates = gates]
  BY DEF SubmitCheck
<1>2. pool' \in [Users -> Flags]
  BY <1>0, <1>1, EnsuredType DEF TypeOK
<1>3. PICK gates : gates = BuildApproval(p, req[q].scheme, req[q].user)
  OBVIOUS
<1>4. /\ gates \in Seq(Gates) /\ Len(gates) > 0
      /\ \A k \in DOMAIN gates : gates[k].signed = {}
  <2>1. p \in [Users -> Flags]
    BY <1>1, <1>2
  <2>2. req[q].scheme \in Seq({"mst", "top"}) /\ Len(req[q].scheme) > 0
    BY <1>0, ConstantsAssumption
  <2> QED BY <1>0, <1>3, <2>1, <2>2, BuildType
<1>5. CASE End(q)
  <2>1. TypeOK'
    BY <1>0, <1>2, <1>5 DEF SubmitCheck, policy, End, Idle, NoRun, TypeOK, Slots, Runs, PCs
  <2> QED BY <1>0, <1>5, <2>1, RunUnchanged DEF SubmitCheck, End, Idle, Others, TypeOK
<1>6. CASE ~End(q)
  <2>1. /\ run.state # "active"
        /\ req' = [req EXCEPT ![q] = [req[q] EXCEPT !.pc = "submitRun", !.scheme = <<>>,
                                                    !.run = run, !.gates = gates]]
    BY <1>0, <1>1, <1>3, <1>6 DEF TypeOK
  <2>2. [req[q] EXCEPT !.pc = "submitRun", !.scheme = <<>>, !.run = run, !.gates = gates] \in Slots
    BY <1>0, <1>4, SlotRun DEF TypeOK, PCs
  <2>3. TypeOK'
    BY <1>0, <1>2, <2>1, <2>2 DEF SubmitCheck, policy, TypeOK
  <2>4. /\ req'[q].pc = "submitRun" /\ req'[q].run = run /\ req'[q].gates = gates
        /\ Others(q)
    BY <1>0, <2>1 DEF TypeOK, Slots, Others
  <2>5. q \in Submitting
    BY DEF SubmitCheck, Submitting
  <2> QED BY <1>4, <2>1, <2>3, <2>4, <2>5, RunUnchanged DEF SubmitCheck
<1> QED BY <1>5, <1>6

\* The steps that do not look at the run.
LEMMA QuietIInv ==
  ASSUME IInv, NEW q \in Requests,
         \/ SelfServe(q) \/ SubmitSaveRec(q) \/ Visit(q) \/ RevisionSaveRec(q)
         \/ WithdrawReadRec(q) \/ WithdrawSaveRec(q) \/ EditSave(q) \/ SupersedeSave(q) \/ Crash(q)
  PROVE  IInv'
<1>1. TypeOK /\ TypeOK'
  BY QuietType DEF IInv
<1>2. run' = run
  BY DEF SelfServe, SubmitSaveRec, Visit, RevisionStart, EditStart, SupersedeStart, RevisionSaveRec,
         WithdrawReadRec, WithdrawSaveRec, EditSave, SupersedeSave, Crash
<1>3. /\ Others(q)
      /\ req'[q].pc \in {"idle", "revision", "edit", "supersede", "revisionRun", "withdrawRec", "withdrawRun"}
  BY <1>1 DEF SelfServe, SubmitSaveRec, Visit, RevisionStart, EditStart, SupersedeStart, RevisionSaveRec,
              WithdrawReadRec, WithdrawSaveRec, EditSave, SupersedeSave, Crash, Begin, End, Idle, Others,
              TypeOK, Slots
<1> QED BY <1>1, <1>2, <1>3, RunUnchanged

\* A request starts: submit when nobody else submits, approve with the lock.
LEMMA StartIInv ==
  ASSUME IInv, OneSubmit, NEW q \in Requests, NEW u \in Users, Start(q, u) PROVE IInv'
<1>1. TypeOK /\ TypeOK'
  BY StartType DEF IInv
<1>2. CASE SubmitStart(q, u)
  <2>1. run' = run /\ Others(q) /\ Submitting = {}
    BY <1>1, <1>2 DEF SubmitStart, Begin, Others, TypeOK
  <2>2. /\ req'[q].pc \in {"selfServe", "submit"}
        /\ req'[q].pc = "submit" => req'[q].scheme # <<>> /\ req'[q].user \in Users
    BY <1>1, <1>2 DEF SubmitStart, Begin, TypeOK
  <2> QED BY <1>1, <2>1, <2>2, RunUnchanged
<1>3. CASE WithdrawStart(q, u)
  <2>1. run' = run /\ Others(q) /\ req'[q].pc = "withdraw"
    BY <1>1, <1>3 DEF WithdrawStart, Begin, Others, TypeOK
  <2> QED BY <1>1, <2>1, RunUnchanged
<1>4. CASE ApproveLock(q, u)
  <2>1. /\ run' = run /\ Others(q) /\ run.state = "active" /\ ~Locked /\ MaySign(run, u)
        /\ req'[q].pc = "approve" /\ req'[q].run = run /\ req'[q].user = u
    BY <1>1, <1>4 DEF ApproveLock, Begin, Others, TypeOK
  <2>2. LockInv'
    BY <2>1 DEF LockInv, Locked, Others, MaySign, SignedEarlier
  <2>3. SubmitInv'
    <3>1. Submitting' \subseteq Submitting
      BY <2>1 DEF Submitting, Others
    <3> QED BY <2>1, <3>1 DEF IInv, SubmitInv, Submitting, Others
  <2>4. SeparationOfDuties' /\ GatesInOrder'
    BY <2>1 DEF IInv, SeparationOfDuties, GatesInOrder, SignedEarlier, Complete
  <2> QED BY <1>1, <2>2, <2>3, <2>4 DEF IInv
<1> QED BY <1>2, <1>3, <1>4 DEF Start

-----------------------------------------------------------------------------
\* A run that was just submitted, returned or destroyed has nothing to violate.
LEMMA FreshRun ==
  ASSUME run' \in Runs, run'.gateIdx = 1, run'.state \in {"none", "active", "returned"},
         \A k \in DOMAIN run'.gates : run'.gates[k].signed = {}
  PROVE  SeparationOfDuties' /\ GatesInOrder'
<1>1. SeparationOfDuties'
  BY DEF SeparationOfDuties
<1>2. GatesInOrder'
  <2>1. \A k \in DOMAIN run'.gates : ~(k < 1)
    BY DEF Runs
  <2> QED BY <2>1 DEF GatesInOrder
<1> QED BY <1>1, <1>2

\* While the lock is free and no request is about to take it, the rest of the
\* invariant follows from the requests that remain.
LEMMA Unlocked ==
  ASSUME IInv, ~Locked, NEW q \in Requests, Others(q), req'[q].pc # "approve" PROVE LockInv'
BY DEF Locked, Others, LockInv

\* The insert of submit: the unique index lets one row in.
LEMMA InsertIInv == ASSUME IInv, NEW q \in Requests, SubmitInsert(q) PROVE IInv'
<1>0. /\ TypeOK /\ SubmitInv /\ LockInv /\ req[q] \in Slots /\ req[q].pc = "submitRun"
      /\ <<>> \in Seq(Gates)
  <2>1. <<>> \in Seq(Gates)
    OBVIOUS
  <2> QED BY <2>1 DEF IInv, TypeOK, SubmitInsert
<1>1. CASE run.state = "none"
  <2>1. /\ run' = [state |-> "active", gateIdx |-> 1, gates |-> req[q].gates]
        /\ req' = [req EXCEPT ![q] = [req[q] EXCEPT !.pc = "submitRec", !.gates = <<>>]]
    BY <1>0, <1>1 DEF SubmitInsert, TypeOK
  <2>2. [req[q] EXCEPT !.pc = "submitRec", !.gates = <<>>] \in Slots
    BY <1>0, SlotGates DEF PCs
  <2>3. run' \in Runs /\ run'.gateIdx \in DOMAIN run'.gates
    <3>1. req[q].gates \in Seq(Gates) /\ Len(req[q].gates) > 0
      BY <1>0 DEF SubmitInv, Slots
    <3> QED BY <2>1, <3>1 DEF Runs
  <2>4. TypeOK'
    BY <1>0, <2>1, <2>2, <2>3 DEF SubmitInsert, policy, TypeOK
  <2>5. req'[q].pc = "submitRec" /\ Others(q)
    BY <1>0, <2>1 DEF TypeOK, Slots, Others
  <2>6. LockInv'
    BY <1>0, <1>1, <2>5 DEF LockInv, Others
  <2>7. SubmitInv'
    BY <1>0, <2>5 DEF SubmitInv, Submitting, Others
  <2>8. SeparationOfDuties' /\ GatesInOrder'
    BY <1>0, <2>1, <2>3, FreshRun DEF SubmitInv
  <2> QED BY <2>4, <2>6, <2>7, <2>8 DEF IInv
<1>2. CASE run.state # "none"
  <2>1. run' = run /\ End(q)
    BY <1>2 DEF SubmitInsert
  <2>2. TypeOK'
    BY <1>0, <2>1 DEF SubmitInsert, policy, End, Idle, NoRun, TypeOK, Slots, Runs, PCs
  <2>3. Others(q) /\ req'[q].pc = "idle"
    BY <1>0, <2>1 DEF End, Idle, Others, TypeOK
  <2> QED BY <2>1, <2>2, <2>3, RunUnchanged
<1> QED BY <1>1, <1>2

\* The update of submit writes only columns that differ from its copy; as
\* nobody signs a run that is not active, the others hold what it would write.
LEMMA UpdateIInv == ASSUME IInv, NEW q \in Requests, SubmitUpdate(q) PROVE IInv'
<1>0. /\ TypeOK /\ SubmitInv /\ req[q] \in Slots /\ req[q].pc = "submitRun" /\ ~Locked
      /\ <<>> \in Seq(Gates) /\ NoRun \in Runs
  <2>1. <<>> \in Seq(Gates)
    OBVIOUS
  <2> QED BY <2>1 DEF IInv, TypeOK, SubmitUpdate, NoRun, Runs
<1>1. req' = [req EXCEPT ![q] = [req[q] EXCEPT !.pc = "submitRec", !.run = NoRun, !.gates = <<>>]]
  BY <1>0 DEF SubmitUpdate, TypeOK
<1>2. [req[q] EXCEPT !.pc = "submitRec", !.run = NoRun, !.gates = <<>>] \in Slots
  BY <1>0, SlotRun DEF PCs
<1>3. req'[q].pc = "submitRec" /\ Others(q)
  BY <1>0, <1>1 DEF TypeOK, Slots, Others
<1>4. req' \in [Requests -> Slots] /\ policy' = policy /\ pool' = pool /\ scheme' = scheme
  BY <1>0, <1>1, <1>2 DEF TypeOK, SubmitUpdate, policy
<1>5. CASE run.state = "none"
  <2>1. run' = run
    BY <1>5 DEF SubmitUpdate
  <2>2. q \in Submitting
    BY <1>0 DEF Submitting
  <2>3. TypeOK'
    BY <1>0, <1>4, <2>1 DEF TypeOK, policy
  <2> QED BY <1>3, <2>1, <2>2, <2>3, RunUnchanged
<1>6. CASE run.state # "none"
  <2>1. run' = [state   |-> Changed(run.state, req[q].run.state, "active"),
                gateIdx |-> Changed(run.gateIdx, req[q].run.gateIdx, 1),
                gates   |-> Changed(run.gates, req[q].run.gates, req[q].gates)]
    BY <1>6 DEF SubmitUpdate
  <2>2. /\ req[q].run.state # "active" /\ run.gateIdx = req[q].run.gateIdx
        /\ run.gates = req[q].run.gates /\ Len(req[q].gates) > 0
        /\ \A k \in DOMAIN req[q].gates : req[q].gates[k].signed = {}
    BY <1>0, <1>6 DEF SubmitInv
  <2>3. run' = [state |-> "active", gateIdx |-> 1, gates |-> req[q].gates]
    BY <2>1, <2>2 DEF Changed
  <2>4. run' \in Runs /\ run'.gateIdx \in DOMAIN run'.gates
    BY <1>0, <2>2, <2>3 DEF Runs, Slots
  <2>5. TypeOK'
    BY <1>0, <1>4, <2>4 DEF TypeOK, policy
  <2>6. LockInv'
    BY <1>0, <1>3, Unlocked
  <2>7. SubmitInv'
    BY <1>0, <1>3 DEF SubmitInv, Submitting, Others
  <2>8. SeparationOfDuties' /\ GatesInOrder'
    BY <2>2, <2>3, <2>4, FreshRun
  <2> QED BY <2>5, <2>6, <2>7, <2>8 DEF IInv
<1> QED BY <1>5, <1>6

\* The transaction of approve: it works on the run itself (LockInv), and signs
\* for somebody who may sign.
LEMMA CommitRun ==
  ASSUME IInv, NEW q \in Requests, ApproveCommit(q)
  PROVE  /\ run.state = "active" /\ run.gateIdx \in DOMAIN run.gates
         /\ req[q].user \in Users /\ MaySign(run, req[q].user)
         /\ run'.state \in {"active", "approved"}
         /\ run'.gates = [run.gates EXCEPT ![run.gateIdx] = Sign(@, req[q].user)]
         /\ \/ run'.gateIdx = run.gateIdx /\ run'.state = "active"
            \/ /\ GateDone(run'.gates[run.gateIdx])
               /\ \/ /\ run'.gateIdx = run.gateIdx + 1 /\ run'.state = "active"
                     /\ run.gateIdx < Len(run.gates)
                  \/ /\ run'.gateIdx = run.gateIdx /\ run'.state = "approved"
                     /\ ~(run.gateIdx < Len(run.gates))
<1>1. /\ req[q].run = run /\ run.state = "active" /\ req[q].user \in Users
      /\ MaySign(run, req[q].user) /\ run \in Runs /\ run.gateIdx \in DOMAIN run.gates
  BY DEF IInv, LockInv, ApproveCommit, TypeOK
<1>2. PICK gates : gates = [run.gates EXCEPT ![run.gateIdx] = Sign(@, req[q].user)]
  OBVIOUS
<1>3. run' = [state   |-> IF GateDone(gates[run.gateIdx]) /\ LastGate(run) THEN "approved" ELSE "active",
              gateIdx |-> IF GateDone(gates[run.gateIdx])
                             /\ ~(GateDone(gates[run.gateIdx]) /\ LastGate(run))
                          THEN run.gateIdx + 1 ELSE run.gateIdx,
              gates   |-> gates]
  BY <1>1, <1>2 DEF ApproveCommit
<1>4. LastGate(run) <=> ~(run.gateIdx < Len(run.gates))
  BY <1>1 DEF LastGate, Runs
<1>5. CASE ~GateDone(gates[run.gateIdx])
  BY <1>1, <1>2, <1>3, <1>5
<1>6. CASE GateDone(gates[run.gateIdx]) /\ LastGate(run)
  BY <1>1, <1>2, <1>3, <1>4, <1>6
<1>7. CASE GateDone(gates[run.gateIdx]) /\ ~LastGate(run)
  BY <1>1, <1>2, <1>3, <1>4, <1>7
<1> QED BY <1>5, <1>6, <1>7

\* The gate that was signed, and those that were not.
LEMMA CommitGates ==
  ASSUME IInv, NEW q \in Requests, ApproveCommit(q)
  PROVE  /\ DOMAIN run'.gates = DOMAIN run.gates /\ Len(run'.gates) = Len(run.gates)
         /\ run'.gates \in Seq(Gates)
         /\ \A k \in DOMAIN run.gates : k # run.gateIdx => run'.gates[k] = run.gates[k]
         /\ run'.gates[run.gateIdx].signed = run.gates[run.gateIdx].signed \cup {req[q].user}
         /\ \A k \in DOMAIN run.gates :
              /\ run'.gates[k].eligible = run.gates[k].eligible
              /\ run'.gates[k].required = run.gates[k].required
              /\ run'.gates[k].author = run.gates[k].author
<1>1. /\ run.gates \in Seq(Gates) /\ run.gateIdx \in DOMAIN run.gates /\ req[q].user \in Users
      /\ run'.gates = [run.gates EXCEPT ![run.gateIdx] = Sign(@, req[q].user)]
  BY CommitRun DEF IInv, TypeOK, Runs
<1>2. run.gates[run.gateIdx] \in Gates
  BY <1>1
<1>3. PICK g : g = Sign(run.gates[run.gateIdx], req[q].user)
  OBVIOUS
<1>4. /\ g \in Gates
      /\ g.signed = run.gates[run.gateIdx].signed \cup {req[q].user}
      /\ g.eligible = run.gates[run.gateIdx].eligible
      /\ g.required = run.gates[run.gateIdx].required
      /\ g.author = run.gates[run.gateIdx].author
  BY <1>1, <1>2, <1>3 DEF Sign, Gates
<1>5. run'.gates = [run.gates EXCEPT ![run.gateIdx] = g]
  BY <1>1, <1>3
<1> QED BY <1>1, <1>4, <1>5

\* Nobody signs two gates except as the last, and the run moves on only when
\* the gate is complete.
LEMMA CommitIInv == ASSUME IInv, NEW q \in Requests, ApproveCommit(q) PROVE IInv'
<1> DEFINE i == run.gateIdx
           u == req[q].user
<1>0. TypeOK /\ LockInv /\ SubmitInv /\ SeparationOfDuties /\ GatesInOrder /\ <<>> \in Seq(Gates)
  <2>1. <<>> \in Seq(Gates)
    OBVIOUS
  <2> QED BY <2>1 DEF IInv
<1>1. /\ run.state = "active" /\ i \in DOMAIN run.gates /\ u \in Users /\ MaySign(run, u)
      /\ run.gates \in Seq(Gates) /\ i \in Nat
  BY <1>0, CommitRun DEF TypeOK, Runs
<1>a. DOMAIN run.gates = 1..Len(run.gates) /\ Len(run.gates) \in Nat
  BY <1>1
<1>b. \/ run'.gateIdx = i /\ run'.state = "active"
      \/ GateDone(run'.gates[i]) /\ run'.gateIdx = i + 1 /\ run'.state = "active" /\ i < Len(run.gates)
      \/ GateDone(run'.gates[i]) /\ run'.gateIdx = i /\ run'.state = "approved" /\ ~(i < Len(run.gates))
  BY CommitRun
<1>2. Others(q) /\ req'[q] = Idle /\ req' \in [Requests -> Slots]
  BY <1>0 DEF ApproveCommit, End, Others, TypeOK, Idle, Slots, PCs, NoRun, Runs
<1>3. TypeOK'
  <2>1. rec' \in Records /\ byHand' \subseteq {"status", "approvedBy"}
    <3>1. rec.approvedBy \in Users \cup {NoOne, Unset} /\ rec = [status |-> rec.status, approvedBy |-> rec.approvedBy]
      BY <1>0 DEF TypeOK, Records
    <3>2. \E s \in {rec.status, cfg.mid, cfg.final}, who \in {rec.approvedBy, u} :
             SaveRow([status |-> s, approvedBy |-> who])
      BY <3>1 DEF ApproveCommit, Changed
    <3> QED BY <1>0, <1>1, <3>1, <3>2, SavedRow
  <2>2. run' \in Runs /\ run'.gateIdx \in DOMAIN run'.gates
    <3>1. run'.state \in {"active", "approved"} /\ run'.gates \in Seq(Gates)
          /\ Len(run'.gates) = Len(run.gates)
      BY CommitRun, CommitGates
    <3>2. run'.gateIdx \in 1..Len(run.gates)
      BY <1>1, <1>a, <1>b
    <3>3. run' = [state |-> run'.state, gateIdx |-> run'.gateIdx, gates |-> run'.gates]
      BY DEF ApproveCommit
    <3> QED BY <1>1, <3>1, <3>2, <3>3 DEF Runs
  <2>3. pool' = pool /\ scheme' = scheme
    BY DEF ApproveCommit
  <2> QED BY <1>0, <1>2, <2>1, <2>2, <2>3 DEF TypeOK
<1>4. LockInv'
  <2>1. \A p \in Requests : req[p].pc = "approve" => p = q
    BY <1>0 DEF LockInv, ApproveCommit
  <2> QED BY <1>2, <2>1 DEF LockInv, Others, Idle
<1>5. SubmitInv'
  BY <1>0, <1>1, <1>2 DEF SubmitInv, Submitting, Others, Idle
<1>6. SeparationOfDuties'
  <2>1. ASSUME NEW k \in DOMAIN run.gates, NEW v, k # i
        PROVE  SignedEarlier(run'.gates, k, v) /\ v \in run.gates[k].signed
                 => SignedEarlier(run.gates, k, v)
    <3>1. k \in Nat /\ \A j \in 1..(k - 1) : j \in DOMAIN run.gates
      BY <1>1
    <3>2. CASE k < i
      BY <1>1, <3>1, <3>2, CommitGates DEF SignedEarlier
    <3>3. CASE i < k
      BY <1>0, <3>3 DEF GatesInOrder
    <3> QED BY <1>1, <2>1, <3>1, <3>2, <3>3
  <2>2. \A v : SignedEarlier(run'.gates, i, v) <=> SignedEarlier(run.gates, i, v)
    <3>1. \A j \in 1..(i - 1) : j \in DOMAIN run.gates /\ j # i
      BY <1>1
    <3> QED BY <3>1, CommitGates DEF SignedEarlier
  <2>3. ASSUME NEW k \in DOMAIN run.gates, k # i
        PROVE  LET g == run'.gates[k]
               IN /\ g.signed \subseteq g.eligible
                  /\ g.author \in g.signed => SelfApproval
                  /\ \A v \in g.signed : SignedEarlier(run'.gates, k, v) => g.eligible \subseteq g.signed
    BY <1>0, <2>1, <2>3, CommitGates DEF SeparationOfDuties
  <2>4. LET g == run'.gates[i]
        IN /\ g.signed \subseteq g.eligible
           /\ g.author \in g.signed => SelfApproval
           /\ \A v \in g.signed : SignedEarlier(run'.gates, i, v) => g.eligible \subseteq g.signed
    BY <1>0, <1>1, <2>2, CommitGates DEF SeparationOfDuties, MaySign
  <2> QED BY <2>3, <2>4, CommitGates DEF SeparationOfDuties
<1>7. GatesInOrder'
  <2>1. \A k \in DOMAIN run.gates : k < i => Complete(run'.gates[k])
    BY <1>0, <1>1, CommitGates DEF GatesInOrder, Complete
  <2>2. \A k \in DOMAIN run.gates : k > i => run'.gates[k].signed = {}
    BY <1>0, <1>1, CommitGates DEF GatesInOrder
  <2>3. GateDone(run'.gates[i]) => Complete(run'.gates[i])
    BY CommitGates DEF GateDone, Complete
  <2>4. DOMAIN run'.gates = DOMAIN run.gates /\ Len(run'.gates) = Len(run.gates)
    BY CommitGates
  <2>5. CASE run'.gateIdx = i /\ run'.state = "active"
    BY <2>1, <2>2, <2>4, <2>5 DEF GatesInOrder
  <2>6. CASE GateDone(run'.gates[i]) /\ run'.gateIdx = i + 1 /\ run'.state = "active"
    <3>1. \A k \in DOMAIN run.gates : /\ k < i + 1 => k < i \/ k = i
                                      /\ k > i + 1 => k > i
      BY <1>1, <1>a
    <3> QED BY <2>1, <2>2, <2>3, <2>4, <2>6, <3>1 DEF GatesInOrder
  <2>7. CASE GateDone(run'.gates[i]) /\ run'.gateIdx = i /\ run'.state = "approved"
             /\ ~(i < Len(run.gates))
    <3>1. i = Len(run.gates)
      BY <1>1, <1>a, <2>7
    <3> QED BY <2>1, <2>2, <2>3, <2>4, <2>7, <3>1 DEF GatesInOrder
  <2> QED BY <1>b, <2>5, <2>6, <2>7
<1> QED BY <1>3, <1>4, <1>5, <1>6, <1>7 DEF IInv

\* requestRevision and withdraw end the run, whatever it holds.
LEMMA EndIInv ==
  ASSUME IInv, NEW q \in Requests, RevisionReturn(q) \/ WithdrawDestroy(q) PROVE IInv'
<1>0. TypeOK /\ SubmitInv /\ ~Locked /\ <<>> \in Seq(Gates)
  <2>1. <<>> \in Seq(Gates)
    OBVIOUS
  <2> QED BY <2>1 DEF IInv, RevisionReturn, WithdrawDestroy
<1>1. End(q) /\ policy' = policy /\ pool' = pool /\ scheme' = scheme
  BY DEF RevisionReturn, WithdrawDestroy, policy
<1>2. Others(q) /\ req'[q] = Idle /\ req' \in [Requests -> Slots]
  BY <1>0, <1>1 DEF End, Others, TypeOK, Idle, Slots, PCs, NoRun, Runs
<1>3. \/ run' = NoRun
      \/ run' = run
      \/ /\ run.state # "none" /\ run' \in Runs
         /\ run'.state = "returned" /\ run'.gateIdx = run.gateIdx /\ run'.gates = run.gates
  BY <1>0 DEF RevisionReturn, WithdrawDestroy, TypeOK, Runs, NoRun
<1>4. TypeOK'
  <2>1. NoRun \in Runs
    BY <1>0 DEF NoRun, Runs
  <2>2. run' \in Runs /\ (run'.state # "none" => run'.gateIdx \in DOMAIN run'.gates)
    BY <1>0, <1>3, <2>1 DEF TypeOK, NoRun
  <2> QED BY <1>0, <1>1, <1>2, <2>2 DEF TypeOK, policy
<1>5. LockInv'
  BY <1>0, <1>2, Unlocked DEF Idle
<1>6. SubmitInv'
  BY <1>0, <1>2, <1>3 DEF SubmitInv, Submitting, Others, Idle, NoRun
<1>7. SeparationOfDuties' /\ GatesInOrder'
  <2>1. CASE run' = NoRun
    BY <1>4, <2>1, FreshRun DEF NoRun, TypeOK
  <2>2. CASE run' = run \/ (run'.state = "returned" /\ run'.gateIdx = run.gateIdx
                          /\ run'.gates = run.gates)
    BY <2>2 DEF IInv, SeparationOfDuties, GatesInOrder, SignedEarlier, Complete
  <2> QED BY <1>3, <2>1, <2>2
<1> QED BY <1>4, <1>5, <1>6, <1>7 DEF IInv

\* Administrators, and steps that change nothing here, touch neither the run
\* nor the requests.
LEMMA AdminIInv ==
  ASSUME IInv, run' = run, req' = req,
         \/ \E u \in Users, f \in Flags : SetPoolMember(u, f)
         \/ \E s \in Schemes : SetModuleScheme(s)
         \/ UNCHANGED vars
  PROVE  IInv'
<1>1. TypeOK'
  BY DEF IInv, TypeOK, SetPoolMember, SetModuleScheme, vars, policy, Runs, Records, Slots
<1>2. LockInv' /\ SubmitInv'
  BY DEF IInv, LockInv, SubmitInv, Submitting, MaySign, SignedEarlier
<1>3. SeparationOfDuties' /\ GatesInOrder'
  BY DEF IInv, SeparationOfDuties, GatesInOrder, SignedEarlier, Complete
<1> QED BY <1>1, <1>2, <1>3 DEF IInv

LEMMA NextIInv == ASSUME IInv, OneSubmit, [Next]_vars PROVE IInv'
<1>1. ASSUME NEW q \in Requests, Step(q) PROVE IInv'
  BY <1>1, QuietIInv, CheckIInv, InsertIInv, UpdateIInv, CommitIInv, EndIInv DEF Step
<1>2. ASSUME NEW q \in Requests, Visit(q) \/ Crash(q) PROVE IInv'
  BY <1>2, QuietIInv
<1>3. ASSUME NEW q \in Requests, NEW u \in Users, Start(q, u) PROVE IInv'
  BY <1>3, StartIInv
<1>4. CASE \/ \E u \in Users, f \in Flags : SetPoolMember(u, f)
           \/ \E s \in Schemes : SetModuleScheme(s)
           \/ UNCHANGED vars
  <2>1. run' = run /\ req' = req
    BY <1>4 DEF SetPoolMember, SetModuleScheme, vars
  <2> QED BY <1>4, <2>1, AdminIInv
<1> QED BY <1>1, <1>2, <1>3, <1>4 DEF Next

-----------------------------------------------------------------------------
\* While nobody submits the record twice at once, the separation of duties and
\* the order of the gates hold whatever the interleaving, the pools and the
\* crashes.
THEOREM ApprovalSafety ==
  ASSUME OneSubmit PROVE Spec => [](TypeOK /\ RightSigners)
<1>1. IInv /\ [Next]_vars => IInv'
  BY NextIInv
<1>2. IInv => TypeOK /\ RightSigners
  BY DEF IInv, RightSigners
<1> QED BY <1>1, <1>2, InitIInv, PTL DEF Spec

\* A run that stays open, or is approved, comes from itself or from a commit of
\* approve.
LEMMA OpenRun ==
  ASSUME IInv, [Next]_vars, run.state = "active", run'.state \in {"active", "approved"}
  PROVE  run' = run \/ \E q \in Requests : ApproveCommit(q)
<1>1. ASSUME NEW q \in Requests, NEW u \in Users, Start(q, u) PROVE run' = run
  BY <1>1 DEF Start, SubmitStart, ApproveLock, WithdrawStart
<1>2. ASSUME NEW q \in Requests, Step(q) \/ Visit(q) \/ Crash(q), ~ApproveCommit(q)
      PROVE run' = run
  <2>1. CASE SubmitInsert(q) \/ SubmitUpdate(q)
    BY <2>1 DEF IInv, SubmitInv, SubmitInsert, SubmitUpdate
  <2>2. CASE RevisionReturn(q) \/ WithdrawDestroy(q)
    BY <2>2 DEF RevisionReturn, WithdrawDestroy, NoRun, IInv, TypeOK, Runs
  <2> QED BY <1>2, <2>1, <2>2 DEF Step, SelfServe, SubmitCheck, SubmitSaveRec, RevisionSaveRec,
            WithdrawReadRec, WithdrawSaveRec, EditSave, SupersedeSave, Visit, RevisionStart, EditStart,
            SupersedeStart, Crash
<1> QED BY <1>1, <1>2 DEF Next, SetPoolMember, SetModuleScheme, vars

\* No sign-off of an open run is lost, and neither its gates nor their signers
\* change, for any number of approvers and administrators at once.
THEOREM RunIsSnapshot == ASSUME OneSubmit PROVE Spec => RunKept
<1> DEFINE Kept ==
      run.state = "active" /\ run'.state \in {"active", "approved"} =>
        /\ run'.gateIdx >= run.gateIdx
        /\ \A k \in DOMAIN run.gates : run.gates[k].signed \subseteq run'.gates[k].signed
           Frozen ==
      run.state = "active" /\ run'.state \in {"active", "approved"} =>
        /\ DOMAIN run'.gates = DOMAIN run.gates
        /\ \A k \in DOMAIN run.gates :
             [run'.gates[k] EXCEPT !.signed = {}] = [run.gates[k] EXCEPT !.signed = {}]
<1>1. IInv /\ [Next]_vars => IInv'
  BY NextIInv
<1>2. IInv /\ [Next]_vars => Kept
  <2>1. SUFFICES ASSUME IInv, [Next]_vars, run.state = "active",
                        run'.state \in {"active", "approved"}
                 PROVE  /\ run'.gateIdx >= run.gateIdx
                        /\ \A k \in DOMAIN run.gates :
                             run.gates[k].signed \subseteq run'.gates[k].signed
    OBVIOUS
  <2>2. run.gateIdx \in Nat
    BY <2>1 DEF IInv, TypeOK, Runs
  <2>3. CASE run' = run
    BY <2>2, <2>3
  <2>4. ASSUME NEW q \in Requests, ApproveCommit(q)
        PROVE  /\ run'.gateIdx >= run.gateIdx
               /\ \A k \in DOMAIN run.gates : run.gates[k].signed \subseteq run'.gates[k].signed
    <3>1. run'.gateIdx \in {run.gateIdx, run.gateIdx + 1}
      BY <2>1, <2>4, CommitRun
    <3>2. \A k \in DOMAIN run.gates : run.gates[k].signed \subseteq run'.gates[k].signed
      BY <2>1, <2>4, CommitGates
    <3> QED BY <2>2, <3>1, <3>2
  <2> QED BY <2>1, <2>3, <2>4, OpenRun
<1>3. IInv /\ [Next]_vars => Frozen
  <2>1. SUFFICES ASSUME IInv, [Next]_vars, run.state = "active",
                        run'.state \in {"active", "approved"}
                 PROVE  /\ DOMAIN run'.gates = DOMAIN run.gates
                        /\ \A k \in DOMAIN run.gates :
                             [run'.gates[k] EXCEPT !.signed = {}] = [run.gates[k] EXCEPT !.signed = {}]
    OBVIOUS
  <2>2. CASE run' = run
    BY <2>2
  <2>3. ASSUME NEW q \in Requests, ApproveCommit(q), NEW k \in DOMAIN run.gates
        PROVE  /\ DOMAIN run'.gates = DOMAIN run.gates
               /\ [run'.gates[k] EXCEPT !.signed = {}] = [run.gates[k] EXCEPT !.signed = {}]
    <3>1. /\ run.gates[k] \in Gates /\ run'.gates[k] \in Gates
          /\ run'.gates[k].eligible = run.gates[k].eligible
          /\ run'.gates[k].required = run.gates[k].required
          /\ run'.gates[k].author = run.gates[k].author
          /\ DOMAIN run'.gates = DOMAIN run.gates
      BY <2>1, <2>3, CommitGates DEF IInv, TypeOK, Runs
    <3> QED BY <3>1 DEF Gates
  <2> QED BY <2>1, <2>2, <2>3, OpenRun, CommitGates
<1> QED BY <1>1, <1>2, <1>3, InitIInv, PTL DEF Spec, RunKept, SignoffsKept, FrozenGates

(***************************************************************************)
(* The supplier's link (Order), for any number of forms and requests at    *)
(* once.                                                                   *)
(***************************************************************************)

\* What a request that will save holds: never another token than the one it read,
\* never a send without a token, and an answer only of a send it read unanswered.
OrderSlot(r) ==
  /\ r.pc \in {"edit", "patch", "answer"} /\ r.old.token # 0 => r.bag.token = r.old.token
  /\ r.pc \in {"edit", "patch"} /\ r.bag.sent # 0 => r.bag.token # 0
  /\ r.pc \in {"form", "edit", "patch"} /\ ~r.bag.ack /\ r.told > 0 => r.bag.sent \in excused
  /\ r.pc = "answer" =>
       /\ r.bag.token = r.old.token /\ r.bag.sent = r.old.sent /\ r.bag.ack /\ ~r.old.ack
       /\ r.told > 0 => r.old.sent \in excused

OrderInv ==
  /\ Order!TypeOK
  /\ \A q \in Requests : OrderSlot(orderReq[q])
  /\ answers[data.sent] > 0 /\ ~data.ack => data.sent \in excused
  /\ Order!LinkStands
  /\ Order!OneAnswerPerSend

LEMMA InitOrderInv == Order!Init => OrderInv
<1> SUFFICES ASSUME Order!Init PROVE OrderInv
  OBVIOUS
<1>1. Order!TypeOK
  BY AnsweringAssumption DEF Order!Init, Order!TypeOK, Order!Idle, Order!Slot, Order!NoBag, Order!Bag,
  Order!Bags,
     Order!Stamps, Order!Tokens, Order!Statuses
<1>2. \A q \in Requests : OrderSlot(orderReq[q])
  BY DEF Order!Init, Order!Idle, Order!Slot, OrderSlot
<1>3. 0 \in Order!Stamps /\ data.sent = 0
  BY AnsweringAssumption DEF Order!Init, Order!NoBag, Order!Bag, Order!Stamps
<1> QED BY <1>1, <1>2, <1>3 DEF Order!Init, OrderInv, Order!LinkStands, Order!OneAnswerPerSend

\* A request moves on, and the order stays as it is.
LEMMA OrderMoves ==
  ASSUME OrderInv, NEW q \in Requests, NEW r, Order!Move(q, r), OrderSlot(r),
         r \in [pc : {"idle", "form", "edit", "patch", "answer"}, was : Order!Statuses, old : Order!Bags,
                now : Order!Statuses, bag : Order!Bags, told : 0..2],
         UNCHANGED <<status, data, emailed, lost, answers, excused>>,
         sends' \in Order!Stamps, minted' \in Order!Tokens
  PROVE  OrderInv'
<1>1. Order!TypeOK'
  BY DEF OrderInv, Order!TypeOK, Order!Move
<1>2. \A p \in Requests : OrderSlot(orderReq[p])'
  BY DEF OrderInv, Order!TypeOK, Order!Move, OrderSlot
<1> QED BY <1>1, <1>2 DEF OrderInv, Order!LinkStands, Order!OneAnswerPerSend

LEMMA OrderIdle ==
  /\ Order!Idle \in [pc : {"idle", "form", "edit", "patch", "answer"}, was : Order!Statuses, old : Order!Bags,
                   now : Order!Statuses, bag : Order!Bags, told : 0..2]
  /\ Order!Idle.pc = "idle" /\ OrderSlot(Order!Idle)
BY AnsweringAssumption DEF Order!Idle, Order!Slot, Order!NoBag, Order!Bag, Order!Bags, Order!Stamps, Order!Tokens,
   Order!Statuses, OrderSlot

\* A save or an answer: what the row and its history are to satisfy.
LEMMA OrderWrites ==
  ASSUME OrderInv, NEW q \in Requests, Order!Move(q, Order!Idle), UNCHANGED <<sends, minted>>,
         status' \in Order!Statuses, data' \in Order!Bags, emailed' \subseteq Order!Tokens \ {0},
         lost' \subseteq Order!Tokens, answers' \in [Order!Stamps -> 0..2],
         excused \subseteq excused', excused' \subseteq Order!Stamps,
         answers'[data'.sent] > 0 /\ ~data'.ack => data'.sent \in excused',
         Order!LinkStands', Order!OneAnswerPerSend'
  PROVE  OrderInv'
<1>1. orderReq' \in [Requests -> [pc : {"idle", "form", "edit", "patch", "answer"}, was : Order!Statuses,
                                 old : Order!Bags, now : Order!Statuses, bag : Order!Bags, told : 0..2]]
  BY OrderIdle DEF OrderInv, Order!TypeOK, Order!Move
<1>2. Order!TypeOK'
  BY <1>1 DEF OrderInv, Order!TypeOK
<1>3. ASSUME NEW p \in Requests PROVE OrderSlot(orderReq[p])'
  <2>1. orderReq'[p] = orderReq[p] \/ orderReq'[p] = Order!Idle
    BY DEF OrderInv, Order!TypeOK, Order!Move
  <2>2. CASE orderReq'[p] = orderReq[p]
    BY <2>2 DEF OrderInv, OrderSlot
  <2>3. CASE orderReq'[p] = Order!Idle
    BY <2>3, OrderIdle DEF OrderSlot
  <2> QED BY <2>1, <2>2, <2>3
<1> QED BY <1>2, <1>3 DEF OrderInv

OrderRows ==
  [pc : {"idle", "form", "edit", "patch", "answer"}, was : Order!Statuses, old : Order!Bags,
   now : Order!Statuses, bag : Order!Bags, told : 0..2]

\* updateBusiness, up to its save.
LEMMA UpdateLoads ==
  ASSUME OrderInv, NEW q \in Requests, NEW s \in Order!Statuses, NEW bag \in Order!Bags,
         NEW pc \in {"edit", "patch"}, NEW told \in 0..2,
         Order!LoadUpdate(q, pc, s, bag, told), sends' \in Order!Stamps,
         ~bag.ack /\ told > 0 => bag.sent \in excused
  PROVE  OrderInv'
<1>1. PICK row \in Order!Bags : row = data
  BY DEF OrderInv, Order!TypeOK
<1>2. PICK was \in Order!Statuses : was = status
  BY DEF OrderInv, Order!TypeOK
<1>3. PICK next : next = Order!WithToken(bag, s)
  OBVIOUS
<1>4. /\ next \in Order!Bags
      /\ row.token # 0 => next.token = row.token
      /\ next.sent # 0 => next.token # 0
      /\ next.sent = bag.sent /\ next.ack = bag.ack
  BY <1>1, <1>3, AnsweringAssumption
     DEF OrderInv, Order!TypeOK, Order!WithToken, Order!LoadUpdate, Order!Bag, Order!Bags, Order!Tokens,
     Order!Stamps
<1>5. minted' \in Order!Tokens
  BY <1>3, <1>4, AnsweringAssumption DEF OrderInv, Order!TypeOK, Order!LoadUpdate, Order!Tokens, Order!Bags
<1>6. PICK r : r = Order!Slot(pc, was, row, s, next, told)
  OBVIOUS
<1>7. r \in OrderRows /\ OrderSlot(r)
  BY <1>4, <1>6 DEF OrderRows, OrderSlot, Order!Slot
<1>8. Order!Move(q, r) /\ UNCHANGED <<status, data, emailed, lost, answers, excused>>
  BY <1>1, <1>2, <1>3, <1>6 DEF Order!LoadUpdate, Order!order, Order!history
<1> QED BY <1>5, <1>7, <1>8, OrderMoves DEF OrderRows

\* save(): the link that was mailed stands, or it is noted as overwritten.
LEMMA SaveKeepsLink ==
  ASSUME OrderInv, NEW q \in Requests, NEW other \in BOOLEAN, Order!Save(q, other)
  PROVE  OrderInv'
<1>1. PICK r \in OrderRows : r = orderReq[q]
  BY DEF OrderInv, Order!TypeOK, OrderRows
<1>2. OrderSlot(r) /\ r.pc \in {"edit", "patch"}
  BY <1>1 DEF OrderInv, Order!Save
<1>3. /\ r.was \in Order!Statuses /\ r.now \in Order!Statuses
      /\ r.old \in Order!Bags /\ r.bag \in Order!Bags
  BY DEF OrderRows
<1>4. PICK row \in Order!Bags : row = data
  BY DEF OrderInv, Order!TypeOK
<1>5. PICK saved \in Order!Bags :
        saved = IF other \/ r.now # r.was THEN r.bag ELSE Order!Changed(row, r.old, r.bag)
  BY <1>3 DEF Order!Changed
<1>a. saved = row \/ saved = r.bag
  BY <1>5 DEF Order!Changed
<1>6. /\ status' \in Order!Statuses
      /\ data' = saved
      /\ emailed' = IF r.bag.sent \notin {0, r.old.sent} THEN emailed \cup {r.bag.token} ELSE emailed
      /\ lost' = IF saved # row /\ r.old.token # row.token THEN lost \cup ({row.token} \ {r.bag.token})
                                                         ELSE lost
      /\ excused' = IF saved # row /\ r.told < answers[saved.sent] THEN excused \cup {saved.sent} ELSE excused
      /\ Order!Move(q, Order!Idle)
      /\ UNCHANGED <<sends, minted, answers>>
  BY <1>1, <1>3, <1>4, <1>5
     DEF OrderInv, Order!TypeOK, Order!Save, Order!Changed, Order!Overwritten, Order!count
<1>7. /\ emailed' \subseteq Order!Tokens \ {0} /\ lost' \subseteq Order!Tokens
      /\ answers' \in [Order!Stamps -> 0..2]
      /\ excused \subseteq excused' /\ excused' \subseteq Order!Stamps
  BY <1>2, <1>3, <1>6 DEF OrderInv, Order!TypeOK, OrderSlot, Order!Bags
<1>8. answers'[data'.sent] > 0 /\ ~data'.ack => data'.sent \in excused'
  <2>1. CASE saved = row
    BY <1>4, <1>6, <2>1 DEF OrderInv
  <2>2. CASE saved # row
    <3>1. saved = r.bag /\ r.told \in 0..2 /\ answers[saved.sent] \in 0..2
      BY <1>a, <1>5, <2>2 DEF OrderRows, OrderInv, Order!TypeOK, Order!Bags
    <3> QED BY <1>2, <1>6, <2>2, <3>1 DEF OrderSlot
  <2> QED BY <2>1, <2>2
<1>9. Order!OneAnswerPerSend'
  BY <1>6, <1>7 DEF OrderInv, Order!OneAnswerPerSend
<1>10. Order!LinkStands'
  <2> SUFFICES ASSUME NEW t \in emailed' PROVE t = saved.token \/ t \in lost'
    BY <1>6 DEF Order!LinkStands
  <2>1. CASE t \in emailed
    <3>1. t # 0 /\ (t = row.token \/ t \in lost)
      BY <1>4, <2>1 DEF OrderInv, Order!TypeOK, Order!LinkStands
    <3>2. CASE saved = row
      BY <1>6, <3>1, <3>2
    <3>3. CASE saved # row
      BY <1>2, <1>a, <1>6, <3>1, <3>3 DEF OrderSlot
    <3> QED BY <3>2, <3>3
  <2>2. CASE t \notin emailed
    <3>1. r.bag.sent # r.old.sent /\ t = r.bag.token
      BY <1>6, <2>2
    <3>2. saved = r.bag
      BY <1>5, <3>1 DEF Order!Changed
    <3> QED BY <3>1, <3>2
  <2> QED BY <2>1, <2>2
<1> QED BY <1>6, <1>7, <1>8, <1>9, <1>10, OrderWrites

\* respondPoConfirmation, its save: a second answer to a send is one that overlapped the
\* first, or followed an old form that had taken the first off.
LEMMA AnswerKeepsLink ==
  ASSUME OrderInv, NEW q \in Requests, Order!SaveAnswer(q)
  PROVE  OrderInv'
<1>1. PICK r \in OrderRows : r = orderReq[q]
  BY DEF OrderInv, Order!TypeOK, OrderRows
<1>2. OrderSlot(r) /\ r.pc = "answer"
  BY <1>1 DEF OrderInv, Order!SaveAnswer
<1>3. /\ r.was \in Order!Statuses /\ r.now \in Order!Statuses /\ r.told \in 0..2
      /\ r.old \in Order!Bags /\ r.bag \in Order!Bags
      /\ r.old.sent \in Order!Stamps /\ r.bag.token \in Order!Tokens
  BY DEF OrderRows, Order!Bags
<1>4. PICK row \in Order!Bags : row = data
  BY DEF OrderInv, Order!TypeOK
<1>5. PICK s \in Order!Stamps : s = r.old.sent
  BY <1>3
<1>6. /\ status' \in Order!Statuses
      /\ data' = r.bag
      /\ answers' = [answers EXCEPT ![s] = IF @ < 2 THEN @ + 1 ELSE @]
      /\ lost' = IF r.old.token # row.token THEN lost \cup ({row.token} \ {r.bag.token}) ELSE lost
      /\ excused' = IF r.told < answers[s] THEN excused \cup {s} ELSE excused
      /\ Order!Move(q, Order!Idle)
      /\ UNCHANGED <<sends, minted, emailed>>
  <2>1. r.bag # r.old
    BY <1>2 DEF OrderSlot
  <2> QED BY <1>1, <1>3, <1>4, <1>5, <2>1
        DEF OrderInv, Order!TypeOK, Order!SaveAnswer, Order!Changed, Order!Overwritten, Order!count
<1>7. /\ emailed' \subseteq Order!Tokens \ {0} /\ lost' \subseteq Order!Tokens
      /\ answers' \in [Order!Stamps -> 0..2]
      /\ excused \subseteq excused' /\ excused' \subseteq Order!Stamps
  BY <1>4, <1>6 DEF OrderInv, Order!TypeOK, Order!Bags
<1>8. answers'[data'.sent] > 0 /\ ~data'.ack => data'.sent \in excused'
  BY <1>2, <1>6 DEF OrderSlot
<1>9. Order!OneAnswerPerSend'
  <2> SUFFICES ASSUME NEW z \in Order!Stamps, answers'[z] = 2 PROVE z \in excused'
    BY DEF Order!OneAnswerPerSend
  <2>1. CASE answers[z] = 2
    BY <1>7, <2>1 DEF OrderInv, Order!OneAnswerPerSend
  <2>2. CASE answers[z] # 2
    <3>1. z = s /\ answers[s] = 1
      BY <1>6, <2>2 DEF OrderInv, Order!TypeOK
    <3>2. r.told = 0 \/ s \in excused
      BY <1>2, <1>3, <1>5 DEF OrderSlot
    <3> QED BY <1>6, <1>7, <3>1, <3>2
  <2> QED BY <2>1, <2>2
<1>10. Order!LinkStands'
  <2> SUFFICES ASSUME NEW t \in emailed PROVE t = r.bag.token \/ t \in lost'
    BY <1>6 DEF Order!LinkStands
  <2>1. t # 0 /\ (t = row.token \/ t \in lost)
    BY <1>4 DEF OrderInv, Order!TypeOK, Order!LinkStands
  <2> QED BY <1>2, <1>6, <2>1 DEF OrderSlot
<1> QED BY <1>3, <1>6, <1>7, <1>8, <1>9, <1>10, OrderWrites

LEMMA NextOrderInv == OrderInv /\ [Order!Next]_(Order!vars) => OrderInv'
<1> SUFFICES ASSUME OrderInv, [Order!Next]_(Order!vars) PROVE OrderInv'
  OBVIOUS
<1>1. PICK row \in Order!Bags : row = data
  BY DEF OrderInv, Order!TypeOK
<1>2. PICK was \in Order!Statuses : was = status
  BY DEF OrderInv, Order!TypeOK
<1>3. ASSUME NEW q \in Requests, Order!OpenForm(q) PROVE OrderInv'
  <2>0. PICK told \in 0..2 : told = answers[row.sent]
    BY DEF OrderInv, Order!TypeOK, Order!Bags
  <2>1. PICK r : r = Order!Slot("form", was, row, was, row, told)
    OBVIOUS
  <2>2. r \in OrderRows /\ OrderSlot(r)
    BY <1>1, <2>0, <2>1 DEF OrderRows, OrderSlot, Order!Slot, OrderInv
  <2>3. Order!Move(q, r) /\ UNCHANGED <<status, data, sends, minted, emailed, lost, answers, excused>>
    BY <1>1, <1>2, <1>3, <2>0, <2>1 DEF Order!OpenForm, Order!order, Order!count, Order!history
  <2> QED BY <2>2, <2>3, OrderMoves DEF OrderRows, OrderInv, Order!TypeOK
<1>4. ASSUME NEW q \in Requests, NEW s \in Order!Statuses, Order!PostEdit(q, s) PROVE OrderInv'
  <2>1. PICK r \in OrderRows : r = orderReq[q]
    BY DEF OrderInv, Order!TypeOK, OrderRows
  <2>2. PICK bag \in Order!Bags : bag = r.bag
    BY DEF OrderRows
  <2>3. Order!LoadUpdate(q, "edit", s, bag, r.told) /\ sends' \in Order!Stamps
    BY <1>4, <2>1, <2>2 DEF Order!PostEdit, OrderInv, Order!TypeOK
  <2>4. r.told \in 0..2 /\ (~bag.ack /\ r.told > 0 => bag.sent \in excused)
    BY <1>4, <2>1, <2>2 DEF OrderRows, OrderInv, OrderSlot, Order!PostEdit
  <2> QED BY <2>3, <2>4, UpdateLoads
<1>5. ASSUME NEW q \in Requests, Order!PostSend(q) PROVE OrderInv'
  <2>1. PICK r \in OrderRows : r = orderReq[q]
    BY DEF OrderInv, Order!TypeOK, OrderRows
  <2>2. sends' \in Order!Stamps /\ sends + 1 \in Order!Stamps
    BY <1>5, AnsweringAssumption DEF Order!PostSend, OrderInv, Order!TypeOK, Order!Stamps
  <2>3. Order!Bag(r.bag.token, sends + 1, r.bag.ack /\ r.was # "Declined") \in Order!Bags
    BY <2>2 DEF Order!Bag, Order!Bags, OrderRows
  <2>4. PICK bag \in Order!Bags : bag = Order!Bag(r.bag.token, sends + 1, r.bag.ack /\ r.was # "Declined")
    BY <2>3
  <2>5. PICK s \in Order!Statuses : s = "Sent"
    BY DEF Order!Statuses
  <2>6. Order!LoadUpdate(q, "edit", s, bag, 0)
    BY <1>5, <2>1, <2>4, <2>5 DEF Order!PostSend
  <2> QED BY <2>2, <2>6, UpdateLoads
<1>6. ASSUME NEW q \in Requests, NEW s \in Order!Statuses, Order!PostStatus(q, s) PROVE OrderInv'
  <2>1. PICK told \in 0..2 : told = answers[row.sent]
    BY DEF OrderInv, Order!TypeOK, Order!Bags
  <2>2. Order!LoadUpdate(q, "patch", s, row, told) /\ sends' \in Order!Stamps
    BY <1>1, <1>6, <2>1 DEF Order!PostStatus, OrderInv, Order!TypeOK
  <2>3. ~row.ack /\ told > 0 => row.sent \in excused
    BY <1>1, <2>1 DEF OrderInv
  <2> QED BY <2>1, <2>2, <2>3, UpdateLoads
<1>7. ASSUME NEW q \in Requests, NEW state \in {"Acknowledged", "Declined"}, Order!LoadAnswer(q, state)
      PROVE  OrderInv'
  <2>1. PICK told \in 0..2 : told = answers[row.sent]
    BY DEF OrderInv, Order!TypeOK, Order!Bags
  <2>2. PICK r : r = Order!Slot("answer", was, row, state, Order!Bag(row.token, row.sent, TRUE), told)
    OBVIOUS
  <2>3. r \in OrderRows
    BY <2>2 DEF OrderRows, Order!Slot, Order!Bag, Order!Bags, Order!Statuses
  <2>4. ~row.ack /\ (told > 0 => row.sent \in excused)
    BY <1>1, <1>7, <2>1 DEF Order!LoadAnswer, OrderInv
  <2>5. OrderSlot(r)
    BY <2>2, <2>4 DEF OrderSlot, Order!Slot, Order!Bag
  <2>6. Order!Move(q, r) /\ UNCHANGED <<status, data, sends, minted, emailed, lost, answers, excused>>
    BY <1>1, <1>2, <1>7, <2>1, <2>2 DEF Order!LoadAnswer, Order!order, Order!count, Order!history
  <2> QED BY <2>3, <2>5, <2>6, OrderMoves DEF OrderRows, OrderInv, Order!TypeOK
<1>8. ASSUME NEW q \in Requests, Order!Abandon(q) PROVE OrderInv'
  <2>1. PICK r : r = Order!Idle
    OBVIOUS
  <2>2. Order!Move(q, r) /\ UNCHANGED <<status, data, sends, minted, emailed, lost, answers, excused>>
    BY <1>8, <2>1 DEF Order!Abandon, Order!order, Order!count, Order!history
  <2> QED BY <2>1, <2>2, OrderIdle, OrderMoves DEF OrderInv, Order!TypeOK
<1>9. CASE UNCHANGED Order!vars
  BY <1>9 DEF Order!vars, Order!order, Order!count, Order!history, OrderInv, Order!TypeOK, OrderSlot,
     Order!LinkStands, Order!OneAnswerPerSend
<1> QED BY <1>3, <1>4, <1>5, <1>6, <1>7, <1>8, <1>9, SaveKeepsLink, AnswerKeepsLink DEF Order!Next

\* What is in focus moves by its own specification, and the others stand still.
LEMMA OrderWithin == AnsweringBehaviour => Order!Spec
<1>1. AnsweringInit => Order!Init
  BY DEF AnsweringInit
<1>2. [AnsweringNext]_answering => [Order!Next]_(Order!vars)
  BY DEF AnsweringNext, answering, purchase, Order!vars, Order!order, Order!count, Order!history
<1> QED BY <1>1, <1>2, PTL DEF AnsweringBehaviour, Order!Spec

LEMMA RacesWithin == AnsweringBehaviour => Spec
<1>1. AnsweringInit => Init
  BY DEF AnsweringInit
<1>2. [AnsweringNext]_answering => [Next]_vars
  BY DEF AnsweringNext, answering
<1> QED BY <1>1, <1>2, PTL DEF AnsweringBehaviour, Spec

\* A link that was mailed to the supplier opens his order, unless it was overwritten by a
\* request that had read the order before its sending; and a send is answered once, unless
\* its answer was saved over from a copy older than it (applyPoConfirmToken,
\* respondPoConfirmation, updateBusiness).
THEOREM SupplierLinkStands == AnsweringBehaviour => []SupplierLink
<1>1. OrderInv => SupplierLink
  BY DEF OrderInv, SupplierLink, Order!SupplierLink
<1> QED BY <1>1, OrderWithin, InitOrderInv, NextOrderInv, PTL DEF Order!Spec

\* Types of the run whose requests race (where one record is submitted at a time, OneSubmit)
\* and of the order.
THEOREM AnsweringTypes ==
  ASSUME OneSubmit
  PROVE  AnsweringBehaviour => []TypesOK
<1>1. IInv /\ OrderInv => TypesOK
  BY DEF IInv, OrderInv, TypesOK
<1> QED BY <1>1, OrderWithin, RacesWithin, InitOrderInv, NextOrderInv, InitIInv, NextIInv, PTL DEF Order!Spec, Spec

(***************************************************************************)
(* Requests that come one after the other (InTurn): one slot, into which   *)
(* the next request comes when the one before is answered.  What a request *)
(* has read is then what is there; the gate of an active run is not done,  *)
(* and the ones after it are unsigned; and the record and the run tell one *)
(* story except between the two saves of a request.                        *)
(***************************************************************************)

\* A gate somebody can sign, signed by its own signers only.
Proper(g) == g.eligible # {} /\ g.required \subseteq g.eligible /\ g.signed \subseteq g.eligible

TurnGates(u) ==
  /\ u.state # "none" => u.gateIdx \in DOMAIN u.gates /\ \A k \in DOMAIN u.gates : Proper(u.gates[k])
  /\ u.state = "active" =>
       /\ ~InTurn!GateDone(u.gates[u.gateIdx])
       /\ \A k \in DOMAIN u.gates : k > u.gateIdx => u.gates[k].signed = {}

Columns == {"status", "approvedBy"}

\* What the request r holds of the record d and the run u.
TurnSlot(r, d, u) ==
  /\ r.pc \in {"submit", "submitRun", "submitRec", "approve", "revision", "withdrawRec", "edit",
               "supersede"} => r.rec = d
  /\ r.pc \in {"submit", "approve"} => r.user \in InTurnUsers
  /\ r.pc = "submit" => r.scheme # <<>>
  /\ r.pc \in {"submitRun", "approve"} => r.run = u
  /\ r.pc = "submitRun" =>
       /\ u.state # "active" /\ Len(r.gates) > 0
       /\ \A k \in DOMAIN r.gates : Proper(r.gates[k]) /\ r.gates[k].signed = {}
  /\ r.pc = "submitRec" => u.state = "active" /\ u.gateIdx = 1
  /\ r.pc = "approve" => u.state = "active" /\ InTurn!MaySign(u, r.user)
  /\ r.pc \in {"withdraw", "withdrawRec", "withdrawRun"} => u.state = "active"
  /\ r.pc = "supersede" => d.status = InTurn!cfg.final

\* One story of the record d, of which an editor set the columns h last, and the run u:
\* its status, and its approver.
StatusStory(d, h, u) ==
  IF "status" \in h THEN d.status \in InTurn!PlainStatuses ELSE
    /\ u.state = "active" => d.status = IF u.gateIdx = 1 THEN InTurn!cfg.submit ELSE InTurn!cfg.mid
    /\ u.state = "approved" => d.status \in {InTurn!cfg.final, "Superseded"}
    /\ u.state = "returned" => d.status = InTurn!cfg.revision
    /\ u.state = "none" => d.status \in {InTurn!cfg.draft, InTurn!cfg.revision}

LastSigners(u) == IF u.gates = <<>> THEN {} ELSE u.gates[Len(u.gates)].signed

ApproverStory(d, h, u) ==
  \/ "approvedBy" \in h
  \/ u.state # "approved" /\ d.approvedBy \in {InTurn!NoOne, InTurn!Unset}
  \/ u.state \in {"approved", "returned"} /\ d.approvedBy \in LastSigners(u)

StorySlot(r, d, h, u) ==
  /\ r.pc # "selfServe"
  /\ "status" \in h => d.status \in InTurn!PlainStatuses
  /\ r.pc = "revisionRun" => d.status = InTurn!cfg.revision
  /\ r.pc = "withdrawRun" => d.status = InTurn!cfg.draft
  /\ r.pc \notin {"submitRec", "revisionRun", "withdrawRun"} => StatusStory(d, h, u)
  /\ r.pc # "submitRec" => ApproverStory(d, h, u)

\* Somebody is to sign, whatever scheme the module is assigned.
SignedPolicy == <<>> \notin InTurnSchemes

TurnInv ==
  /\ InTurn!TypeOK
  /\ TurnGates(tRun)
  /\ \A q \in InTurnRequests :
       /\ TurnSlot(tReq[q], tRec, tRun)
       /\ SignedPolicy => StorySlot(tReq[q], tRec, tByHand, tRun)

LEMMA TurnIdle ==
  ASSUME NEW d, NEW h, NEW u
  PROVE  /\ InTurn!Idle \in InTurn!Slots
         /\ TurnSlot(InTurn!Idle, d, u)
         /\ StatusStory(d, h, u) /\ ApproverStory(d, h, u) => StorySlot(InTurn!Idle, d, h, u)
<1>1. <<>> \in Seq(InTurn!Gates)
  OBVIOUS
<1>2. InTurn!Idle \in InTurn!Slots
  BY <1>1 DEF InTurn!Idle, InTurn!Slots, InTurn!NoRun, InTurn!Runs, InTurn!NoRec, InTurn!PCs
<1>3. InTurn!Idle.pc = "idle"
  BY DEF InTurn!Idle
<1> QED BY <1>2, <1>3 DEF TurnSlot, StorySlot, StatusStory

\* The request, the record and the run move on.
LEMMA TurnMoves ==
  ASSUME NEW one, InTurnRequests = {one}, TurnInv,
         NEW r \in InTurn!Slots, NEW d \in InTurn!Records, NEW h \in SUBSET Columns, NEW u \in InTurn!Runs,
         tReq' = [tReq EXCEPT ![one] = r], tRec' = d, tByHand' = h, tRun' = u,
         tPool' \in [InTurnUsers -> InTurn!Flags], tScheme' \in InTurnSchemes,
         TurnGates(u), TurnSlot(r, d, u), SignedPolicy => StorySlot(r, d, h, u)
  PROVE  TurnInv'
<1>1. tReq' \in [InTurnRequests -> InTurn!Slots] /\ tReq'[one] = r
  BY DEF TurnInv, InTurn!TypeOK
<1>2. InTurn!TypeOK'
  BY <1>1 DEF TurnInv, InTurn!TypeOK, TurnGates, Columns
<1> QED BY <1>1, <1>2 DEF TurnInv, TurnGates, TurnSlot, SignedPolicy, StorySlot, StatusStory, ApproverStory,
        LastSigners

\* The gates of a new run (poolMembers, buildApproval).
LEMMA TurnBuild ==
  ASSUME NEW p \in [InTurnUsers -> InTurn!Flags], NEW s \in InTurnSchemes, NEW u \in InTurnUsers
  PROVE  /\ InTurn!BuildApproval(p, s, u) \in Seq(InTurn!Gates)
         /\ Len(InTurn!BuildApproval(p, s, u)) = Len(s)
         /\ \A k \in DOMAIN InTurn!BuildApproval(p, s, u) :
              /\ InTurn!BuildApproval(p, s, u)[k].signed = {}
              /\ InTurn!BuildApproval(p, s, u)[k].required \subseteq InTurn!BuildApproval(p, s, u)[k].eligible
<1>1. s \in Seq({"mst", "top"}) /\ Len(s) \in Nat
  BY AnsweringAssumption
<1>2. \A i \in 1..Len(s) :
        /\ [eligible |-> InTurn!InPool(p, s[i]), required |-> InTurn!RequiredIn(p, s[i]),
            signed |-> {}, author |-> u] \in InTurn!Gates
        /\ InTurn!RequiredIn(p, s[i]) \subseteq InTurn!InPool(p, s[i])
  BY DEF InTurn!InPool, InTurn!RequiredIn, InTurn!Gates
<1> QED BY <1>1, <1>2 DEF InTurn!BuildApproval

LEMMA TurnEnsured ==
  ASSUME NEW p \in [InTurnUsers -> InTurn!Flags], NEW e \in InTurn!EnsuredPool(p)
  PROVE  e \in [InTurnUsers -> InTurn!Flags]
<1> DEFINE SetUp == \E u \in InTurnUsers : p[u] # [mst |-> "no", tm |-> "no"]
           Pairs == {y \in InTurnUsers \X InTurnUsers : y[1] # y[2] \/ InTurnUsers = {y[1]}}
<1>1. InTurn!EnsuredPool(p) = {p} \cup IF SetUp THEN {} ELSE {InTurn!DefaultPool(x[1], x[2]) : x \in Pairs}
  BY DEF InTurn!EnsuredPool
<1>2. \A x \in Pairs : InTurn!DefaultPool(x[1], x[2]) \in [InTurnUsers -> InTurn!Flags]
  BY DEF InTurn!DefaultPool, InTurn!Flags
<1> HIDE DEF SetUp, Pairs
<1> QED BY <1>1, <1>2

\* A run starts at its first gate, which nobody has signed.
LEMMA TurnStarts ==
  ASSUME NEW g \in Seq(InTurn!Gates), Len(g) > 0,
         \A k \in DOMAIN g : Proper(g[k]) /\ g[k].signed = {},
         NEW u, u = [state |-> "active", gateIdx |-> 1, gates |-> g]
  PROVE  u \in InTurn!Runs /\ TurnGates(u)
<1>1. u.state = "active" /\ u.gateIdx = 1 /\ u.gates = g /\ 1 \in DOMAIN g
  OBVIOUS
<1>2. ~InTurn!GateDone(g[1])
  BY <1>1 DEF InTurn!GateDone
<1> QED BY <1>1, <1>2 DEF InTurn!Runs, TurnGates

\* approve, the part of its transaction that writes the run.
LEMMA TurnSigns ==
  ASSUME NEW u \in InTurn!Runs, u.state = "active", TurnGates(u),
         NEW x \in InTurnUsers, InTurn!MaySign(u, x),
         NEW g, g = [u.gates EXCEPT ![u.gateIdx] = InTurn!Sign(@, x)],
         NEW done \in BOOLEAN, done = InTurn!GateDone(g[u.gateIdx]),
         NEW final \in BOOLEAN, final = (done /\ InTurn!LastGate(u)),
         NEW w, w = [state   |-> IF final THEN "approved" ELSE "active",
                     gateIdx |-> IF done /\ ~final THEN u.gateIdx + 1 ELSE u.gateIdx,
                     gates   |-> g]
  PROVE  /\ w \in InTurn!Runs /\ TurnGates(w)
         /\ final => x \in w.gates[Len(w.gates)].signed
         /\ u.gateIdx + 1 # 1
<1>1. PICK i \in 1..Len(u.gates) : i = u.gateIdx
  BY DEF TurnGates, InTurn!Runs
<1>2. /\ u.gates \in Seq(InTurn!Gates) /\ Len(u.gates) \in Nat
      /\ u.gates[i] \in InTurn!Gates
      /\ x \in u.gates[i].eligible
  BY <1>1 DEF InTurn!Runs, InTurn!MaySign
<1>3. PICK h : h = InTurn!Sign(u.gates[i], x)
  OBVIOUS
<1>4. /\ h \in InTurn!Gates
      /\ h.eligible = u.gates[i].eligible /\ h.required = u.gates[i].required
      /\ h.signed = u.gates[i].signed \cup {x}
  BY <1>2, <1>3 DEF InTurn!Sign, InTurn!Gates
<1>5. /\ g \in Seq(InTurn!Gates) /\ Len(g) = Len(u.gates)
      /\ DOMAIN g = DOMAIN u.gates
      /\ g[i] = h
      /\ \A k \in DOMAIN u.gates : k # i => g[k] = u.gates[k]
  BY <1>1, <1>2, <1>3, <1>4
<1>6. \A k \in DOMAIN g : Proper(g[k])
  BY <1>1, <1>2, <1>4, <1>5 DEF TurnGates, Proper
<1>7. /\ w.gates = g
      /\ w.gateIdx = IF done /\ ~final THEN i + 1 ELSE i
      /\ w.state = IF final THEN "approved" ELSE "active"
  BY <1>1
<1>8. w.gateIdx \in DOMAIN g
  BY <1>1, <1>2, <1>5, <1>7 DEF InTurn!LastGate
<1>9. w \in InTurn!Runs
  BY <1>5, <1>7, <1>8 DEF InTurn!Runs
<1>10. ASSUME ~final PROVE ~InTurn!GateDone(g[w.gateIdx])
  <2>1. CASE done
    <3>1. w.gateIdx = i + 1
      BY <1>7, <1>10, <2>1
    <3>2. g[i + 1].signed = {} /\ i + 1 \in DOMAIN u.gates
      BY <1>1, <1>5, <1>8, <3>1 DEF TurnGates
    <3> QED BY <3>1, <3>2 DEF InTurn!GateDone
  <2>2. CASE ~done
    BY <1>1, <1>7, <2>2
  <2> QED BY <2>1, <2>2
<1>11. \A k \in DOMAIN g : k > w.gateIdx => g[k].signed = {}
  BY <1>1, <1>2, <1>5, <1>7 DEF TurnGates
<1>12. ASSUME final PROVE i = Len(g)
  <2>1. InTurn!LastGate(u)
    BY <1>12
  <2>2. i >= Len(g)
    BY <1>1, <1>5, <2>1 DEF InTurn!LastGate
  <2> QED BY <1>1, <1>2, <1>5, <2>2
<1> QED BY <1>1, <1>4, <1>5, <1>6, <1>7, <1>8, <1>9, <1>10, <1>11, <1>12 DEF TurnGates

\* A save of the policy by the engine, and by an editor.
LEMMA TurnSaves ==
  ASSUME NEW d, d = tRec, NEW h \in SUBSET Columns, h = tByHand,
         NEW s, NEW who, NEW e, e = [status |-> s, approvedBy |-> who], InTurn!SaveRow(e)
  PROVE  /\ tRec' = e
         /\ \E k \in SUBSET Columns :
              /\ tByHand' = k
              /\ "status" \in k <=> "status" \in h /\ s = d.status
              /\ "approvedBy" \in k <=> "approvedBy" \in h /\ who = d.approvedBy
<1>1. PICK k : k = h \ InTurn!Differing(d, e)
  OBVIOUS
<1>2. k \in SUBSET Columns /\ tByHand' = k /\ tRec' = e
  BY <1>1 DEF InTurn!SaveRow
<1>3. ("status" \in k <=> "status" \in h /\ s = d.status)
      /\ ("approvedBy" \in k <=> "approvedBy" \in h /\ who = d.approvedBy)
  BY <1>1 DEF InTurn!Differing, Columns
<1> QED BY <1>2, <1>3

LEMMA TurnEdits ==
  ASSUME NEW d, d = tRec, NEW h \in SUBSET Columns, h = tByHand,
         NEW s, NEW who, NEW e, e = [status |-> s, approvedBy |-> who],
         tRec' = e, tByHand' = h \cup InTurn!Differing(d, e)
  PROVE  \E k \in SUBSET Columns :
           /\ tByHand' = k
           /\ "status" \in k <=> "status" \in h \/ s # d.status
           /\ "approvedBy" \in k <=> "approvedBy" \in h \/ who # d.approvedBy
<1>1. PICK k : k = h \cup InTurn!Differing(d, e)
  OBVIOUS
<1>2. k \in SUBSET Columns /\ tByHand' = k
  BY <1>1 DEF InTurn!Differing, Columns
<1>3. ("status" \in k <=> "status" \in h \/ s # d.status)
      /\ ("approvedBy" \in k <=> "approvedBy" \in h \/ who # d.approvedBy)
  BY <1>1 DEF InTurn!Differing, Columns
<1> QED BY <1>2, <1>3

\* One statement of a request, one request after the other.
LEMMA TurnSteps ==
  ASSUME NEW one, InTurnRequests = {one}, TurnInv,
         InTurn!Step(one)
  PROVE  TurnInv'
<1>1. PICK r \in InTurn!Slots : r = tReq[one]
  BY DEF TurnInv, InTurn!TypeOK
<1>2. PICK d \in InTurn!Records : d = tRec
  BY DEF TurnInv, InTurn!TypeOK
<1>3. PICK u \in InTurn!Runs : u = tRun
  BY DEF TurnInv, InTurn!TypeOK
<1>0. PICK h \in SUBSET Columns : h = tByHand
  BY DEF TurnInv, InTurn!TypeOK, Columns
<1>4. TurnGates(u) /\ TurnSlot(r, d, u) /\ (SignedPolicy => StorySlot(r, d, h, u))
  BY <1>0, <1>1, <1>2, <1>3 DEF TurnInv
<1>5. tPool \in [InTurnUsers -> InTurn!Flags] /\ tScheme \in InTurnSchemes /\ <<>> \in Seq(InTurn!Gates)
  BY DEF TurnInv, InTurn!TypeOK
<1>6. /\ r.user \in InTurnUsers \cup {InTurn!NoOne} /\ r.scheme \in InTurnSchemes \cup {<<>>}
      /\ r.rec \in InTurn!Records \cup {InTurn!NoRec} /\ r.run \in InTurn!Runs
      /\ r.gates \in Seq(InTurn!Gates)
  BY DEF InTurn!Slots
<1>7. /\ d.status \in {InTurn!cfg.submit, InTurn!cfg.mid, InTurn!cfg.final, InTurn!cfg.revision, "Superseded"}
                    \cup InTurn!PlainStatuses
      /\ d.approvedBy \in InTurnUsers \cup {InTurn!NoOne, InTurn!Unset}
      /\ d = [status |-> d.status, approvedBy |-> d.approvedBy]
      /\ InTurn!cfg.draft \in InTurn!PlainStatuses
  BY DEF InTurn!Records, InTurn!cfg, InTurn!PlainStatuses
<1>10. CASE InTurn!SelfServe(one)
  <2>1. PICK s : s = InTurn!Changed(d.status, r.rec.status, InTurn!cfg.final)
    OBVIOUS
  <2>2. PICK e : e = [status |-> s, approvedBy |-> r.user]
    OBVIOUS
  <2>3. e \in InTurn!Records
    BY <1>6, <1>7, <2>1, <2>2 DEF InTurn!Records, InTurn!Changed
  <2>4. /\ r.pc = "selfServe" /\ InTurn!SaveRow(e) /\ UNCHANGED <<tRun, tPool, tScheme>>
        /\ tReq' = [tReq EXCEPT ![one] = InTurn!Idle]
    BY <1>1, <1>2, <1>10, <2>1, <2>2 DEF InTurn!SelfServe, InTurn!End
  <2>5. PICK k \in SUBSET Columns : tRec' = e /\ tByHand' = k
    BY <1>0, <1>2, <2>2, <2>4, TurnSaves
  <2>6. ~SignedPolicy
    BY <1>4, <2>4 DEF StorySlot
  <2> QED BY <1>3, <1>4, <1>5, <2>3, <2>4, <2>5, <2>6, TurnIdle, TurnMoves
<1>11. CASE InTurn!SubmitCheck(one)
  <2>1. r.pc = "submit" /\ r.rec = d /\ r.scheme \in InTurnSchemes /\ r.user \in InTurnUsers
    BY <1>1, <1>4, <1>6, <1>11 DEF InTurn!SubmitCheck, TurnSlot
  <2>2. r.scheme # <<>>
    BY <1>4, <2>1 DEF TurnSlot
  <2>3. PICK p0 \in [InTurnUsers -> InTurn!Flags] : p0 = tPool
    BY <1>5
  <2>4. PICK p \in InTurn!EnsuredPool(p0) :
           LET gates == InTurn!BuildApproval(p, tReq[one].scheme, tReq[one].user)
           IN /\ tPool' = p
              /\ IF (\E i \in DOMAIN gates : gates[i].eligible = {}) \/ tRun.state = "active"
                   THEN InTurn!End(one)
                   ELSE tReq' = [tReq EXCEPT ![one].pc = "submitRun", ![one].scheme = <<>>,
                                             ![one].run = tRun, ![one].gates = gates]
    BY <1>11, <2>3 DEF InTurn!SubmitCheck
  <2>5. PICK g : g = InTurn!BuildApproval(p, r.scheme, r.user)
    OBVIOUS
  <2>6. /\ tPool' = p
        /\ IF (\E i \in DOMAIN g : g[i].eligible = {}) \/ u.state = "active"
             THEN tReq' = [tReq EXCEPT ![one] = InTurn!Idle]
             ELSE tReq' = [tReq EXCEPT ![one] = [r EXCEPT !.pc = "submitRun", !.scheme = <<>>,
                                                          !.run = u, !.gates = g]]
        /\ UNCHANGED <<tRec, tByHand, tRun, tScheme>>
    BY <1>1, <1>3, <1>11, <2>4, <2>5 DEF InTurn!SubmitCheck, InTurn!End, TurnInv, InTurn!TypeOK, InTurn!policy
  <2>7. p \in [InTurnUsers -> InTurn!Flags]
    BY TurnEnsured
  <2>8. /\ g \in Seq(InTurn!Gates) /\ Len(g) = Len(r.scheme)
        /\ \A k \in DOMAIN g : g[k].signed = {} /\ g[k].required \subseteq g[k].eligible
    BY <2>1, <2>5, <2>7, TurnBuild
  <2>9. SignedPolicy => StorySlot(r, d, h, u)
    BY <1>4
  <2>10. CASE (\E i \in DOMAIN g : g[i].eligible = {}) \/ u.state = "active"
    <3>1. SignedPolicy => StorySlot(InTurn!Idle, d, h, u)
      BY <2>1, <2>9, TurnIdle DEF StorySlot
    <3> QED BY <1>0, <1>2, <1>3, <1>4, <1>5, <2>6, <2>7, <2>10, <3>1, TurnIdle, TurnMoves
  <2>11. CASE ~((\E i \in DOMAIN g : g[i].eligible = {}) \/ u.state = "active")
    <3>1. PICK n : n = [r EXCEPT !.pc = "submitRun", !.scheme = <<>>, !.run = u, !.gates = g]
      OBVIOUS
    <3>2. n \in InTurn!Slots
      BY <2>8, <3>1 DEF InTurn!Slots, InTurn!PCs
    <3>3. n.pc = "submitRun" /\ n.rec = d /\ n.run = u /\ n.gates = g
      BY <2>1, <3>1 DEF InTurn!Slots
    <3>4. Len(g) > 0
      BY <2>1, <2>2, <2>8, AnsweringAssumption
    <3>5. TurnSlot(n, d, u) /\ (SignedPolicy => StorySlot(n, d, h, u))
      BY <2>1, <2>8, <2>9, <2>11, <3>3, <3>4 DEF TurnSlot, StorySlot, Proper
    <3> QED BY <1>0, <1>2, <1>3, <1>4, <1>5, <2>6, <2>7, <2>11, <3>1, <3>2, <3>5, TurnMoves
  <2> QED BY <2>10, <2>11
<1>12. CASE InTurn!SubmitInsert(one) \/ InTurn!SubmitUpdate(one)
  <2>1. r.pc = "submitRun" /\ r.run = u /\ r.rec = d
    BY <1>1, <1>4, <1>12 DEF InTurn!SubmitInsert, InTurn!SubmitUpdate, TurnSlot
  <2>2. PICK w : w = [state |-> "active", gateIdx |-> 1, gates |-> r.gates]
    OBVIOUS
  <2>3. w \in InTurn!Runs /\ TurnGates(w) /\ w.state = "active" /\ w.gateIdx = 1
    BY <1>4, <1>6, <2>1, <2>2, TurnStarts DEF TurnSlot
  <2>4. \E n \in InTurn!Slots :
          /\ tReq' = [tReq EXCEPT ![one] = n]
          /\ n.pc = "submitRec" /\ n.rec = d
    <3>1. PICK n1 : n1 = [r EXCEPT !.pc = "submitRec", !.gates = <<>>]
      OBVIOUS
    <3>2. PICK n2 : n2 = [r EXCEPT !.pc = "submitRec", !.run = InTurn!NoRun, !.gates = <<>>]
      OBVIOUS
    <3>3. n1 \in InTurn!Slots /\ n1.pc = "submitRec" /\ n1.rec = d
      BY <1>5, <2>1, <3>1 DEF InTurn!Slots, InTurn!PCs
    <3>4. n2 \in InTurn!Slots /\ n2.pc = "submitRec" /\ n2.rec = d
      BY <1>5, <2>1, <3>2 DEF InTurn!Slots, InTurn!PCs, InTurn!NoRun, InTurn!Runs
    <3>5. tReq' = [tReq EXCEPT ![one] = n1] \/ tReq' = [tReq EXCEPT ![one] = n2]
      BY <1>1, <1>3, <1>12, <2>1, <3>1, <3>2 DEF InTurn!SubmitInsert, InTurn!SubmitUpdate, TurnInv,
      InTurn!TypeOK
    <3> QED BY <3>3, <3>4, <3>5
  <2>5. PICK n \in InTurn!Slots : tReq' = [tReq EXCEPT ![one] = n] /\ n.pc = "submitRec" /\ n.rec = d
    BY <2>4
  <2>6. tRun' = w /\ UNCHANGED <<tRec, tByHand, tPool, tScheme>>
    BY <1>1, <1>3, <1>12, <2>1, <2>2 DEF InTurn!SubmitInsert, InTurn!SubmitUpdate, InTurn!Changed, InTurn!policy
  <2>7. TurnSlot(n, d, w) /\ (SignedPolicy => StorySlot(n, d, h, w))
    BY <1>4, <2>3, <2>5 DEF TurnSlot, StorySlot
  <2> QED BY <1>0, <1>2, <1>5, <2>3, <2>5, <2>6, <2>7, TurnMoves
<1>13. CASE InTurn!SubmitSaveRec(one)
  <2>1. r.pc = "submitRec" /\ r.rec = d /\ u.state = "active" /\ u.gateIdx = 1
    BY <1>1, <1>4, <1>13 DEF InTurn!SubmitSaveRec, TurnSlot
  <2>2. PICK e : e = [status |-> InTurn!cfg.submit, approvedBy |-> InTurn!NoOne]
    OBVIOUS
  <2>3. e \in InTurn!Records
    BY <2>2 DEF InTurn!Records
  <2>4. InTurn!SaveRow(e) /\ UNCHANGED <<tRun, tPool, tScheme>> /\ tReq' = [tReq EXCEPT ![one] = InTurn!Idle]
    BY <1>1, <1>2, <1>13, <2>1, <2>2 DEF InTurn!SubmitSaveRec, InTurn!End, InTurn!Changed
  <2>5. PICK k \in SUBSET Columns :
          /\ tRec' = e /\ tByHand' = k
          /\ "status" \in k <=> "status" \in h /\ InTurn!cfg.submit = d.status
    BY <1>0, <1>2, <2>2, <2>4, TurnSaves
  <2>6. ASSUME SignedPolicy PROVE StorySlot(InTurn!Idle, e, k, u)
    <3>1. "status" \notin k
      BY <1>4, <2>5, <2>6 DEF StorySlot, InTurn!cfg, InTurn!PlainStatuses
    <3>2. StatusStory(e, k, u) /\ ApproverStory(e, k, u)
      BY <2>1, <2>2, <3>1 DEF StatusStory, ApproverStory
    <3> QED BY <3>2, TurnIdle
  <2> QED BY <1>3, <1>4, <1>5, <2>3, <2>4, <2>5, <2>6, TurnIdle, TurnMoves
<1>14. CASE InTurn!ApproveCommit(one)
  <2>1. /\ r.pc = "approve" /\ r.rec = d /\ r.run = u /\ r.user \in InTurnUsers
        /\ u.state = "active" /\ InTurn!MaySign(u, r.user)
    BY <1>1, <1>4, <1>14 DEF InTurn!ApproveCommit, TurnSlot
  <2>2. PICK g : g = [u.gates EXCEPT ![u.gateIdx] = InTurn!Sign(@, r.user)]
    OBVIOUS
  <2>3. PICK done \in BOOLEAN : done = InTurn!GateDone(g[u.gateIdx])
    BY DEF InTurn!GateDone
  <2>4. PICK final \in BOOLEAN : final = (done /\ InTurn!LastGate(u))
    OBVIOUS
  <2>5. PICK w : w = [state   |-> IF final THEN "approved" ELSE "active",
                      gateIdx |-> IF done /\ ~final THEN u.gateIdx + 1 ELSE u.gateIdx,
                      gates   |-> g]
    OBVIOUS
  <2>6. /\ w \in InTurn!Runs /\ TurnGates(w)
        /\ final => r.user \in w.gates[Len(w.gates)].signed
        /\ u.gateIdx + 1 # 1
    BY <1>4, <2>1, <2>2, <2>3, <2>4, <2>5, TurnSigns
  <2>7. PICK s : s = IF ~done THEN d.status ELSE IF final THEN InTurn!cfg.final ELSE InTurn!cfg.mid
    OBVIOUS
  <2>8. PICK who : who = IF ~done \/ ~final THEN d.approvedBy ELSE r.user
    OBVIOUS
  <2>9. PICK e : e = [status |-> s, approvedBy |-> who]
    OBVIOUS
  <2>10. e \in InTurn!Records
    BY <1>7, <2>1, <2>7, <2>8, <2>9 DEF InTurn!Records
  <2>11. e = IF ~done THEN d ELSE [status |-> IF final THEN InTurn!cfg.final ELSE InTurn!cfg.mid,
                                   approvedBy |-> IF final THEN r.user ELSE d.approvedBy]
    BY <1>7, <2>7, <2>8, <2>9
  <2>12. tRun' = w /\ InTurn!SaveRow(e)
    BY <1>1, <1>2, <1>14, <2>1, <2>2, <2>3, <2>4, <2>5, <2>11 DEF InTurn!ApproveCommit, InTurn!Changed
  <2>13. UNCHANGED <<tPool, tScheme>> /\ tReq' = [tReq EXCEPT ![one] = InTurn!Idle]
    BY <1>14 DEF InTurn!ApproveCommit, InTurn!End
  <2>14. PICK k \in SUBSET Columns :
           /\ tRec' = e /\ tByHand' = k
           /\ "status" \in k <=> "status" \in h /\ s = d.status
           /\ "approvedBy" \in k <=> "approvedBy" \in h /\ who = d.approvedBy
    BY <1>0, <1>2, <2>9, <2>12, TurnSaves
  <2>15. ASSUME SignedPolicy PROVE StorySlot(InTurn!Idle, e, k, w)
    <3>1. /\ "status" \in h => d.status \in InTurn!PlainStatuses
          /\ StatusStory(d, h, u) /\ ApproverStory(d, h, u)
      BY <1>4, <2>1, <2>15 DEF StorySlot
    <3>2. w.state = (IF final THEN "approved" ELSE "active")
          /\ w.gateIdx = IF done /\ ~final THEN u.gateIdx + 1 ELSE u.gateIdx
      BY <2>5
    <3>3. CASE final
      <4>1. done /\ s = InTurn!cfg.final /\ who = r.user /\ w.state = "approved"
        BY <2>4, <2>7, <2>8, <3>2, <3>3
      <4>2. "status" \notin k
        BY <2>14, <3>1, <4>1 DEF InTurn!cfg, InTurn!PlainStatuses
      <4>3. w.gates # <<>> /\ r.user \in LastSigners(w)
        BY <2>6, <3>3, <4>1 DEF TurnGates, LastSigners
      <4>4. e.status = InTurn!cfg.final /\ e.approvedBy = r.user
        BY <2>9, <4>1
      <4>5. StatusStory(e, k, w) /\ ApproverStory(e, k, w)
        BY <4>1, <4>2, <4>3, <4>4 DEF StatusStory, ApproverStory
      <4> QED BY <4>2, <4>5, TurnIdle
    <3>4. CASE done /\ ~final
      <4>1. s = InTurn!cfg.mid /\ who = d.approvedBy /\ w.state = "active" /\ w.gateIdx # 1
        BY <2>6, <2>7, <2>8, <3>2, <3>4
      <4>2. "status" \notin k
        BY <2>14, <3>1, <4>1 DEF InTurn!cfg, InTurn!PlainStatuses
      <4>3. e.status = InTurn!cfg.mid /\ e.approvedBy = d.approvedBy
        BY <2>9, <4>1
      <4>4. StatusStory(e, k, w) /\ ApproverStory(e, k, w)
        BY <2>1, <2>14, <3>1, <4>1, <4>2, <4>3 DEF StatusStory, ApproverStory
      <4> QED BY <4>2, <4>4, TurnIdle
    <3>5. CASE ~done
      <4>1. s = d.status /\ who = d.approvedBy /\ w.state = "active" /\ w.gateIdx = u.gateIdx
        BY <2>4, <2>7, <2>8, <3>2, <3>5
      <4>2. e.status = d.status /\ e.approvedBy = d.approvedBy
            /\ ("status" \in k <=> "status" \in h) /\ ("approvedBy" \in k <=> "approvedBy" \in h)
        BY <2>9, <2>14, <4>1
      <4>3. StatusStory(e, k, w) /\ ApproverStory(e, k, w)
        BY <2>1, <3>1, <4>1, <4>2 DEF StatusStory, ApproverStory
      <4> QED BY <4>3, TurnIdle
    <3> QED BY <3>3, <3>4, <3>5
  <2> QED BY <1>5, <2>6, <2>10, <2>12, <2>13, <2>14, <2>15, TurnIdle, TurnMoves
<1>15. CASE InTurn!RevisionSaveRec(one)
  <2>1. r.pc = "revision" /\ r.rec = d
    BY <1>1, <1>4, <1>15 DEF InTurn!RevisionSaveRec, TurnSlot
  <2>2. PICK e : e = [status |-> InTurn!cfg.revision, approvedBy |-> d.approvedBy]
    OBVIOUS
  <2>3. PICK n : n = [r EXCEPT !.pc = "revisionRun", !.rec = InTurn!NoRec]
    OBVIOUS
  <2>4. e \in InTurn!Records
    BY <2>2 DEF InTurn!Records
  <2>5. n \in InTurn!Slots /\ n.pc = "revisionRun"
    BY <2>3 DEF InTurn!Slots, InTurn!PCs
  <2>6. InTurn!SaveRow(e) /\ UNCHANGED <<tRun, tPool, tScheme>>
    BY <1>1, <1>2, <1>15, <2>1, <2>2 DEF InTurn!RevisionSaveRec, InTurn!Changed
  <2>7. tReq' = [tReq EXCEPT ![one] = n]
    BY <1>1, <1>15, <2>3 DEF InTurn!RevisionSaveRec, TurnInv, InTurn!TypeOK
  <2>8. PICK k \in SUBSET Columns :
          /\ tRec' = e /\ tByHand' = k
          /\ "status" \in k <=> "status" \in h /\ InTurn!cfg.revision = d.status
          /\ "approvedBy" \in k <=> "approvedBy" \in h
    BY <1>0, <1>2, <2>2, <2>6, TurnSaves
  <2>9. TurnSlot(n, e, u)
    BY <2>5 DEF TurnSlot
  <2>10. ASSUME SignedPolicy PROVE StorySlot(n, e, k, u)
    <3>1. ("status" \in h => d.status \in InTurn!PlainStatuses) /\ ApproverStory(d, h, u)
      BY <1>4, <2>1, <2>10 DEF StorySlot
    <3>2. "status" \notin k
      BY <2>8, <3>1 DEF InTurn!cfg, InTurn!PlainStatuses
    <3>3. ApproverStory(e, k, u)
      BY <2>2, <2>8, <3>1 DEF ApproverStory
    <3> QED BY <2>2, <2>5, <3>2, <3>3 DEF StorySlot
  <2> QED BY <1>3, <1>4, <1>5, <2>4, <2>5, <2>6, <2>7, <2>8, <2>9, <2>10, TurnMoves
<1>16. CASE InTurn!RevisionReturn(one)
  <2>1. r.pc = "revisionRun"
    BY <1>1, <1>16 DEF InTurn!RevisionReturn
  <2>2. PICK w : w = IF u.state = "none" THEN u ELSE [u EXCEPT !.state = "returned"]
    OBVIOUS
  <2>3. /\ w \in InTurn!Runs /\ w.gates = u.gates /\ w.gateIdx = u.gateIdx
        /\ w.state = IF u.state = "none" THEN "none" ELSE "returned"
    BY <2>2 DEF InTurn!Runs
  <2>4. TurnGates(w)
    BY <1>4, <2>3 DEF TurnGates
  <2>5. tRun' = w /\ UNCHANGED <<tRec, tByHand, tPool, tScheme>> /\ tReq' = [tReq EXCEPT ![one] = InTurn!Idle]
    BY <1>3, <1>16, <2>2 DEF InTurn!RevisionReturn, InTurn!End, InTurn!policy
  <2>6. ASSUME SignedPolicy PROVE StorySlot(InTurn!Idle, d, h, w)
    <3>1. d.status = InTurn!cfg.revision /\ "status" \notin h /\ ApproverStory(d, h, u)
      BY <1>4, <2>1, <2>6 DEF StorySlot, InTurn!cfg, InTurn!PlainStatuses
    <3>2. StatusStory(d, h, w)
      BY <2>3, <3>1 DEF StatusStory
    <3>3. ApproverStory(d, h, w)
      BY <2>3, <3>1 DEF ApproverStory, LastSigners
    <3> QED BY <3>2, <3>3, TurnIdle
  <2> QED BY <1>0, <1>2, <1>5, <2>3, <2>4, <2>5, <2>6, TurnIdle, TurnMoves
<1>17. CASE InTurn!WithdrawReadRec(one)
  <2>1. r.pc = "withdraw"
    BY <1>1, <1>17 DEF InTurn!WithdrawReadRec
  <2>2. PICK n : n = [r EXCEPT !.pc = "withdrawRec", !.rec = d]
    OBVIOUS
  <2>3. n \in InTurn!Slots /\ n.pc = "withdrawRec" /\ n.rec = d
    BY <2>2 DEF InTurn!Slots, InTurn!PCs
  <2>4. tReq' = [tReq EXCEPT ![one] = n] /\ UNCHANGED <<tRec, tByHand, tRun, tPool, tScheme>>
    BY <1>1, <1>2, <1>17, <2>2 DEF InTurn!WithdrawReadRec, TurnInv, InTurn!TypeOK, InTurn!policy
  <2>5. TurnSlot(n, d, u) /\ (SignedPolicy => StorySlot(n, d, h, u))
    BY <1>4, <2>1, <2>3 DEF TurnSlot, StorySlot
  <2> QED BY <1>0, <1>2, <1>3, <1>4, <1>5, <2>3, <2>4, <2>5, TurnMoves
<1>18. CASE InTurn!WithdrawSaveRec(one)
  <2>1. r.pc = "withdrawRec" /\ r.rec = d
    BY <1>1, <1>4, <1>18 DEF InTurn!WithdrawSaveRec, TurnSlot
  <2>2. PICK e : e = [status |-> InTurn!cfg.draft, approvedBy |-> d.approvedBy]
    OBVIOUS
  <2>3. PICK n : n = [r EXCEPT !.pc = "withdrawRun", !.rec = InTurn!NoRec]
    OBVIOUS
  <2>4. e \in InTurn!Records /\ e.status = InTurn!cfg.draft /\ e = [d EXCEPT !.status = InTurn!cfg.draft]
    BY <1>7, <2>2 DEF InTurn!Records
  <2>5. n \in InTurn!Slots /\ n.pc = "withdrawRun"
    BY <2>3 DEF InTurn!Slots, InTurn!PCs
  <2>6. InTurn!SaveRow(e) /\ UNCHANGED <<tRun, tPool, tScheme>>
    BY <1>1, <1>2, <1>18, <2>1, <2>4 DEF InTurn!WithdrawSaveRec, InTurn!Changed
  <2>7. tReq' = [tReq EXCEPT ![one] = n]
    BY <1>1, <1>18, <2>3 DEF InTurn!WithdrawSaveRec, TurnInv, InTurn!TypeOK
  <2>8. PICK k \in SUBSET Columns :
          tRec' = e /\ tByHand' = k /\ ("approvedBy" \in k <=> "approvedBy" \in h)
    BY <1>0, <1>2, <2>2, <2>6, TurnSaves
  <2>9. TurnSlot(n, e, u)
    BY <1>4, <2>1, <2>5 DEF TurnSlot
  <2>10. ASSUME SignedPolicy PROVE StorySlot(n, e, k, u)
    <3>1. ApproverStory(d, h, u)
      BY <1>4, <2>1, <2>10 DEF StorySlot
    <3>2. ApproverStory(e, k, u)
      BY <2>2, <2>8, <3>1 DEF ApproverStory
    <3> QED BY <1>7, <2>2, <2>5, <3>2 DEF StorySlot
  <2> QED BY <1>3, <1>4, <1>5, <2>4, <2>5, <2>6, <2>7, <2>8, <2>9, <2>10, TurnMoves
<1>19. CASE InTurn!WithdrawDestroy(one)
  <2>1. PICK w : w = InTurn!NoRun
    OBVIOUS
  <2>2. w \in InTurn!Runs /\ w.state = "none" /\ TurnGates(w)
    BY <1>5, <2>1 DEF InTurn!NoRun, InTurn!Runs, TurnGates
  <2>3. r.pc = "withdrawRun" /\ tRun' = w /\ UNCHANGED <<tRec, tByHand, tPool, tScheme>>
        /\ tReq' = [tReq EXCEPT ![one] = InTurn!Idle]
    BY <1>1, <1>19, <2>1 DEF InTurn!WithdrawDestroy, InTurn!End, InTurn!policy
  <2>4. ASSUME SignedPolicy PROVE StorySlot(InTurn!Idle, d, h, w)
    <3>1. d.status = InTurn!cfg.draft /\ ApproverStory(d, h, u) /\ u.state = "active"
      BY <1>4, <2>3, <2>4 DEF StorySlot, TurnSlot
    <3>2. StatusStory(d, h, w) /\ ApproverStory(d, h, w)
      BY <1>7, <2>2, <3>1 DEF StatusStory, ApproverStory
    <3> QED BY <3>2, TurnIdle
  <2> QED BY <1>0, <1>2, <1>5, <2>2, <2>3, <2>4, TurnIdle, TurnMoves
<1>20. CASE InTurn!EditSave(one)
  <2>1. r.pc = "edit" /\ r.rec = d
    BY <1>1, <1>4, <1>20 DEF InTurn!EditSave, TurnSlot
  <2>2. PICK s \in {d.status} \cup InTurn!PlainStatuses, blob \in BOOLEAN,
             x \in InTurnUsers \cup {InTurn!Unset} :
          tRec' = [status |-> InTurn!Changed(d.status, d.status, s), approvedBy |-> IF blob THEN x ELSE d.approvedBy]
    BY <1>1, <1>2, <1>20, <2>1 DEF InTurn!EditSave
  <2>3. PICK who : who = IF blob THEN x ELSE d.approvedBy
    OBVIOUS
  <2>4. PICK e : e = [status |-> s, approvedBy |-> who]
    OBVIOUS
  <2>5. e \in InTurn!Records
    BY <1>7, <2>3, <2>4 DEF InTurn!Records
  <2>6. tRec' = e
    BY <2>2, <2>3, <2>4 DEF InTurn!Changed
  <2>7. tByHand' = h \cup InTurn!Differing(d, e)
    BY <1>0, <1>2, <1>20, <2>6 DEF InTurn!EditSave
  <2>8. PICK k \in SUBSET Columns :
          /\ tByHand' = k
          /\ "status" \in k <=> "status" \in h \/ s # d.status
          /\ "approvedBy" \in k <=> "approvedBy" \in h \/ who # d.approvedBy
    BY <1>0, <1>2, <2>4, <2>6, <2>7, TurnEdits
  <2>9. UNCHANGED <<tRun, tPool, tScheme>> /\ tReq' = [tReq EXCEPT ![one] = InTurn!Idle]
    BY <1>20 DEF InTurn!EditSave, InTurn!End
  <2>10. ASSUME SignedPolicy PROVE StorySlot(InTurn!Idle, e, k, u)
    <3>1. /\ "status" \in h => d.status \in InTurn!PlainStatuses
          /\ StatusStory(d, h, u) /\ ApproverStory(d, h, u)
      BY <1>4, <2>1, <2>10 DEF StorySlot
    <3>2. "status" \in k => s \in InTurn!PlainStatuses
      BY <2>8, <3>1
    <3>3. "status" \notin k => "status" \notin h /\ s = d.status
      BY <2>8
    <3>4. StatusStory(e, k, u)
      BY <2>4, <3>1, <3>2, <3>3 DEF StatusStory
    <3>5. ApproverStory(e, k, u)
      BY <2>4, <2>8, <3>1 DEF ApproverStory
    <3> QED BY <3>4, <3>5, TurnIdle
  <2> QED BY <1>3, <1>4, <1>5, <2>5, <2>6, <2>8, <2>9, <2>10, TurnIdle, TurnMoves
<1>21. CASE InTurn!SupersedeSave(one)
  <2>1. r.pc = "supersede" /\ r.rec = d /\ d.status = InTurn!cfg.final
    BY <1>1, <1>4, <1>21 DEF InTurn!SupersedeSave, TurnSlot
  <2>2. PICK e : e = [status |-> "Superseded", approvedBy |-> d.approvedBy]
    OBVIOUS
  <2>3. e \in InTurn!Records
    BY <1>7, <2>2 DEF InTurn!Records
  <2>4. InTurn!SaveRow(e) /\ UNCHANGED <<tRun, tPool, tScheme>> /\ tReq' = [tReq EXCEPT ![one] = InTurn!Idle]
    BY <1>1, <1>21, <2>1, <2>2 DEF InTurn!SupersedeSave, InTurn!End
  <2>5. PICK k \in SUBSET Columns :
          /\ tRec' = e /\ tByHand' = k
          /\ "status" \in k <=> "status" \in h /\ "Superseded" = d.status
          /\ "approvedBy" \in k <=> "approvedBy" \in h
    BY <1>0, <1>2, <2>2, <2>4, TurnSaves
  <2>6. ASSUME SignedPolicy PROVE StorySlot(InTurn!Idle, e, k, u)
    <3>1. /\ "status" \in h => d.status \in InTurn!PlainStatuses
          /\ StatusStory(d, h, u) /\ ApproverStory(d, h, u)
      BY <1>4, <2>1, <2>6 DEF StorySlot
    <3>2. "status" \notin h /\ "status" \notin k
      BY <2>1, <2>5, <3>1 DEF InTurn!cfg, InTurn!PlainStatuses
    <3>3. u.state \in {"active", "approved", "returned", "none"}
      BY DEF InTurn!Runs
    <3>4. u.state = "approved"
      BY <2>1, <3>1, <3>2, <3>3 DEF StatusStory, InTurn!cfg
    <3>5. StatusStory(e, k, u) /\ ApproverStory(e, k, u)
      BY <2>2, <2>5, <3>1, <3>2, <3>4 DEF StatusStory, ApproverStory
    <3> QED BY <3>5, TurnIdle
  <2> QED BY <1>3, <1>4, <1>5, <2>3, <2>4, <2>5, <2>6, TurnIdle, TurnMoves
<1> QED BY <1>10, <1>11, <1>12, <1>13, <1>14, <1>15, <1>16, <1>17, <1>18, <1>19, <1>20, <1>21
        DEF InTurn!Step

LEMMA TurnInit ==
  ASSUME NEW one, InTurnRequests = {one}, InTurn!Init
  PROVE  TurnInv
<1>1. InTurn!TypeOK
  <2>1. <<>> \in Seq(InTurn!Gates)
    OBVIOUS
  <2> QED BY <2>1, AnsweringAssumption
        DEF InTurn!Init, InTurn!TypeOK, InTurn!Records, InTurn!Differing, InTurn!Runs, InTurn!NoRun, InTurn!Idle, InTurn!NoRec,
            InTurn!PCs, InTurn!Slots
<1>2. tRun.state = "none" /\ tReq[one] = InTurn!Idle
  BY DEF InTurn!Init, InTurn!NoRun
<1>3. InTurn!Idle.pc = "idle"
  BY DEF InTurn!Idle
<1>4. /\ tRec \in [status : InTurn!PlainStatuses, approvedBy : InTurnUsers \cup {InTurn!Unset}]
      /\ "status" \in tByHand \/ tRec.status = InTurn!cfg.draft
      /\ "approvedBy" \in tByHand \/ tRec.approvedBy = InTurn!Unset
  BY DEF InTurn!Init, InTurn!Differing, InTurn!NewRec
<1>5. StatusStory(tRec, tByHand, tRun) /\ ApproverStory(tRec, tByHand, tRun)
  BY <1>2, <1>4 DEF StatusStory, ApproverStory
<1>6. StorySlot(tReq[one], tRec, tByHand, tRun)
  BY <1>2, <1>4, <1>5, TurnIdle
<1> QED BY <1>1, <1>2, <1>3, <1>6 DEF TurnInv, TurnGates, TurnSlot

LEMMA TurnNext ==
  ASSUME NEW one, InTurnRequests = {one}, TurnInv, [InTurn!Next]_(InTurn!vars)
  PROVE  TurnInv'
<1>1. PICK r \in InTurn!Slots : r = tReq[one]
  BY DEF TurnInv, InTurn!TypeOK
<1>2. PICK d \in InTurn!Records : d = tRec
  BY DEF TurnInv, InTurn!TypeOK
<1>3. PICK u \in InTurn!Runs : u = tRun
  BY DEF TurnInv, InTurn!TypeOK
<1>0. PICK h \in SUBSET Columns : h = tByHand
  BY DEF TurnInv, InTurn!TypeOK, Columns
<1>4. TurnGates(u) /\ TurnSlot(r, d, u) /\ (SignedPolicy => StorySlot(r, d, h, u))
  BY <1>0, <1>1, <1>2, <1>3 DEF TurnInv
<1>5. tPool \in [InTurnUsers -> InTurn!Flags] /\ tScheme \in InTurnSchemes /\ <<>> \in Seq(InTurn!Gates)
  BY DEF TurnInv, InTurn!TypeOK
<1>6. ASSUME NEW pc \in InTurn!PCs, NEW x \in InTurnUsers \cup {InTurn!NoOne},
             NEW c \in InTurn!Records \cup {InTurn!NoRec}, NEW a \in InTurn!Runs,
             InTurn!Begin(one, pc, x, c, a), UNCHANGED <<tRec, tByHand, tRun, tPool, tScheme>>,
             pc \in {"selfServe", "submit", "approve", "revision", "withdraw", "edit", "supersede"},
             pc = "selfServe" => tScheme = <<>>,
             pc = "submit" => tScheme # <<>> /\ x \in InTurnUsers,
             pc \in {"submit", "approve", "revision", "edit", "supersede"} => c = d,
             pc = "withdraw" => u.state = "active",
             pc = "supersede" => d.status = InTurn!cfg.final,
             pc = "approve" => a = u /\ u.state = "active" /\ InTurn!MaySign(u, x) /\ x \in InTurnUsers
      PROVE  TurnInv'
  <2>1. PICK s \in InTurnSchemes : s = tScheme
    BY <1>5
  <2>2. PICK n : n = [pc |-> pc, user |-> x, scheme |-> IF pc = "submit" THEN s ELSE <<>>, rec |-> c, run |-> a,
                      gates |-> <<>>]
    OBVIOUS
  <2>3. r.pc = "idle" /\ tReq' = [tReq EXCEPT ![one] = n]
    BY <1>1, <1>6, <2>1, <2>2 DEF InTurn!Begin
  <2>4. n \in InTurn!Slots
    BY <1>5, <2>2 DEF InTurn!Slots
  <2>5. TurnSlot(n, d, u)
    BY <1>6, <2>1, <2>2 DEF TurnSlot
  <2>6. SignedPolicy => StorySlot(n, d, h, u)
    BY <1>4, <1>5, <1>6, <2>2, <2>3 DEF StorySlot, SignedPolicy
  <2> QED BY <1>0, <1>2, <1>3, <1>4, <1>5, <1>6, <2>3, <2>4, <2>5, <2>6, TurnMoves
<1>7. InTurn!NoRun \in InTurn!Runs
  BY <1>5 DEF InTurn!NoRun, InTurn!Runs
<1>8. ASSUME NEW x \in InTurnUsers, InTurn!SubmitStart(one, x) PROVE TurnInv'
  <2>1. PICK pc \in InTurn!PCs : pc = IF tScheme = <<>> THEN "selfServe" ELSE "submit"
    BY DEF InTurn!PCs
  <2>2. PICK a \in InTurn!Runs : a = InTurn!NoRun
    BY <1>7
  <2>3. InTurn!Begin(one, pc, x, d, a) /\ UNCHANGED <<tRec, tByHand, tRun, tPool, tScheme>>
    BY <1>2, <1>8, <2>1, <2>2 DEF InTurn!SubmitStart, InTurn!policy
  <2> QED BY <1>6, <2>1, <2>3
<1>9. ASSUME NEW x \in InTurnUsers, InTurn!ApproveLock(one, x) PROVE TurnInv'
  <2>1. PICK pc \in InTurn!PCs : pc = "approve"
    BY DEF InTurn!PCs
  <2>2. /\ InTurn!Begin(one, pc, x, d, u) /\ UNCHANGED <<tRec, tByHand, tRun, tPool, tScheme>>
        /\ u.state = "active" /\ InTurn!MaySign(u, x)
    BY <1>2, <1>3, <1>9, <2>1 DEF InTurn!ApproveLock, InTurn!policy
  <2> QED BY <1>6, <2>1, <2>2
<1>10. ASSUME NEW x \in InTurnUsers, InTurn!WithdrawStart(one, x) PROVE TurnInv'
  <2>1. PICK pc \in InTurn!PCs : pc = "withdraw"
    BY DEF InTurn!PCs
  <2>2. PICK a \in InTurn!Runs : a = InTurn!NoRun
    BY <1>7
  <2>3. PICK c \in InTurn!Records \cup {InTurn!NoRec} : c = InTurn!NoRec
    OBVIOUS
  <2>4. /\ InTurn!Begin(one, pc, x, c, a) /\ UNCHANGED <<tRec, tByHand, tRun, tPool, tScheme>>
        /\ u.state = "active"
    BY <1>3, <1>10, <2>1, <2>2, <2>3 DEF InTurn!WithdrawStart, InTurn!policy
  <2> QED BY <1>6, <2>1, <2>4
<1>11. ASSUME InTurn!Visit(one) PROVE TurnInv'
  <2>1. PICK pc \in InTurn!PCs :
          /\ pc \in {"revision", "edit", "supersede"}
          /\ pc = "supersede" => d.status = InTurn!cfg.final
          /\ InTurn!Begin(one, pc, InTurn!NoOne, d, InTurn!NoRun)
          /\ UNCHANGED <<tRec, tByHand, tRun, tPool, tScheme>>
    BY <1>2, <1>11 DEF InTurn!Visit, InTurn!RevisionStart, InTurn!EditStart, InTurn!SupersedeStart, InTurn!policy,
       InTurn!PCs
  <2>2. PICK a \in InTurn!Runs : a = InTurn!NoRun
    BY <1>7
  <2>3. PICK x \in InTurnUsers \cup {InTurn!NoOne} : x = InTurn!NoOne
    OBVIOUS
  <2> QED BY <1>6, <2>1, <2>2, <2>3
<1>12. ASSUME UNCHANGED <<tRec, tByHand, tRun, tReq>>, tPool' \in [InTurnUsers -> InTurn!Flags],
              tScheme' \in InTurnSchemes
       PROVE  TurnInv'
  <2>1. tReq' = [tReq EXCEPT ![one] = r]
    BY <1>1, <1>12 DEF TurnInv, InTurn!TypeOK
  <2> QED BY <1>0, <1>2, <1>3, <1>4, <1>12, <2>1, TurnMoves
<1>13. ASSUME NEW x \in InTurnUsers, NEW f \in InTurn!Flags, InTurn!SetPoolMember(x, f) PROVE TurnInv'
  BY <1>5, <1>12, <1>13 DEF InTurn!SetPoolMember, InTurn!policy
<1>14. ASSUME NEW s \in InTurnSchemes, InTurn!SetModuleScheme(s) PROVE TurnInv'
  BY <1>5, <1>12, <1>14 DEF InTurn!SetModuleScheme, InTurn!policy
<1>15. CASE UNCHANGED InTurn!vars
  BY <1>5, <1>12, <1>15 DEF InTurn!vars, InTurn!policy
<1>16. ~InTurn!Crash(one)
  BY DEF InTurn!Crash
<1> QED BY <1>8, <1>9, <1>10, <1>11, <1>13, <1>14, <1>15, <1>16, TurnSteps DEF InTurn!Next, InTurn!Start

LEMMA InTurnWithin == AnsweringBehaviour => InTurn!Spec
<1>1. AnsweringInit => InTurn!Init
  BY DEF AnsweringInit
<1>2. [AnsweringNext]_answering => [InTurn!Next]_(InTurn!vars)
  BY DEF AnsweringNext, answering, inTurn, InTurn!vars, InTurn!policy
<1> QED BY <1>1, <1>2, PTL DEF AnsweringBehaviour, InTurn!Spec

\* While requests come one after the other and nobody may sign two gates of a run, an
\* active run always has somebody who may sign the gate it stands at (buildApproval,
\* approveBlockReason, approve).
THEOREM SomeoneSigns ==
  ASSUME NEW one, InTurnRequests = {one}
  PROVE  AnsweringBehaviour => []SignerInTurn
<1>1. ASSUME TurnInv PROVE SignerInTurn
  <2> SUFFICES ASSUME tRun.state = "active", ~InTurn!SharedGates
               PROVE  \E u \in InTurnUsers : InTurn!MaySign(tRun, u)
    BY DEF SignerInTurn, InTurn!SomeoneMaySign
  <2>1. PICK i \in DOMAIN tRun.gates : i = tRun.gateIdx
    BY <1>1 DEF TurnInv, TurnGates
  <2>2. /\ tRun.gates \in Seq(InTurn!Gates) /\ i \in 1..Len(tRun.gates)
        /\ \A k \in DOMAIN tRun.gates : Proper(tRun.gates[k])
        /\ ~InTurn!GateDone(tRun.gates[i])
        /\ tRun.gates[i].eligible \subseteq InTurnUsers
    <3>1. tRun.gates \in Seq(InTurn!Gates)
      BY <1>1 DEF TurnInv, InTurn!TypeOK, InTurn!Runs
    <3>2. i \in 1..Len(tRun.gates) /\ tRun.gates[i] \in InTurn!Gates
      BY <2>1, <3>1
    <3>3. tRun.gates[i].eligible \subseteq InTurnUsers
      BY <3>2 DEF InTurn!Gates
    <3>4. (\A k \in DOMAIN tRun.gates : Proper(tRun.gates[k])) /\ ~InTurn!GateDone(tRun.gates[i])
      BY <1>1, <2>1 DEF TurnInv, TurnGates
    <3> QED BY <3>1, <3>2, <3>3, <3>4
  <2>3. PICK u \in tRun.gates[i].eligible : u \notin tRun.gates[i].signed
    BY <2>1, <2>2 DEF InTurn!GateDone, Proper
  <2>4. ~InTurn!SignedEarlier(tRun.gates, i, u)
    BY <2>1, <2>2, <2>3 DEF InTurn!SignedEarlier, InTurn!SharedGates, Proper
  <2> QED BY <2>1, <2>2, <2>3, <2>4 DEF InTurn!MaySign
<1> QED BY <1>1, InTurnWithin, TurnInit, TurnNext, PTL DEF InTurn!Spec

\* While requests come one after the other, a policy says, between them, what its run
\* says, but for what an editor put over it last: one of the plain statuses, or an
\* approver (submit, approve, requestRevision, withdraw, updateRecord, publishWithLineage).
THEOREM StatusTells ==
  ASSUME NEW one, InTurnRequests = {one}, SignedPolicy
  PROVE  AnsweringBehaviour => []StatusInTurn
<1>1. ASSUME TurnInv PROVE StatusInTurn
  <2> SUFFICES ASSUME InTurn!Quiet
               PROVE  InTurn!StatusMatchesRun
    BY DEF StatusInTurn, InTurn!StatusMatchesRun
  <2>1. StatusStory(tRec, tByHand, tRun) /\ ApproverStory(tRec, tByHand, tRun)
    BY <1>1 DEF TurnInv, StorySlot, InTurn!Quiet
  <2>2. tRun.state \in {"none", "active", "approved", "returned"}
    BY <1>1 DEF TurnInv, InTurn!TypeOK, InTurn!Runs
  <2>3. tRec.status \in IF "status" \in tByHand THEN InTurn!PlainStatuses ELSE InTurn!RunStatuses
    BY <2>1, <2>2 DEF StatusStory, InTurn!RunStatuses
  <2>4. tRec.approvedBy \in InTurn!RunApprovers \/ "approvedBy" \in tByHand
    BY <2>1, <2>2 DEF ApproverStory, LastSigners, InTurn!RunApprovers
  <2> QED BY <2>3, <2>4 DEF InTurn!StatusMatchesRun
<1> QED BY <1>1, InTurnWithin, TurnInit, TurnNext, PTL DEF InTurn!Spec
=============================================================================
