---------------------------- MODULE ApprovalRun ----------------------------
(***************************************************************************)
(* The approval engine (approvals/approval.service.ts) on one policy: its  *)
(* row, its approval run (the row of approval_records, at most one per     *)
(* record), the approver pool, and the requests in flight.  Two others     *)
(* write the row: an editor's PATCH (implementation.service.ts,            *)
(* updateRecord) and the publication of another version of the policy.     *)
(*                                                                         *)
(* A request is a handler that reads rows, decides, and writes rows; it    *)
(* holds copies of what it read.  Only approve runs in a transaction that  *)
(* locks the run; every other handler issues its statements one by one,    *)
(* and another request may come between any two of them.                   *)
(***************************************************************************)
EXTENDS Naturals, FiniteSets, Sequences, Sequelize

CONSTANTS
  Users,         \* active users of the organization
  Requests,      \* requests that may be in flight at once
  Schemes,       \* schemes the module may be assigned: the pool of each gate;
                 \* <<>> is self-serve
  Pools,         \* the pools an administrator may set up
  SelfApproval,  \* the organization's selfApprovalAllowed
  OneSubmit,     \* TRUE: nobody submits the record twice at once
  Crashes        \* TRUE: the process may die between two statements

NoOne == "no one"
Unset == "unset"

\* mst: in the MS Team, as a required or an optional signer; tm: in Top
\* Management, with the final say or without.
Flags == [mst : {"no", "required", "optional"}, tm : {"no", "member", "final"}]

ASSUME ConstantsAssumption ==
  /\ NoOne \notin Users /\ Unset \notin Users
  /\ Schemes \subseteq Seq({"mst", "top"})
  /\ Pools \subseteq [Users -> Flags]
  /\ {SelfApproval, OneSubmit, Crashes} \subseteq BOOLEAN

VARIABLES
  rec,    \* the row of the policy: status, approvedBy
  byHand, \* the columns of rec an editor set last (history)
  run,    \* the approval run; state "none" is no row
  pool,   \* pool[u]: the flags of user u
  scheme, \* the scheme the module is assigned
  req     \* req[q]: the request in slot q

policy == <<rec, byHand>>
vars == <<policy, run, pool, scheme, req>>

\* GOVERNED.policies.
cfg == [submit |-> "Under Review", mid |-> "Pending Final Approval", final |-> "Published",
        revision |-> "Needs Revision", draft |-> "Draft"]

\* The statuses of a policy outside APPROVAL_CONTROLLED_STATUSES: those a PATCH may set.
PlainStatuses == {"Draft", "Archived"}

Gates == [eligible : SUBSET Users, required : SUBSET Users, signed : SUBSET Users,
          author : Users]

NoRun == [state |-> "none", gateIdx |-> 1, gates |-> <<>>]

NoRec == [status |-> "none", approvedBy |-> Unset]

NewRec == [status |-> cfg.draft, approvedBy |-> Unset]

Differing(old, new) == {f \in {"status", "approvedBy"} : new[f] # old[f]}

Idle == [pc |-> "idle", user |-> NoOne, scheme |-> <<>>, rec |-> NoRec, run |-> NoRun,
         gates |-> <<>>]

InPool(p, name) ==
  {u \in Users : IF name = "mst" THEN p[u].mst # "no" ELSE p[u].tm # "no"}

\* poolMembers: the signers a gate waits for, all members when none is marked.
RequiredIn(p, name) ==
  LET marked == {u \in Users : IF name = "mst" THEN p[u].mst = "required"
                                                ELSE p[u].tm = "final"}
  IN IF marked = {} THEN InPool(p, name) ELSE marked

\* buildApproval: the gates of a run, resolved against the pool and frozen.
BuildApproval(p, s, author) ==
  [i \in 1..Len(s) |-> [eligible |-> InPool(p, s[i]), required |-> RequiredIn(p, s[i]),
                        signed |-> {}, author |-> author]]

GateDone(g) == g.required \subseteq g.signed /\ (g.required # {} \/ g.signed # {})

Sign(g, u) == [g EXCEPT !.signed = @ \cup {u}]

\* Mutant: the last gate is one too far.
LastGateOffByOne(r) == r.gateIdx > Len(r.gates)

LastGate(r) == r.gateIdx >= Len(r.gates)

SignedEarlier(gates, i, u) == \E k \in 1..(i - 1) : u \in gates[k].signed

\* Mutant: signing an earlier gate does not matter.
MaySignTwice(r, u) ==
  LET g == r.gates[r.gateIdx]
  IN u \in g.eligible /\ u \notin g.signed /\ (g.author = u => SelfApproval)

\* Mutant: the author never signs, whatever the organization allows.
MaySignNeverAuthor(r, u) ==
  LET g == r.gates[r.gateIdx]
  IN /\ u \in g.eligible \ g.signed
     /\ g.author # u
     /\ SignedEarlier(r.gates, r.gateIdx, u) => g.eligible \ g.signed = {u}

\* approveBlockReason = null: the user may sign the gate the run stands at.
MaySign(r, u) ==
  LET g == r.gates[r.gateIdx]
  IN /\ u \in g.eligible
     /\ u \notin g.signed
     /\ g.author = u => SelfApproval
     /\ SignedEarlier(r.gates, r.gateIdx, u) => g.eligible \ g.signed = {u}

\* ensurePoolDefaults fills a pool that was never set up: one user (an earliest
\* administrator, if there is one) as required MS Team member, another, when
\* there is one, as Top Management with the final say.
DefaultPool(first, second) ==
  [u \in Users |-> [mst |-> IF u = first THEN "required" ELSE "no",
                    tm |-> IF u = second /\ second # first THEN "final" ELSE "no"]]

\* (A pool without members may also have rows whose flags were all taken away:
\* it counts as set up.)
EnsuredPool(p) ==
  {p} \cup IF \E u \in Users : p[u] # [mst |-> "no", tm |-> "no"]
           THEN {}
           ELSE {DefaultPool(x[1], x[2]) :
                   x \in {y \in Users \X Users : y[1] # y[2] \/ Users = {y[1]}}}

\* The lock approve holds on the run from its SELECT ... FOR UPDATE to commit.
Locked == \E q \in Requests : req[q].pc = "approve"

Submitting == {q \in Requests : req[q].pc \in {"submit", "submitRun", "submitRec"}}

\* A request starts with what it holds from its first read. (A copy that is not
\* looked at again is not kept.)
Begin(q, pc, u, loadedRec, loadedRun) ==
  /\ req[q].pc = "idle"
  /\ req' = [req EXCEPT ![q] = [pc |-> pc, user |-> u, scheme |-> IF pc = "submit" THEN scheme ELSE <<>>,
                               rec |-> loadedRec, run |-> loadedRun, gates |-> <<>>]]

End(q) == req' = [req EXCEPT ![q] = Idle]

\* The engine saves the row: what it changes is no longer an editor's.
SaveRow(new) == rec' = new /\ byHand' = byHand \ Differing(rec, new)

-----------------------------------------------------------------------------
\* A policy is created with a plain status and whatever data the client sends.
Init ==
  /\ rec \in [status : PlainStatuses, approvedBy : Users \cup {Unset}]
  /\ byHand = Differing(NewRec, rec)
  /\ run = NoRun
  /\ pool \in Pools
  /\ scheme \in Schemes
  /\ req = [q \in Requests |-> Idle]

\* submit, up to the read of the record and of the scheme.
SubmitStart(q, u) ==
  /\ OneSubmit => Submitting = {}
  /\ Begin(q, IF scheme = <<>> THEN "selfServe" ELSE "submit", u, rec, NoRun)
  /\ UNCHANGED <<policy, run, pool, scheme>>

\* A self-serve scheme publishes at once.
SelfServe(q) ==
  /\ req[q].pc = "selfServe"
  /\ SaveRow([status |-> Changed(rec.status, req[q].rec.status, cfg.final),
              approvedBy |-> req[q].user])
  /\ End(q)
  /\ UNCHANGED <<run, pool, scheme>>

\* The gates are resolved, then the existing run is looked up: POOL_EMPTY and
\* ALREADY_SUBMITTED end the request here.
SubmitCheck(q) ==
  /\ req[q].pc = "submit"
  /\ \E p \in EnsuredPool(pool) :
       LET gates == BuildApproval(p, req[q].scheme, req[q].user)
       IN /\ pool' = p
          /\ IF (\E i \in DOMAIN gates : gates[i].eligible = {}) \/ run.state = "active"
               THEN End(q)
               ELSE req' = [req EXCEPT ![q].pc = "submitRun", ![q].scheme = <<>>,
                                       ![q].run = run, ![q].gates = gates]
  /\ UNCHANGED <<policy, run, scheme>>

\* ar.save() of a new row: the unique index of approval_records refuses a
\* second one, and the request fails.
SubmitInsert(q) ==
  /\ req[q].pc = "submitRun"
  /\ req[q].run.state = "none"
  /\ IF run.state = "none"
       THEN /\ run' = [state |-> "active", gateIdx |-> 1, gates |-> req[q].gates]
            /\ req' = [req EXCEPT ![q].pc = "submitRec", ![q].gates = <<>>]
       ELSE End(q) /\ UNCHANGED run
  /\ UNCHANGED <<policy, pool, scheme>>

\* ar.save() of the run found by the look-up: the columns that differ from
\* what the look-up saw. A row destroyed meanwhile is updated nowhere.
SubmitUpdate(q) ==
  /\ req[q].pc = "submitRun"
  /\ req[q].run.state # "none"
  /\ ~Locked
  /\ run' = IF run.state = "none" THEN run ELSE
       [state   |-> Changed(run.state, req[q].run.state, "active"),
        gateIdx |-> Changed(run.gateIdx, req[q].run.gateIdx, 1),
        gates   |-> Changed(run.gates, req[q].run.gates, req[q].gates)]
  /\ req' = [req EXCEPT ![q].pc = "submitRec", ![q].run = NoRun, ![q].gates = <<>>]
  /\ UNCHANGED <<policy, pool, scheme>>

\* Mutant: the outcome of an earlier run is kept.
SubmitKeepsOutcome(q) ==
  /\ req[q].pc = "submitRec"
  /\ SaveRow([rec EXCEPT !.status = Changed(@, req[q].rec.status, cfg.submit)])
  /\ End(q)
  /\ UNCHANGED <<run, pool, scheme>>

\* The status, and the outcome of an earlier run cleared.
SubmitSaveRec(q) ==
  /\ req[q].pc = "submitRec"
  /\ SaveRow([status |-> Changed(rec.status, req[q].rec.status, cfg.submit),
              approvedBy |-> Changed(rec.approvedBy, req[q].rec.approvedBy, NoOne)])
  /\ End(q)
  /\ UNCHANGED <<run, pool, scheme>>

\* Mutant: the run is read without FOR UPDATE.
ApproveUnlocked(q, u) ==
  /\ run.state = "active"
  /\ MaySign(run, u)
  /\ Begin(q, "approve", u, rec, run)
  /\ UNCHANGED <<policy, run, pool, scheme>>

\* approve: the run is locked, then the record read and the signer checked.
ApproveLock(q, u) ==
  /\ run.state = "active"
  /\ ~Locked
  /\ MaySign(run, u)
  /\ Begin(q, "approve", u, rec, run)
  /\ UNCHANGED <<policy, run, pool, scheme>>

\* The rest of the transaction, committed as one.
ApproveCommit(q) ==
  LET r     == req[q].run
      gates == [r.gates EXCEPT ![r.gateIdx] = Sign(@, req[q].user)]
      done  == GateDone(gates[r.gateIdx])
      final == done /\ LastGate(r)
  IN /\ req[q].pc = "approve"
     /\ run' = [state   |-> IF final THEN "approved" ELSE "active",
                gateIdx |-> IF done /\ ~final THEN r.gateIdx + 1 ELSE r.gateIdx,
                gates   |-> gates]
     /\ SaveRow(IF ~done THEN rec ELSE
          [status |-> Changed(rec.status, req[q].rec.status,
                              IF final THEN cfg.final ELSE cfg.mid),
           approvedBy |-> IF final THEN req[q].user ELSE rec.approvedBy])
     /\ End(q)
     /\ UNCHANGED <<pool, scheme>>

\* requestRevision: no condition on the record or the run.
RevisionStart(q) ==
  /\ Begin(q, "revision", NoOne, rec, NoRun)
  /\ UNCHANGED <<policy, run, pool, scheme>>

\* With a comment, the whole data blob is written back as it was read.
RevisionSaveRec(q) ==
  /\ req[q].pc = "revision"
  /\ \E comment \in BOOLEAN :
       SaveRow([status |-> Changed(rec.status, req[q].rec.status, cfg.revision),
                approvedBy |-> IF comment THEN req[q].rec.approvedBy ELSE rec.approvedBy])
  /\ req' = [req EXCEPT ![q].pc = "revisionRun", ![q].rec = NoRec]
  /\ UNCHANGED <<run, pool, scheme>>

RevisionReturn(q) ==
  /\ req[q].pc = "revisionRun"
  /\ ~Locked
  /\ run' = IF run.state = "none" THEN run ELSE [run EXCEPT !.state = "returned"]
  /\ End(q)
  /\ UNCHANGED <<policy, pool, scheme>>

\* withdraw: by the author, before any sign-off. The run is read without a lock.
WithdrawStart(q, u) ==
  /\ run.state = "active"
  /\ run.gates[1].author = u
  /\ \A i \in DOMAIN run.gates : run.gates[i].signed = {}
  /\ Begin(q, "withdraw", u, NoRec, NoRun)
  /\ UNCHANGED <<policy, run, pool, scheme>>

WithdrawReadRec(q) ==
  /\ req[q].pc = "withdraw"
  /\ req' = [req EXCEPT ![q].pc = "withdrawRec", ![q].rec = rec]
  /\ UNCHANGED <<policy, run, pool, scheme>>

WithdrawSaveRec(q) ==
  /\ req[q].pc = "withdrawRec"
  /\ SaveRow([rec EXCEPT !.status = Changed(@, req[q].rec.status, cfg.draft)])
  /\ req' = [req EXCEPT ![q].pc = "withdrawRun", ![q].rec = NoRec]
  /\ UNCHANGED <<run, pool, scheme>>

WithdrawDestroy(q) ==
  /\ req[q].pc = "withdrawRun"
  /\ ~Locked
  /\ run' = NoRun
  /\ End(q)
  /\ UNCHANGED <<policy, pool, scheme>>

\* updateRecord: a PATCH of the policy itself, whatever its run.
EditStart(q) ==
  /\ Begin(q, "edit", NoOne, rec, NoRun)
  /\ UNCHANGED <<policy, run, pool, scheme>>

\* It may set a plain status, and with `data` the whole column, approvedBy in it. (With
\* `data` it forks a policy that it read Published, and leaves this row alone.)
EditSave(q) ==
  LET old == req[q].rec IN
  /\ req[q].pc = "edit"
  /\ \E s \in {old.status} \cup PlainStatuses, data \in BOOLEAN, who \in Users \cup {Unset} :
       /\ data => old.status # cfg.final
       /\ rec' = [status |-> Changed(rec.status, old.status, s),
                  approvedBy |-> IF data THEN who ELSE rec.approvedBy]
  /\ byHand' = byHand \cup Differing(rec, rec')
  /\ End(q)
  /\ UNCHANGED <<run, pool, scheme>>

\* publishWithLineage of another version: this one, found Published, is superseded.
SupersedeStart(q) ==
  /\ rec.status = cfg.final
  /\ Begin(q, "supersede", NoOne, rec, NoRun)
  /\ UNCHANGED <<policy, run, pool, scheme>>

SupersedeSave(q) ==
  /\ req[q].pc = "supersede"
  /\ SaveRow([status |-> "Superseded", approvedBy |-> req[q].rec.approvedBy])
  /\ End(q)
  /\ UNCHANGED <<run, pool, scheme>>

\* The process dies: what was committed stays, the transaction of approve and
\* its lock are gone.
Crash(q) ==
  /\ Crashes
  /\ req[q].pc # "idle"
  /\ End(q)
  /\ UNCHANGED <<policy, run, pool, scheme>>

\* setPoolMember: one user's flags. Leaving Top Management clears the final say
\* (the three values of tm hold no other combination).
SetPoolMember(u, f) ==
  /\ pool' = [pool EXCEPT ![u] = f]
  /\ pool' # pool /\ pool' \in Pools
  /\ UNCHANGED <<policy, run, scheme, req>>

\* setModuleScheme, and deleteScheme, which falls back to the default: the runs
\* under way keep their gates.
SetModuleScheme(s) ==
  /\ s # scheme
  /\ scheme' = s
  /\ UNCHANGED <<policy, run, pool, req>>

-----------------------------------------------------------------------------
Step(q) ==
  \/ SelfServe(q) \/ SubmitCheck(q) \/ SubmitInsert(q) \/ SubmitUpdate(q)
  \/ SubmitSaveRec(q) \/ ApproveCommit(q) \/ RevisionSaveRec(q) \/ RevisionReturn(q)
  \/ WithdrawReadRec(q) \/ WithdrawSaveRec(q) \/ WithdrawDestroy(q)
  \/ EditSave(q) \/ SupersedeSave(q)

Visit(q) == RevisionStart(q) \/ EditStart(q) \/ SupersedeStart(q)

Start(q, u) ==
  SubmitStart(q, u) \/ ApproveLock(q, u) \/ WithdrawStart(q, u)

Next ==
  \/ \E q \in Requests : Step(q) \/ Visit(q) \/ Crash(q) \/ \E u \in Users : Start(q, u)
  \/ \E u \in Users, f \in Flags : SetPoolMember(u, f)
  \/ \E s \in Schemes : SetModuleScheme(s)

Spec == Init /\ [][Next]_vars

-----------------------------------------------------------------------------
Runs == [state : {"none", "active", "approved", "returned"}, gateIdx : Nat,
         gates : Seq(Gates)]

Records == [status : {cfg.submit, cfg.mid, cfg.final, cfg.revision, "Superseded"} \cup PlainStatuses,
            approvedBy : Users \cup {NoOne, Unset}]

PCs == {"idle", "selfServe", "submit", "submitRun", "submitRec", "approve", "revision",
        "revisionRun", "withdraw", "withdrawRec", "withdrawRun", "edit", "supersede"}

Slots == [pc : PCs, user : Users \cup {NoOne}, scheme : Schemes \cup {<<>>},
          rec : Records \cup {NoRec}, run : Runs, gates : Seq(Gates)]

TypeOK ==
  /\ rec \in Records
  /\ byHand \subseteq {"status", "approvedBy"}
  /\ run \in Runs
  /\ pool \in [Users -> Flags]
  /\ scheme \in Schemes
  /\ req \in [Requests -> Slots]
  /\ run.state # "none" => run.gateIdx \in DOMAIN run.gates

(***************************************************************************)
(* Safety under any interleaving of requests and any crash, while nobody   *)
(* submits the record twice at once (OneSubmit).                           *)
(***************************************************************************)

\* Separation of duties, in whatever order approvers act and however the pool
\* changes after submission: somebody who signed two gates of a run signed the
\* later one last, when no other signer of it was left; only signers frozen at
\* submission sign, and the author never does where self-approval is off.
SeparationOfDuties ==
  \A k \in DOMAIN run.gates :
    LET g == run.gates[k]
    IN /\ g.signed \subseteq g.eligible
       /\ g.author \in g.signed => SelfApproval
       /\ \A u \in g.signed : SignedEarlier(run.gates, k, u) => g.eligible \subseteq g.signed

\* MS Team first, then Top Management: a run stands at a gate, or is approved,
\* only when every gate before has all the sign-offs it requires, and no later
\* gate has any.
Complete(g) == g.required \subseteq g.signed /\ g.signed # {}

GatesInOrder ==
  /\ \A k \in DOMAIN run.gates :
       /\ k < run.gateIdx => Complete(run.gates[k])
       /\ k > run.gateIdx => run.gates[k].signed = {}
  /\ run.state = "approved" => run.gateIdx = Len(run.gates) /\ Complete(run.gates[Len(run.gates)])

\* Who signs and in which order, together.
RightSigners == SeparationOfDuties /\ GatesInOrder

\* A sign-off given to an active run is never lost while the run stays active:
\* no other approver's write is built on a stale snapshot of the gates.
SignoffsKept ==
  [][run.state = "active" /\ run'.state \in {"active", "approved"} =>
       /\ run'.gateIdx >= run.gateIdx
       /\ \A k \in DOMAIN run.gates : run.gates[k].signed \subseteq run'.gates[k].signed]_vars

\* An open run is a frozen snapshot: administrators who change the pool or the
\* scheme of the module change neither its gates nor who may or must sign them.
FrozenGates ==
  [][run.state = "active" /\ run'.state \in {"active", "approved"} =>
       /\ DOMAIN run'.gates = DOMAIN run.gates
       /\ \A k \in DOMAIN run.gates :
            [run'.gates[k] EXCEPT !.signed = {}] = [run.gates[k] EXCEPT !.signed = {}]]_vars

\* What an open run holds, it keeps.
RunKept == SignoffsKept /\ FrozenGates

(***************************************************************************)
(* Requests one after the other: the record and its run tell one story.    *)
(***************************************************************************)
Quiet == \A q \in Requests : req[q].pc = "idle"

\* The statuses the run accounts for, and whom it lets approvedBy name.
RunStatuses ==
  CASE run.state = "active" -> {IF run.gateIdx = 1 THEN cfg.submit ELSE cfg.mid}
    [] run.state = "approved" -> {cfg.final, "Superseded"}
    [] run.state = "returned" -> {cfg.revision}
    [] run.state = "none" -> {cfg.draft, cfg.revision}

RunApprovers ==
  LET last == IF run.gates = <<>> THEN {} ELSE run.gates[Len(run.gates)].signed
  IN CASE run.state = "approved" -> last
       [] run.state = "returned" -> last \cup {NoOne, Unset}
       [] OTHER -> {NoOne, Unset}

\* Between requests a policy says what its run says: what the engine writes last agrees
\* with the run, and names as approver only a signer of its last gate. An editor may put
\* over it the two plain statuses, never one of the workflow, and with the data any
\* approver.
StatusMatchesRun ==
  Quiet =>
    /\ rec.status \in IF "status" \in byHand THEN PlainStatuses ELSE RunStatuses
    /\ rec.approvedBy \in RunApprovers \/ "approvedBy" \in byHand

\* An active run can go on, through revisions, withdrawals and changes of the pool,
\* unless one user may sign at two of its gates: somebody may sign the gate it stands
\* at. (Two users who share both pools may jam it. So may an author who is the only
\* signer of a gate where selfApprovalAllowed is off: the claim is for SelfApproval.)
SharedGates ==
  \E k, l \in DOMAIN run.gates : k # l /\ run.gates[k].eligible \cap run.gates[l].eligible # {}

SomeoneMaySign ==
  SelfApproval /\ run.state = "active" /\ ~Locked /\ ~SharedGates => \E u \in Users : MaySign(run, u)

(***************************************************************************)
(* What the code says of itself and races refute.                          *)
(***************************************************************************)

\* "MS Team reviews first, then Top Management gives the final sign-off that
\* publishes": an approved run has every gate done.
EveryGateSigned ==
  run.state = "approved" => \A k \in DOMAIN run.gates : Complete(run.gates[k])
=============================================================================
