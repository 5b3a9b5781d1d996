---------------------------- MODULE SaasPipeline ----------------------------
(***************************************************************************)
(* The SaaS sales pipeline (saas/saas.service.ts, pipeline.transitions.ts):*)
(* from a quote to a provisioned tenant.                                   *)
(*                                                                         *)
(* The plain edits (accept, decline, registration, proof) read the entry,  *)
(* check its stage and save it, without a lock.  Verifying a payment is a  *)
(* transaction that locks the row; it chains into provisioning, a second   *)
(* transaction that locks the row again.  A provisioning that fails is     *)
(* recorded by a third, unlocked read and save.                            *)
(***************************************************************************)
EXTENDS Naturals, Sequelize

CONSTANTS
  Entries,   \* pipeline entries
  Requests,  \* requests that may be in flight at once
  Crashes    \* whether the server may die in the middle of a request

NoEntry == "no entry"

ASSUME PipelineAssumption == NoEntry \notin Entries /\ Crashes \in BOOLEAN

VARIABLES
  entry,    \* entry[e]: the row: its stage, its payment's state, and whether it carries tenantId and subId
  tenants,  \* tenants[e]: tenant organizations created for e
  subs,     \* subs[e]: subscriptions created for e
  stale,    \* stale[e]: history: some save of e was made over a row that had changed since it was read
  req       \* req[q]: the request in slot q

vars == <<entry, tenants, subs, stale, req>>

\* op: the plain edit asked for; stage: the stage read by the request.
Idle == [pc |-> "idle", entry |-> NoEntry, op |-> "none", stage |-> "absent"]

\* A request that died: its slot is not used again.
Dead == [pc |-> "crashed", entry |-> NoEntry, op |-> "none", stage |-> "absent"]

Absent == [stage |-> "absent", pay |-> "none", linked |-> FALSE]

PlainEdits == {"accept", "decline", "saveRegistration", "uploadProof"}

\* SAAS_PIPE_TRANSITIONS: the actions legal at a stage. "Accepted" and "Verified" are
\* stages nothing writes.
Allowed(stage) ==
  CASE stage = "Quote Sent" -> {"accept", "decline"}
    [] stage = "Registration" -> {"saveRegistration"}
    [] stage = "Awaiting Transfer" -> {"uploadProof"}
    [] stage = "Under Verification" -> {"verifyPayment"}
    [] stage = "Provisioning Failed" -> {"provision"}
    [] OTHER -> {}

\* What each plain edit writes.
StageAfter(op) ==
  CASE op = "accept" -> "Registration"
    [] op = "decline" -> "Declined"
    [] op = "saveRegistration" -> "Awaiting Transfer"
    [] op = "uploadProof" -> "Under Verification"

\* The payment column is left alone by accept and decline.
PaymentAfter(op, pay) ==
  CASE op = "saveRegistration" -> "Awaiting Transfer"
    [] op = "uploadProof" -> "Under Verification"
    [] OTHER -> pay

\* The row is locked by a transaction in flight. SELECT ... FOR UPDATE and UPDATE wait.
RowLocked(e) == \E q \in Requests : req[q].pc \in {"verifying", "provisioning"} /\ req[q].entry = e

Move(q, r) == req' = [req EXCEPT ![q] = r]

At(q, pc) == [pc |-> pc, entry |-> req[q].entry, op |-> req[q].op, stage |-> req[q].stage]

-----------------------------------------------------------------------------
Init ==
  /\ entry = [e \in Entries |-> Absent]
  /\ tenants = [e \in Entries |-> 0]
  /\ subs = [e \in Entries |-> 0]
  /\ stale = [e \in Entries |-> FALSE]
  /\ req = [q \in Requests |-> Idle]

\* createPipelineQuote: no tenant yet, whatever the type of the request.
CreateQuote(e) ==
  /\ entry[e] = Absent
  /\ entry' = [entry EXCEPT ![e] = [stage |-> "Quote Sent", pay |-> "none", linked |-> FALSE]]
  /\ UNCHANGED <<tenants, subs, stale, req>>

\* acceptPipelineQuote, declinePipelineQuote, saveRegistration, uploadPaymentProof, up
\* to the stage check.
LoadEdit(q, e, op) ==
  /\ req[q].pc = "idle"
  /\ op \in Allowed(entry[e].stage)
  /\ Move(q, [pc |-> "loaded", entry |-> e, op |-> op, stage |-> entry[e].stage])
  /\ UNCHANGED <<entry, tenants, subs, stale>>

\* Their save: every one of them writes a stage other than the one it read.
SaveEdit(q) ==
  LET e == req[q].entry
      op == req[q].op
  IN /\ req[q].pc = "loaded"
     /\ ~RowLocked(e)
     /\ entry' = [entry EXCEPT ![e] = [stage |-> StageAfter(op),
                                       pay |-> PaymentAfter(op, entry[e].pay),
                                       linked |-> entry[e].linked]]
     /\ stale' = [stale EXCEPT ![e] = stale[e] \/ entry[e].stage # req[q].stage]
     /\ Move(q, Idle)
     /\ UNCHANGED <<tenants, subs>>

\* Mutant: a payment verified already may be verified, or rejected, again.
LockVerifyAgain(q, e) ==
  /\ req[q].pc = "idle"
  /\ ~RowLocked(e)
  /\ "verifyPayment" \in Allowed(entry[e].stage)
  /\ Move(q, [pc |-> "verifying", entry |-> e, op |-> "none", stage |-> entry[e].stage])
  /\ UNCHANGED <<entry, tenants, subs, stale>>

\* verifyPayment: the row is read under FOR UPDATE and checked.
LockVerify(q, e) ==
  /\ req[q].pc = "idle"
  /\ ~RowLocked(e)
  /\ "verifyPayment" \in Allowed(entry[e].stage)
  /\ entry[e].pay # "Verified"
  /\ Move(q, [pc |-> "verifying", entry |-> e, op |-> "none", stage |-> entry[e].stage])
  /\ UNCHANGED <<entry, tenants, subs, stale>>

\* Mutant: the stage rests at Verified.
CommitVerifiedStage(q) ==
  LET e == req[q].entry
  IN /\ req[q].pc = "verifying"
     /\ entry' = [entry EXCEPT ![e] = [stage |-> "Verified", pay |-> "Verified", linked |-> entry[e].linked]]
     /\ Move(q, At(q, "provision"))
     /\ UNCHANGED <<tenants, subs, stale>>

\* Mutant: verifying ends there, provisioning is left to somebody else.
CommitVerifiedOnly(q) ==
  LET e == req[q].entry
  IN /\ req[q].pc = "verifying"
     /\ entry' = [entry EXCEPT ![e] = [stage |-> entry[e].stage, pay |-> "Verified",
                                       linked |-> entry[e].linked]]
     /\ Move(q, Idle)
     /\ UNCHANGED <<tenants, subs, stale>>

\* Verified: the stage stays where it is, and the request goes on to provisioning.
CommitVerified(q) ==
  LET e == req[q].entry
  IN /\ req[q].pc = "verifying"
     /\ entry' = [entry EXCEPT ![e] = [stage |-> entry[e].stage, pay |-> "Verified",
                                       linked |-> entry[e].linked]]
     /\ Move(q, At(q, "provision"))
     /\ UNCHANGED <<tenants, subs, stale>>

\* Rejected: back to Awaiting Transfer, for a new proof.
CommitRejected(q) ==
  LET e == req[q].entry
  IN /\ req[q].pc = "verifying"
     /\ entry' = [entry EXCEPT ![e] = [stage |-> "Awaiting Transfer", pay |-> "Rejected",
                                       linked |-> entry[e].linked]]
     /\ Move(q, Idle)
     /\ UNCHANGED <<tenants, subs, stale>>

\* provisionPipeline: Retry, from a stage read without a lock.
Retry(q, e) ==
  /\ req[q].pc = "idle"
  /\ "provision" \in Allowed(entry[e].stage)
  /\ Move(q, [pc |-> "provision", entry |-> e, op |-> "none", stage |-> entry[e].stage])
  /\ UNCHANGED <<entry, tenants, subs, stale>>

\* runProvisioning, first read: a payment that is not Verified is refused.
CheckPayment(q) ==
  /\ req[q].pc = "provision"
  /\ Move(q, IF entry[req[q].entry].pay = "Verified" THEN At(q, "paid") ELSE Idle)
  /\ UNCHANGED <<entry, tenants, subs, stale>>

\* Mutant: what a concurrent request did meanwhile is not looked at.
LockProvisionBlind(q) ==
  /\ req[q].pc = "paid"
  /\ ~RowLocked(req[q].entry)
  /\ Move(q, At(q, "provisioning"))
  /\ UNCHANGED <<entry, tenants, subs, stale>>

\* The provisioning transaction, up to its check: an entry that a concurrent request
\* provisioned while this one waited for the row is left as it is.
LockProvision(q) ==
  LET e == req[q].entry
  IN /\ req[q].pc = "paid"
     /\ ~RowLocked(e)
     /\ Move(q, IF entry[e].linked \/ entry[e].stage = "Completed" THEN Idle ELSE At(q, "provisioning"))
     /\ UNCHANGED <<entry, tenants, subs, stale>>

\* Tenant, subscription, workspaces and the entry that names them: one commit.
CommitProvision(q) ==
  LET e == req[q].entry
  IN /\ req[q].pc = "provisioning"
     /\ entry' = [entry EXCEPT ![e] = [stage |-> "Completed", pay |-> entry[e].pay, linked |-> TRUE]]
     /\ tenants' = [tenants EXCEPT ![e] = tenants[e] + 1]
     /\ subs' = [subs EXCEPT ![e] = subs[e] + 1]
     /\ Move(q, Idle)
     /\ UNCHANGED stale

\* A statement of the transaction fails, its first one included: it is rolled back.
FailProvision(q) ==
  /\ req[q].pc \in {"paid", "provisioning"}
  /\ Move(q, At(q, "failed"))
  /\ UNCHANGED <<entry, tenants, subs, stale>>

\* recordProvisioningFailure reads the entry again ...
LoadFailure(q) ==
  /\ req[q].pc = "failed"
  /\ Move(q, [pc |-> "recording", entry |-> req[q].entry, op |-> "none", stage |-> entry[req[q].entry].stage])
  /\ UNCHANGED <<entry, tenants, subs, stale>>

\* ... and saves it, whatever its stage is by now. An entry that another request has
\* completed since the transaction was rolled back counts as changed.
SaveFailure(q) ==
  LET e == req[q].entry
      s == Changed(entry[e].stage, req[q].stage, "Provisioning Failed")
  IN /\ req[q].pc = "recording"
     /\ ~RowLocked(e)
     /\ entry' = [entry EXCEPT ![e] = [stage |-> s, pay |-> entry[e].pay, linked |-> entry[e].linked]]
     /\ stale' = [stale EXCEPT ![e] = stale[e] \/ entry[e].linked \/ entry[e].stage # req[q].stage]
     /\ Move(q, Idle)
     /\ UNCHANGED <<tenants, subs>>

\* The server dies, or a statement outside the transactions fails: what was not committed is gone, and so is the request.
Crash(q) ==
  /\ Crashes
  /\ req[q].pc \notin {"idle", "crashed"}
  /\ Move(q, Dead)
  /\ UNCHANGED <<entry, tenants, subs, stale>>

-----------------------------------------------------------------------------
\* The steps of a request under way; verifying ends as the reviewer decided.
Proceed(q) ==
  \/ SaveEdit(q) \/ CommitVerified(q) \/ CommitRejected(q) \/ CheckPayment(q) \/ LockProvision(q)
  \/ CommitProvision(q) \/ FailProvision(q) \/ LoadFailure(q) \/ SaveFailure(q)

Next ==
  \/ \E e \in Entries : CreateQuote(e)
  \/ \E q \in Requests :
       \/ \E e \in Entries :
            \/ \E op \in PlainEdits : LoadEdit(q, e, op)
            \/ LockVerify(q, e) \/ Retry(q, e)
       \/ Proceed(q) \/ Crash(q)

Spec == Init /\ [][Next]_vars

\* A request under way goes on unless the server dies, and PostgreSQL grants a row
\* lock to those who wait for it in turn.
FairSpec == Spec /\ \A q \in Requests : SF_vars(Proceed(q))

-----------------------------------------------------------------------------
Stages == {"absent", "Quote Sent", "Registration", "Awaiting Transfer", "Under Verification",
           "Completed", "Provisioning Failed", "Declined"}

Slots == [pc : {"idle", "crashed", "loaded", "verifying", "provision", "paid", "provisioning",
                "failed", "recording"},
          entry : Entries \cup {NoEntry}, op : PlainEdits \cup {"none"}, stage : Stages]

TypeOK ==
  /\ entry \in [Entries -> [stage : Stages, linked : BOOLEAN,
                            pay : {"none", "Awaiting Transfer", "Under Verification", "Verified", "Rejected"}]]
  /\ tenants \in [Entries -> Nat]
  /\ subs \in [Entries -> Nat]
  /\ stale \in [Entries -> BOOLEAN]
  /\ req \in [Requests -> Slots]
  /\ \A q \in Requests : req[q].pc \notin {"idle", "crashed"} => req[q].entry \in Entries
  /\ \A q \in Requests : req[q].pc = "loaded" => req[q].op \in PlainEdits

\* However often a payment is verified and provisioning retried, and whatever dies or
\* is saved late: an entry gets one tenant and one subscription, both or neither, and
\* carries their ids exactly then.
ProvisionedOnce ==
  \A e \in Entries :
    /\ tenants[e] = subs[e]
    /\ subs[e] = IF entry[e].linked THEN 1 ELSE 0

\* A completed entry was provisioned, and its payment is one that finance verified and
\* nobody has turned down since, unless an edit was saved over a row it had not read.
CompletedPaid ==
  \A e \in Entries :
    entry[e].stage = "Completed" => entry[e].linked /\ (stale[e] \/ entry[e].pay = "Verified")

Quiet(e) == \A q \in Requests : req[q].entry # e

Resolved(e) ==
  \/ entry[e].stage = "Completed" /\ entry[e].linked
  \/ entry[e].stage = "Provisioning Failed" /\ ~entry[e].linked

\* "the failure is visible and retryable rather than thrown away": with no request at
\* work on it, an entry that is paid is provisioned, or stands where Retry is offered
\* and would do something.
Retryable == \A e \in Entries : Quiet(e) /\ entry[e].pay = "Verified" => Resolved(e)

\* The same where it holds: as long as no request died and no save was stale.
NobodyDied == \A q \in Requests : req[q].pc # "crashed"
RetryableUndisturbed ==
  \A e \in Entries : NobodyDied /\ ~stale[e] /\ Quiet(e) /\ entry[e].pay = "Verified" => Resolved(e)

\* What is paid for is provisioned or can be retried, and nothing else is completed.
PaidIsProvisioned == CompletedPaid /\ RetryableUndisturbed

\* A verified payment leads to a provisioned tenant or to Retry, in the request that
\* verified it, as long as that request does not die.
VerifiedIsResolved ==
  \A e \in Entries :
    entry[e].pay = "Verified" ~> Resolved(e) \/ ~NobodyDied \/ stale[e]
=============================================================================
