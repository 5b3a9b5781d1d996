# A formal model of the VIBES API

VIBES (OmniTenant) is a compliance-management product: an Express API
(`src/src/server.ts`), a background worker (`src/src/worker.ts`) and one
PostgreSQL database reached through Sequelize. There is no in-process shared
state that matters. Every request handler and every worker is a process that
reads rows, decides, and writes rows, and **every `await` on the database is a
point where another handler may run or the process may die**. Most services
read a row, check it and `save()` it without a lock; a few hold a row lock or an
advisory lock in a transaction at READ COMMITTED. What two handlers do to one row is
therefore the hard part of this system, and what these modules are about.

Four facts about the code shape every module:

- `save()` and `update()` write only the columns that differ from the copy the
  handler loaded (module `Sequelize`, operator `Changed`). A stale handler
  overwrites what it changes and silently leaves what it does not;
- a JSONB column is written whole: two writers of one list lose one of the two changes;
- the web client edits by sending back the whole `data` column of a record it once
  read. A form left open is a copy of the row that may be saved at any time later, and is
  modelled like a request in flight;
- a transaction's writes are seen at its commit, but an unlocked check before it
  is as stale as any other read, and a statement that waits for a row lock does not
  see rows inserted meanwhile.

A request in flight is a record in `req[q]`: where its handler stands (`pc`) and
the copies it holds. One action is one statement, or one transaction when
nothing of it can be seen before it commits, together with the local computation around it.

---

## 1. Inventory

State, operations and interactions of each part that is modelled; the status is
that of `PROJECT.json`.

### AI background jobs and worker (`modules/ai/features/jobs.ts`, `worker.ts`) — modelled
*State*: rows of `ai_jobs` (status, attempts, lock, due time, error, result);
`ai_schedule_runs`, one row per schedule. *Operations*: `invoke` queues; `claimJob` fails
orphans that used up their attempts, then claims the oldest due or abandoned row with
`FOR UPDATE SKIP LOCKED`; `processOneJob` runs the action and writes done, failed or
queued again; `runDueSchedules` takes an advisory lock per schedule, asks whether the last run is old
enough, runs the task and records it; `main` alternates the two. *Interactions*: the API inserts, any number
of workers poll, the web client polls `getJob`. *Hard*: two workers select one row; a
worker dies mid-job or mid-schedule; a job outlives its 15-minute lock and a second worker runs it; late
writers. *Correct when*: one runner per job, attempts bounded, outcomes
consistent and final, every job ends, a schedule runs once per interval and does run.

### Approval engine (`modules/approvals/approval.service.ts`) — modelled for policies
*State*: the governed record (status, approvedBy), its run (gates with eligible, required
and signed users, gate index, state), the approver pool, the scheme assigned to
the module. *Operations*: submit (self-serve or gated), approve, requestRevision,
withdraw, pool and scheme administration. *Interactions*: registers (policies,
context, interested parties) call it; it stamps their rows, which an editor's PATCH (`implementation.service.ts`) and the publication
of another version write as well. Context issues and requirements have further writers and are not modelled. *Hard*: `approve` locks the run,
nobody else does; submit, revision and withdrawal are several statements
without a transaction; an editor may archive a policy under its run. *Correct when*: gates in order, separation of duties, no
sign-off lost, the gates of an open run frozen, record and run tell one story but for what an editor put over it.

### Controlled documents (`approval.service.ts` 580-790, `implementation.service.ts` 642-815) — versions partly, review modelled
*State*: the versions of a document, their statuses; in each version's `data` the listed reviewers, their
sign-offs and the stage of the review. *Operations*: submit, sign as reviewer, request changes, escalate,
review, publish (supersedes the live version), periodic reconfirmation, plain edits,
which fork a draft from a published version, unless `allowEditPublished` is on. *Hard*: publication is three unlocked statements; handlers
publish and sign from a copy; forms older than an escalation. *Correct when*: one live version, published only
what was approved, superseded only by a published version; escalated only in full; no sign-off lost; a published text
does not change where it may not be edited in place.

### Billing (`modules/billing/billing.service.ts`, `lib/codeSeq.ts`) — partly modelled
*State*: invoices, payments, receipts, payouts, statements. *Operations*:
`payInvoice` (row lock, code lock PAY, code lock RCP, one commit), `markPayoutPaid` (two
saves, no transaction), plans. *Hard*: concurrent payers, max+1 numbering, lock order, rollback.
*Correct when*: an invoice is paid once with one payment and one receipt, numbers have no
gap or double, nobody waits for ever.

### SaaS pipeline (`modules/saas/saas.service.ts`, `pipeline.transitions.ts`) — modelled
*State*: pipeline entries (stage, payment, tenant and subscription ids), tenants,
subscriptions. *Operations*: quote, accept or decline, registration,
proof, verification (locked transaction), provisioning (a second locked transaction of the same
request), failure recording (unlocked), Retry. *Hard*: crash between the two
transactions, Retry against verification, stale failure records, stale uploads.
*Correct when*: provisioned at most once, only if paid, and a paid entry is provisioned or retryable.

### SaaS subscriptions and access (`saas.service.ts` 561-640, `saas/lifecycle.service.ts`, `middleware/tenantScope.ts`) — modelled
*State*: the renewal date and the last payment of a tenant's subscription. *Operations*: renewal (loads
and saves, no lock); the state (Active, Grace 1, Grace 2, Archived, Purged) and the access that follow from the dates.
*Hard*: renewals early, late and at once; boundaries between the states. *Correct when*: what was paid for
is served, and time alone gives nothing back.

### Tenancy (`modules/organizations`, `modules/tenants`) — partly modelled
*State*: registration requests, organizations, tenant profiles, sessions of their members. The
status of a tenant is kept twice, in its profile and in its organization. *Operations*: submit, edit,
transition, reject, approve a request; provision a tenant directly; create an
organization; the seven lifecycle operations; the other door,
`POST /organizations/:id/suspend|activate`. *Hard*: nothing is locked; two or three statements per transition; a sign-in
racing a suspension. *Correct when*: an approved request has its one tenant, decisions stand,
the two statuses agree, members of a blocked tenant hold no session.

### Accounts and sessions (`modules/iam/auth.service.ts`, `modules/users/user.service.ts`) — partly modelled
*State*: a user's status and password, the links mailed to him, his refresh tokens. *Operations*: sign-in,
rotation with reuse detection (a conditional update), sign-out, activation, change, request and reset of the password (the
reset conditional, the activation not), and what administrators do: invite again, edit, suspend, give a role, delete. *Hard*: a
token presented twice at once; the event that condemns sessions and their revocation are two statements; handlers that
had read an account before it was deleted. *Correct when*: a token and a link serve once, condemned
sessions end, what was deleted stays deleted.

### Sites (`modules/sites/site.service.ts`, `modules/site-requests/siteRequest.service.ts`) — modelled
*State*: sites, one of them primary; requests to add, change or close one. *Operations*: create,
edit, delete a site (promotion in a transaction); request, review, reject, approve (statements of its own), provision. `provisionTenant` and the SaaS pipeline make a tenant
with a primary site; an approved registration and `createOrganization` make one without any, and `createSite` makes the first site primary only when
told to. *Correct when*: a tenant that has a primary site keeps one, a request is decided once and becomes one site.

### Information security risk assessment (`modules/isra/israScenario.service.ts`) — partly modelled
*State*: of one scenario, the treatment decisions, the versions of the treatment plan, the projected residual (the
forecast), the residual, the evaluation cycle and its snapshots. *Operations*: save a decision (transaction and
row lock), save and approve the plan, save the forecast, record the residual, promote it (closes a cycle), open the next cycle.
*Hard*: every save of the plan has to flag the forecast, by a later statement; promotion is five statements. *Correct
when*: one current decision and plan, the approved one preserved, an unflagged forecast is about the plan as
it stands, each cycle is closed by a residual of its own.

### Implementation registers (`modules/implementation/implementation.service.ts`) — partly modelled
*State*: records of some forty registers with a status and `data`. *Operations* modelled: a nonconformity with its
corrective action plan (CAP), whose status drives the record's and whose number is minted under a code lock; the routing of a concern
into a record of another register. *Hard*: old forms bring old plans; routing checks, creates and
names in three steps. *Correct when*: plan and nonconformity move together, closed only when verified, numbers are unique,
a concern becomes one record.

### Purchase order confirmation (`modules/business/poConfirmation.ts`) — partly modelled
*State*: the order's status; in `data` the token of the supplier's link, the stamp of the last send, the answer.
*Operations*: edit and send from a form, status changes, the supplier's answer. *Hard*: the link must survive every later
save of an old form; a change of status rewrites the whole column; two answers at once. *Correct when*: a mailed link opens the order, and a send is answered once.

### Org units (`modules/org-units/orgUnit.service.ts`) — modelled
*State*: the units of an organization, each with its parent, its tier (A to E, by depth) and the people appointed to the levels
of that tier. *Operations*: create, appoint, delete (the database deletes the sub-units with it), move a subtree (one transaction,
decided on a tree read before it). *Hard*: two moves decided on the same tree. *Correct when*: a tree with the right tiers, no
unit deleted with sub-units.

### Internal audit (`modules/internal-audit/internalAudit.service.ts`) — findings modelled
*State*: of one finding, its type, what the lead auditor and everybody else has to know of its status, the records it names; the setting that
asks for a review. *Operations*: create, edit, submit, review, issue, route into a record of another register, switch the setting.
*Hard*: every handler saves from a copy; routing creates the record first and names it later. *Correct when*: issued only if
cleared, never rejected once issued, one record in a register.

### Not modelled, and why

- *Language-model features* (prompts, retrieval, parsing): an external service; only its failure
  matters, and `AiJobs` has it.
- *Deadline digest, dashboards, menus, audit trail, notifications*: read-only or append-only.
- *Content, tickets, leads, knowledge base, reference data, billing plans, personnel, interested parties*: edits of single
  rows by one administrator; nothing to get wrong in an interleaving that the modules here do not show already.
- *Risk register, programmes and reports of internal audits, competence, performance evaluation, partners*: registers with more checks
  of single fields and computed scores. The same unlocked check and write as in the modules here; where one was found it is in the
  hazards with its line.
- *Other business records* (projects, proposals, purchase requests): status graphs, checked one transition at a time by the code's own tables.
- *Grants of roles*: pure unions and clamps at request time.
- *Mail, HTTP, validation schemas*: input and output. *Migrations and seeders* (about a third of all
  lines, with the catalogues they load): one process, before the server starts.

Left out of the parts that are modelled: the lockout after failed sign-ins and the expiry of links and tokens
(`auth.service.ts` 103-130); voiding and deleting an order; the scores of a scenario and their recalculation, its controls and the
statement of applicability; review dates, version numbers and the settings of document control but `allowEditPublished`; gaps and bulk imports;
invitations and details of tenants; members of a unit and their levels. Most lines of this repository are seeders, catalogues, views, schemas, prompts and edits of single
rows; the modules map the lines where several steps or several actors have to agree.

---

## 2. The modules

| module | models | main actions ↔ code |
|---|---|---|
| `Sequelize` | how the ORM writes a row | `Changed(stored, loaded, new)` |
| `AiJobs` | the job queue | `Invoke` ↔ `invoke`; `FailOrphans`, `Claim`, `Fetch` ↔ the statements of `claimJob`; `Finish`, `FailPermanently`, `FailTransiently` ↔ the end and the catch block of `processOneJob`; `LockExpires`, `RetryDue` ↔ time passing |
| `AiWorker` (extends `AiJobs`) | the loop of a worker, and the schedules | `Wake`, `Drain` ↔ `main`; `TryLock`, `CheckDue`, `TaskEnds`, `Record` ↔ the statements of `runDueSchedules`; `Die` |
| `ApprovalRun` | one policy, its run, pool and scheme | `SubmitStart` … `SubmitSaveRec` ↔ the statements of `submit`; `ApproveLock`, `ApproveCommit` ↔ the transaction of `approve`; `Revision*`, `Withdraw*` likewise; `EditStart`, `EditSave` ↔ `updateRecord`; `SupersedeStart`, `SupersedeSave` ↔ `publishWithLineage` of another version; `SetPoolMember`, `SetModuleScheme` ↔ administration |
| `PurchaseOrder` | an order and its supplier's link | `OpenForm`, `PostEdit`, `PostSend`, `PostStatus`, `Save` ↔ the client's form and `updateBusiness`; `LoadAnswer`, `SaveAnswer` ↔ `respondPoConfirmation` |
| `DocumentLineage` | the versions of one document | `Load`, then the saves of each handler: `Submit`, `Review`, `FindPrior`–`Supersede`–`Publish`, `Reconfirm`, `Fork`, `SetStatus` |
| `DocumentReview` | the two stages of a version's review | `LoadSign`, `LoadEscalate`, `LoadReview`, `LoadPublish`, `Supersede`, `LoadReconfirm` ↔ the handlers of that name, `Save` their save; `OpenForm`, `LoadEdit` (forks, edits, or amends a published version where that is allowed), `Fork` ↔ the client's form and `updateRecord` |
| `IsraTreatment` | the treatment of one scenario | `LoadDecide`–`FindCurrent`–`LockCurrent`–`FlipCurrent`–`CommitDecision` ↔ `saveTreatmentDecision`; `LoadPlan`, `CreatePlan`, `AmendPlan`, `RetireApproved`, `FlagForecast`, `ApprovePlan` ↔ `saveRtp`, `approveRtp`; `InsertSnapshot` … `SpendForecast` ↔ `promoteResidual`; `LoadStart`, `CheckSnapshot` ↔ `startNextCycle` |
| `Nonconformity` | nonconformities and their plans | `Post`, `PostStatus` ↔ `updateRecord`; `Lock` ↔ the number minted in `saveRecord`; `Save` ↔ its `save()`, of `data` as a whole; `Delete` |
| `ConcernRouting` | the review of a concern | `LoadRoute`, `CreateRecord`, `Save` ↔ `routeConcern` |
| `Billing` | payments, receipts, payouts | `LockInvoice`, `CreatePayment`, `CreateReceipt`, `Commit`/`Rollback` ↔ `payInvoice`; `LoadPayout`, `SavePayout`, `SaveStatement` ↔ `markPayoutPaid` |
| `Ledger` | what recording a payment promises: one atomic `Settle` | the abstract specification `Billing` implements |
| `SaasPipeline` | quote to provisioned tenant | `LoadEdit`–`SaveEdit` ↔ the unlocked handlers; `LockVerify`, `CommitVerified`, `CommitRejected` ↔ `verifyPayment`; `CheckPayment`, `LockProvision`, `CommitProvision`, `FailProvision`, `LoadFailure`, `SaveFailure` ↔ `runProvisioning` |
| `Subscription` | renewals and access | `LoadRenewal`, `SaveRenewal` ↔ `renewSubscription`; `SubState`, `Access` ↔ `resolveSaasSubState`, `resolveSaasAccess`; `Tick` |
| `Tenancy` | registration requests, tenants, their sessions | `Load*`, `SaveUpdate`, `SaveStatus`, `Approve` ↔ `registration.service.ts`; `Provision`, `LoadLifecycle`, `SaveProfile`, `SaveOrg`, `Revoke` ↔ `tenant.service.ts`; `LoadOrganization` ↔ `organization.service.ts`; `CheckAccount`, `IssueToken` ↔ `auth.service.ts` |
| `Accounts` | one account, its sessions and links | `Login`, `LoadToken`, `Claim`, `ClaimReused`, `Rotate`, `RevokeUserSessions`; `Activate`, `SavePassword`, `RequestPasswordReset`, `ResetPassword` ↔ `auth.service.ts`; `SaveStatus`, `SaveGrant`, `SoftDelete` ↔ `user.service.ts` |
| `Sites` | the sites of one tenant and requests about them | `CommitCreate`, `SaveSite`, `CommitPromote`, `DeleteSite` ↔ `site.service.ts`; `ClearPrimary`, `ApplyToSite`, `SaveStatus`, `ProvisionSite`, `SaveProvisioned` ↔ `siteRequest.service.ts` |
| `OrgUnits` | the tree of units | `LoadCreate`, `Insert`; `LoadAppoint`, `Appoint`; `LoadDelete`, `Destroy`; `LoadMove`, `Reparent` ↔ the checks and the writes of `createOrgUnit`, `updateOrgUnit`, `deleteOrgUnit`, `reparentOrgUnit` |
| `AuditFinding` | a finding of an internal audit | `LoadEdit`, `LoadSubmit`, `LoadApprove`, `LoadReturn`, `LoadIssue`, `LoadRoute`, `CreateRecord` ↔ the handlers up to their saves, `Save` ↔ those; `SetMandatory` ↔ `updateSettings` |
| `Assistant`, `Answering`, `Governed`, `Administration`, `Customer` | components side by side | |
| `MC*` | what TLC needs of them: constraints and symmetry | |
| `*Proofs` | theorems | |

Five modules compose components: `Assistant` (three instances of the queue, one with the whole loop),
`Answering` (two approval runs and a purchase order), `Governed` (documents, reviews, risks,
nonconformities, concerns), `Administration` (tenants, accounts, sites, units, findings), and `Customer` (a
pipeline entry, and the subscription it creates). Runs and theorems are about the same modules: an `MC` module and a `Proofs`
module both extend one. The parts of a
composition share no row that both write: interleaving them would multiply
the states and show nothing. So each behaviour has a `focus`, chosen at the start: that part moves,
the others stand still, and the state spaces add. Where parts do share rows, they are
in one module: the two doors to a tenant and its sessions in `Tenancy`, jobs and schedules in `AiWorker`,
forms and handlers and the supplier in `PurchaseOrder`. `Approvals` is checked at the level of
statements, so no coarser module stands in for it elsewhere.

Operators commented as mutants (`ClaimAny`, `TakenNever`, …) are wrong variants of an
action or a check, at least one for every property: put in place of the right one
they make the property fail, which shows that it depends on that piece of code.
No specification uses them.

History variables (`runs`, `approved`, `released`, `stale`, `raced`, `sidestepped`,
`disturbed`, `made`, `own`, `basis`, `paid`, `epoch`, …) record what happened; no step of the
program depends on them, except that those that count are bounded. Those named `lost`, `overlap`, `excused`,
`loose`, `upset`, `freed`, `manual`, `byHand` record the events a property makes an exception of (section 6).

`Rows`, `Slots`, `Runs` … are the sets of the type invariants. Ids are model values. Texts, amounts, dates
and notifications are left out; dates that matter (locks, retry delays) are what the code
compares them to: passed or not. `Subscription` counts days, since sums of dates are what it is about.

---

## 3. The runs

Six runs check properties that hold, six show where the code departs from what it says of itself.

| run | instance | distinct states | shows |
|---|---|---|---|
| `AiJobs` | 2 workers, 2 jobs, 2 attempts; 3 slow workers, 1 job; 2 workers with their loop, 1 job, 1 schedule; crashes | 67,884 | `TimelySafe`, `OutcomeFinal` when no live worker outlives the stale lock; `SlowerSafe` when workers do; `OncePerInterval`; liveness: `JobsEnd`, `EveryScheduleRuns` |
| `Approvals` | 2 users in both pools, 2 requests, both schemes, crashes, self-approval off; 3 users, 1 request, 4 pools, self-approval on, with PATCHes and supersession; 1 order, 2 forms, 2 sends | 2,473,463 | `RightSigners`, `RunKept` under every interleaving of statements; `StatusInTurn`, `SignerInTurn` of requests in turn; `SupplierLink` |
| `Governed` | 3 versions; 2 versions with 2 reviewers; 2 decisions, 2 plans, 3 cycles; 2 nonconformities; 2 records of a concern; 2 requests each, crashes | 1,254,400 | `LineageSafe`; `SignoffsCounted`, `ReviewSteps`; `TreatmentKept`, `ForecastFlagged`, `CyclesClosed`; `CapDrives`; `RoutedOnce` |
| `Administration` | 1 registration request, 2 organizations, 2 proposals; 1 account, 3 tokens, 2 links; 2 sites, the first primary or none, 1 site request; 3 units, 3 tiers; 2 records of a finding; 2 requests each, crashes | 1,007,982 | `RequestsHaveTenants`, `TenantStatus`, `DecisionStands`; `CredentialsSpent`, `ShutStaysShut`; `SitesSettled`; `TreeKept`; `FindingSound` |
| `Pipeline` | 1 entry, 3 requests, crashes; 2 renewals, 3 terms of 4 days | 253,499 | `ProvisionedOnce`, `PaidIsProvisioned`; liveness: `VerifiedIsResolved`; `PaidTerms` |
| `Billing` | 2 invoices, 1 payout, 3 requests, rollbacks, crashes | 3,468 | `PaymentsSound`, refinement of `Ledger` (`LedgerSpec`); liveness: `EveryRequestEnds` |

Each checks its type invariants, too (`TypesOK`, `TypeOK`). A property that a table names with several parts is their
conjunction, defined beside them: `TimelySafe` is `SingleRunner`, `AttemptsBounded`, `OutcomeConsistent`;
`RightSigners` is `SeparationOfDuties`, `GatesInOrder`; `RunKept` is `SignoffsKept`, `FrozenGates`; `LineageSafe` is
`OneLive`, `PublishedApproved`, `SupersededByPublished`; `PaymentsSound` is `PaidOnce`, `NumbersConsecutive`, `SettledTogether`;
`PaidIsProvisioned` is `CompletedPaid`, `RetryableUndisturbed`; `RequestsHaveTenants` is `ApprovedHasTenant`,
`OneTenantPerRequest`; `TenantStatus` is `StatusesAgree`, `BlockedHasNoSession`; `CredentialsSpent` is `OneSuccessor`, `ResetLinkOnce`,
`LinksVoided`; `SitesSettled` is `PrimaryKept`, `RequestsSettled`; `CapDrives` has `CapIdsUnique` in it; `TreeKept` is `Rooted`, `Ranked`,
`OnlyLeavesGo`; `FindingSound` is `IssuedCleared`, `PendingForAll`, `RoutedOnce` of `AuditFinding`; and so on.

### Bounds, and why they are enough

- *Requests or workers in flight.* Two handlers are the smallest race, and every
  hazard found involves two; a third is added where a third can come between
  the first two (`Slow`, `Billing`, `SaasPipeline`). A request that ends frees its
  slot, so the number of requests in a behaviour is not bounded.
- *Crashes.* In `Billing`, `DocumentLineage`, `SaasPipeline`, `Tenancy`, `Accounts` and `Sites` a request that died
  keeps its slot (`Dead`), which bounds crashes by the number of slots and lets properties
  say "nobody died". Elsewhere crashes free the slot and are not bounded (`MaxDeaths` in `AiWorker`, since liveness
  needs an end of dying).
- *Rows.* Rows that interact are at least two (invoices share the number locks, versions
  share a lineage, organizations share unique codes, nonconformities a sequence); what shares nothing is one (entries, accounts,
  scenarios, orders). `DocumentLineage` stops creating rows at
  three versions: `ForkBeyondBound` ends a fork that would need a fourth. Three units in three tiers are the
  least in which a unit could be moved below its own sub-unit, were it not refused.
- *Users.* Two users in both pools suffice for every way to meet `approveBlockReason`; three
  allow disjoint pools and an optional member.
- *Counters.* `MaxForms`, `MaxSends`, `MaxTokens`, `MaxLinks`, `MaxEpoch`, `MaxEdits`, `MaxCycle`, `MaxId`, `Horizon` bound what could
  be repeated for ever. Each allows the event, and a second one that meets the first: an older link and a newer one, a
  condemnation before and after a sign-in, a cycle after a closed one, a renewal after grace.
- `MaxAttempts = 2` is the constant of the code.
- Symmetry is used only in runs without liveness, over sets no property distinguishes. Where
  each focus has its own interchangeable rows, one permutation swaps those of all of them: in any behaviour only one
  focus moves, and the others' rows are all alike.

Constraints cut behaviours that combine two subjects of one part, each of which is followed
alone to its end. The theorems of section 5 have no such bound.

- `CreationOrOneLife` (`Tenancy`): how tenants are created (none used yet), or the life of one tenant. The two meet
  only in the rows one hands to the other.
- `SecondLinkOrSession` (`Accounts`): a second link is mailed, or a session is opened and rotated.
- `ThreeInTurn` (`DocumentLineage`), `ForksInTurn` (`DocumentReview`): when there are as many versions as there can be, handlers
  come one after the other; races are those of the versions before.
- `DecideOrCycle`, `OneLoose` (`IsraTreatment`): decisions or cycles, which meet in the forecast only (a changed option
  flags it, a promotion spends it); and one crash or overlap that the properties make an exception of, since after it they claim less.
- `NumbersOrOneRecord` (`Nonconformity`): two records while only numbers matter; one to close, with one request at a time once two overlapped on it.
- `LivesInTurn` (`Tenancy`): when both events have occurred that a property makes an exception of, so that it has
  little left to say, requests come one after the other.
- `UnitsInTurn` (`OrgUnits`): one event that the properties make an exception of, after which requests come one after the other; three
  units overlap with nobody appointed.
- `FindingInTurn` (`AuditFinding`): the same for a finding, also when there are as many records as there can be; one of two overlapping
  requests changes the type.
- `OrderFollowed` (`PurchaseOrder`): until the order is confirmed or cancelled, with one exceptional event.
- `EngineOnly` (`ApprovalRun`, of requests that race): no editor and no other version writes the row. They touch nothing but the row, and no request of the
  engine decides by it, so the run goes the same ways without them. Of requests in turn the run has them all, and so have the theorems.

`CHECK_DEADLOCK FALSE` appears where the system may really stop: every request died, or
every invoice is paid, every row is archived, the last day is reached.

### Assumptions made by a constant

- `Timely` (the first and third instance of `Assistant`): no live worker keeps a job for 15 minutes. `Slow` drops it and checks what is left.
- `OneSubmit` (`Approvals`): nobody submits one record twice at once. `ApprovalDoubleSubmit` drops it and finds a defect.
- `OnePublish` (`Governed`): publications of a lineage come one after the other. Without
  it two versions end up live (section 6).
- `PlainStatuses` of `Governed` lacks `Review Due`; `LineageReviewDue` has it and finds a defect.
- `SelfApproval` is a setting of the organization; the two approval runs take one value each.

### Fairness

- `AiJobs`, `AiWorker`: weak fairness of every worker's step — `main` of `worker.ts` polls in an
  endless loop and a restarted worker polls again — and of time passing. Nothing makes
  anybody invoke a job. That an action or a task ends is assumed; a job whose action
  never returns is covered by `Slow` as a worker overtaken by others. A worker told to stop (SIGTERM) is not modelled:
  some worker goes on. `EveryScheduleRuns` rests on the jobs being finitely many: `main` drains the queue before it
  looks at the schedules again, so a queue that never runs empty keeps a worker from them.
- `Billing`, `SaasPipeline` (`Goes` in `Customer`): strong fairness of `Proceed(q)`, the next statement of a request in
  flight. A handler that may go on does; one that waits for a lock is queued by
  PostgreSQL and gets it in turn, so a lock that is free again and again is not denied for ever. No
  request is assumed to start, to succeed or to survive.

The other modules have no liveness property: their handlers do not wait
for anything, and whether somebody signs, reviews or decides is up to people.

---

## 4. What the violation runs show

| run | the code says | what happens |
|---|---|---|
| `ApprovalDoubleSubmit` | "MS Team reviews first, then Top Management gives the final sign-off that publishes" (`approval.service.ts:24`) | Two submissions of a returned record: the late one writes fresh gates but not the gate index, since in its copy it was 0 already. Top Management alone publishes. |
| `LineageReviewDue` | a plain PATCH into an approval state "would skip every approver, so it is refused" (`implementation.service.ts:604`) | `Review Due` is not refused: Draft → Review Due → reconfirmed → Published, with no approver. |
| `ReviewFreshDraft` | "The fresh draft carries no approval history of its own" (`implementation.service.ts:361`) | A fork copies the published version's reviewer sign-offs and its stage: the new draft counts as reviewed before anybody has seen it. |
| `PipelineStranded` | a failed provisioning is recorded "so the failure is visible and retryable rather than thrown away" (`saas.service.ts:484`) | The server dies between the two transactions: the entry is paid, at a stage from which no operation is legal. |
| `TenancyProfile` | "a Tenant is a `Tenant` organization + a 1:1 `tenant_profiles` extension" (`0010-tenants-sites.ts:7`) | Approving a registration request creates no profile: the tenant is not listed and no lifecycle operation accepts it. |
| `SitesPrimaryLost` | "An org always keeps exactly one primary site" (`site.service.ts:179`) | A change request that proposes the primary site as the primary one clears the flag of every site, and then saves a copy in which it was set already: no site is primary. One request is enough. |

---

## 5. What is proved

Every safety property the passing runs check, invariants, action properties and types alike, and the refinement of `Ledger`. The theorems
hold for every value of the constants (any number of users, rows, workers and
requests in flight, crashes included), from the named assumptions of the modules, which only say
that the constants have the right shape, and from what the last column names.

| theorem | says | further assumption |
|---|---|---|
| `AiJobsProofs!TimelySafety` | `TimelySafe`: claims are exclusive, attempts bounded, outcomes consistent | `Timely` |
| `AiJobsProofs!TimelyOutcomeFinal` | `OutcomeFinal` | `Timely` |
| `AiJobsProofs!SlowSafety` | `SlowerSafe`: with slow workers three attempts at most, and no row that nobody can claim | `MaxAttempts = 2` |
| `AiJobsProofs!SchedulesRunOnce` | `OncePerInterval` | none |
| `AiJobsProofs!AssistantTypes` | `TypesOK` | none |
| `ApprovalRunProofs!ApprovalSafety` | `RightSigners`: separation of duties, order of the gates | `OneSubmit` |
| `ApprovalRunProofs!RunIsSnapshot` | `RunKept`: no sign-off lost, gates frozen | `OneSubmit` |
| `ApprovalRunProofs!SomeoneSigns` | `SignerInTurn`: an active run has somebody who may sign | one request at a time |
| `ApprovalRunProofs!StatusTells` | `StatusInTurn`: the record and its run tell one story, but for what an editor set last | one request at a time, `SignedPolicy` |
| `ApprovalRunProofs!SupplierLinkStands` | `SupplierLink` | none |
| `ApprovalRunProofs!AnsweringTypes` | `TypesOK` | `OneSubmit` |
| `GovernedProofs!LineageSafety` | `LineageSafe`: one live version, published only what was approved, superseded by a published one | `OnePublish`, no plain `Review Due` |
| `GovernedProofs!SignoffsAreCounted` | `SignoffsCounted`: escalated in full, no sign-off lost | none |
| `GovernedProofs!ReviewsProceed` | `ReviewSteps`: reviews begin with a submission, published texts stay where they may not be edited | none |
| `GovernedProofs!TreatmentIsKept` | `TreatmentKept`: one current decision and plan, approved versions preserved | none |
| `GovernedProofs!ForecastIsFlagged` | `ForecastFlagged` | none |
| `GovernedProofs!CyclesAreClosed` | `CyclesClosed` | none |
| `GovernedProofs!PlansDriveRecords` | `CapDrives`: unique numbers, plan and record agree, closed only when verified | none |
| `GovernedProofs!ConcernRoutedOnce` | `RoutedOnce` | none |
| `GovernedProofs!GovernedTypes` | `TypesOK` | none |
| `AdministrationProofs!SitesAreSettled` | `SitesSettled`: a primary site is kept, requests are decided once | none |
| `AdministrationProofs!FindingIsSound` | `FindingSound`: issued only if cleared, one record | none |
| `AdministrationProofs!TreeIsKept` | `TreeKept`: a tree with its tiers, only leaves go | none |
| `AdministrationProofs!AdministrationTypes` | `TypesOK` | none |
| `TenancyProofs!TenancySafety` | `RequestsHaveTenants` | none |
| `TenancyProofs!TenancyStatuses` | `TenantStatus` | none |
| `TenancyProofs!TenancyDecisions` | `DecisionStands` | none |
| `AccountsProofs!AccountsSpendOnce` | `CredentialsSpent`: tokens and links serve once | none |
| `AccountsProofs!AccountsStayShut` | `ShutStaysShut`: condemned sessions end, deleted accounts stay deleted | none |
| `BillingProofs!BillingSafety` | `PaymentsSound`: paid once, numbers consecutive, a payout and its statement settled together | none |
| `BillingProofs!BillingImplementsLedger` | `LedgerSpec`: the transaction of `payInvoice` is one step of `Ledger` | none |
| `BillingProofs!BillingTypes` | `TypeOK` | none |
| `CustomerProofs!PipelineSafety` | `ProvisionedOnce`: provisioned at most once, ids set exactly then | none |
| `CustomerProofs!PipelinePaid` | `PaidIsProvisioned`: completed only if paid; paid is provisioned or can be retried | none |
| `CustomerProofs!SubscriptionTerms` | `PaidTerms` | durations are natural numbers |
| `CustomerProofs!CustomerTypes` | `TypesOK` | durations are natural numbers |

The properties have side conditions (section 6), and the theorems have the same. The further assumptions:

- `Timely`, `OneSubmit`, `OnePublish` and the plain statuses are those of section 3. None can be dropped: `Slow` and the runs of section 4
  show what happens without them, or section 6 does (`OnePublish`).
- `MaxAttempts = 2` is `MAX_ATTEMPTS` (`jobs.ts:13`). With 3 attempts TLC finds `SlowerSafe` violated: a late save of a worker that outlived its lock clears
  the lock of a row another worker has just claimed, and the row stays `running` without a lock, which `claimJob` never looks for. The
  proof uses that a worker on its second attempt never puts a job back on the queue.
- One request at a time (`InTurnRequests = {one}`) is the instance the run checks, too: overlapping withdrawals break `StatusInTurn` (section 6).
- `SignedPolicy`: no scheme the policies may be assigned is empty, since a scheme without gates publishes without a signer or a run.

A theorem about one part of a composition goes through the specification of that part: `SitesWithin` says that a behaviour of
`Administration` is one of `Sites`, or a stutter of it, at every step, and `RoutingWithin`, `ReviewWithin`, `SlowWithin` and the like say the same of theirs.

### The inductive invariants

None of the properties is inductive; each proof module names what is missing.

- `AiJobs`: a worker's copy is still the row (`WorkerInv`), nobody else has the job
  (`Exclusive`), and a queued row has an attempt left (`JobInv`). From the last one follows that a job is
  not claimed a third time although the claim of a queued row never looks at its attempts. With slow workers (`SlowInv`) a copy may be older
  than the row, and what counts is how many attempts it had seen: at most one holder has a copy of the first attempt, and only
  that one may put the job back on the queue (`FirstInv`). In `AiWorker` (`LoopInv`) the advisory lock is with the one
  worker in its transaction, so the last run it read is still the last one.
- `ApprovalRun`: while `approve` holds the lock its copy is the run (`LockInv`); between the look-up of
  `submit` and its save the run can only be returned or destroyed, so the columns
  submit leaves out are those it read (`SubmitInv`). This is what `OneSubmit` is needed for, and
  what `ApprovalDoubleSubmit` breaks. Of requests in turn (`TurnInv`): every gate before the current one is done, the
  current one is not, and no gate needs more signers than are eligible; and what the statements of the one request have
  still to write is what tells the statuses of record and run apart.
- `PurchaseOrder` (`OrderInv`): a request saves no other token than the one it read, and answers only a send it read unanswered; where the row
  has moved on since, the send is one of the exceptions.
- `DocumentLineage`: a publication under way is alone, of an approved version, and its `prior`
  is the live one until it is superseded (`PublishInv`); no copy can turn into Published otherwise (`CopyInv`);
  what is superseded gave way to a version published or being published, unless a request died (`GaveWay`).
- `DocumentReview` (`RevInv`): a copy lists the reviewers that signed when it was escalated, and has all sign-offs the version has of its
  own as long as no two handlers overlapped on it (`RevCopy`); two handlers on one version are an overlap (`RevAlone`).
- `IsraTreatment`: between `LockCurrent` and the commit the decision locked is current; saves of the plan
  that come in turn know the current version (`PlansInv`); an unflagged forecast older than the plan has somebody on the way to flag it (`FlagPending`), or is excused
  (`Overlooked`); a snapshot is written before its cycle is left, and in turn the current cycle has one only while a request is about to close
  it (`CycleInv`); a residual is in a snapshot only while it is being spent (`ResidualInv`).
- `Nonconformity` (`CapInv`): under the code lock one number is minted at a time, and it is new; a number in a form is its record's, or one that
  was taken off a record; a request that is alone on its record finds it as it was loaded.
- `ConcernRouting` (`RoutInv`) and `AuditFinding` (`FindInv`): every record created is named, or about to be by a request that is alone.
- `Sites` (`SitesInv`): a handler that saves a site as not primary had read it as not primary, and one that promotes a site or creates a
  primary one brings it, primary, in the commit that demotes the others; the one handler that works on a site request finds it as it was read (`Undisturbed`).
- `OrgUnits` (`UnitInv`): the tree is hung up (`Hung`: no unit below one that is gone) and free of cycles, and there are numbers that give each unit
  one more than its parent, with the tier of that number (`InRank`): those are the depths, without the limit of `depthOf`. A
  request to move carries a tree of that kind. The sub-units of a unit are the least closed set (`BelowLeast`), and this, not induction
  over the depth, is what the lemmas use: to show that nothing below `u` is wrong, they give a closed set without it.
- `Billing`: the three locks exclude, and what a holder read under them — unpaid, the highest number — is still
  true (`LockInv`); a statement lags behind its payout only while somebody is on the way to it or died there (`PayoutInv`).
- `SaasPipeline`: one transaction per row (`LockHeld`), and one past its check holds an entry nobody provisioned
  (`NotYetLinked`). For what was paid: what stage, payment and link say of each other while no save was late (`RowInv`), what a request may rely on
  (`SlotInv`), and that a paid entry not resolved is in somebody's hands (`Carried`).
- `Subscription`: what a renewal in flight read covers what was owed when it read (`ReadInv`).
- `Tenancy`: what a handler carries stands for the check it made (`RegSlots`, `LifeSlots`);
  undisturbed, every approval in flight carries the proposal the tenant was made from, so the
  unique indexes let one in (`OneProposal`); what two statuses or a session still lack is on its way in
  a handler (`StatusOnItsWay`, `RevocationOnItsWay`). A corollary on the way:
  the branch of `provisionTenant` that links an approved request without a tenant is dead
  (`ProvisionLinksNothing`).
- `Accounts`: a token with a successor, or about to get one, is revoked, and no two requests are about to give it one
  (`TokenInv`); used and voided links lie behind the one on the account (`LinkInv`); while a revocation is outstanding somebody
  has yet to make it or died, and a live session saw the last one, or is late (`SweepInv`).

### Only model-checked

Liveness (`JobsEnd`, `EveryScheduleRuns`, `EveryRequestEnds`, `VerifiedIsResolved`), which is out of the prover's reach, and
the counterexamples of section 4.

---

## 6. Where a property has an exception, and why

A property with a side condition says what the code does guarantee. These races are
in the models; dropping the condition makes the property fail.

- `SlowerSafe` allows `2 * MaxAttempts - 1` attempts: a late failure puts a job back on
  the queue (`jobs.ts:82`), so "retried once" (`ai/features/README.md:67`) is not a bound for jobs longer than the lock.
- `OncePerInterval` excludes a schedule whose worker died in it: its task was begun, its run never recorded.
- `StatusInTurn` is for requests one after the other: `withdraw` checks for
  sign-offs and destroys the run later (`approval.service.ts:787`); a sign-off between the two is lost with it. In turn, too, a PATCH may set a
  policy under a run to Draft or Archived (`implementation.service.ts:609-619`, `769-780`) or replace `data.approvedBy` (`782-787`), and the run does
  not notice: the next sign-off goes on from there, the last one publishes a policy that was archived. The property therefore lets a column an editor set last
  (`byHand`) differ from the run: the status by one of those two values, `approvedBy` by anybody. It claims that the PATCH reaches no status of the
  workflow, and that what the engine writes afterwards agrees with the run again.
- `SignerInTurn` excludes pools that share users: two users who both signed the first gate each
  keep the other from signing the second, and the run waits until it is withdrawn. It is claimed where the organization allows
  self-approval (the default): with it off, a gate whose only signer is the author waits likewise.
- `SupplierLink`: a mailed link is lost when a request that had read the order before it was sent saves its copy later, or when two first sends
  each mint a token; a send is answered twice when two answers overlap (`poConfirmation.ts:328`), or when an old form takes the first answer off. A change
  of status without data is such a request, too: it adds an entry to the activity (`business.service.ts:690-694`) and `save()` writes the whole column
  (`:696`), so one that had loaded the order before wipes the token just mailed, or the answer just given.
- `OneLive` needs `OnePublish`: each publication looks for the live version before
  the other is saved (`approval.service.ts:653`).
- `SignoffsCounted`: handlers that overlap on a version lose sign-offs, since each writes the list it read (`approval.service.ts:729`); reviewers
  listed by an edit after the escalation have not signed.
- `ReviewSteps`: what a published version says is changed by a handler that had read it before it was published, by a reconfirmation overtaken by such
  a save, and in organizations that set `allowEditPublished` by any edit (`implementation.service.ts:705`); the setting may be switched at any time.
- `TreatmentKept`: two first decisions at once find no row to lock and are both current (so the property claims one at least);
  an approved plan is rewritten by a save that had read it before its approval; two overlapping saves may leave two current versions.
- `ForecastFlagged`: the flag is set by the last statement of a save, so a crash before it leaves the forecast unflagged; a confirmation of a forecast
  that was read before the save clears the flag.
- `CyclesClosed`: after a crash between the snapshot and the new cycle number, the unique index refuses every later promotion of that cycle; two
  promotions that overlap promote one residual twice; opening cycle 2 may overlap its promotion.
- `CapIdsUnique` (within `CapDrives`): a number taken off a record counts as free, and comes back with an old form or a request in flight.
- `CapDrives` excludes records whose status was set by hand, and overlapping requests.
- `RoutedOnce` excludes overlapping routings (each creates a record), a crash before the concern names its record, and edits that reopen
  a concern or bring back older data.
- `PrimaryKept` (within `SitesSettled`) is about a tenant that has a primary site: `approveRegistration` (`registration.service.ts:208-264`) and
  `createOrganization` (`organization.service.ts:36-57`) create tenants without one, and `createSite` does not make the first site primary by itself
  (`site.service.ts:149-168`). It excludes three kinds of steps: the approval of a change of the primary site, which demotes all of them first
  (`SitesPrimaryLost`), a deletion that had read the site before its promotion, and a promotion of a site deleted since.
- `RequestsSettled` (likewise): two provisionings, or decisions, of one site request at once, or a crash before the site is linked.
- `TreeKept`: two overlapping moves can put two units below each other, after which `isDescendant` and `subtreeIds` do not
  return for them; tiers are those of the tree as it was read, so a change in between leaves them wrong; a sub-unit that comes between the check and `destroy` is
  deleted with its parent (`orgUnit.service.ts:203`). Moves, which check the depth of the moved unit only, can build a tree
  deeper than `depthOf` counts (`orgUnit.service.ts:94`); a move within it gives a wrong tier. The proof found this one: it takes more units than a run has.
- `FindingSound`: a save from an old copy mixes the statuses; overlapping routings, or a crash before the finding names its record,
  create a second one. `routeFinding` does not ask whether the finding was issued, although its comment says "Route an issued
  finding" (`internalAudit.service.ts:594`): a finding routed while pending stays pending for the lead auditor, who may reject it later.
- `ShutStaysShut`: a session granted by a sign-in or a rotation that overlapped the revocation lives on; a crash between
  the event and the revocation leaves all of them; a handler that had read an account before its deletion may revive it.
- `SettledTogether` and `RetryableUndisturbed` exclude requests that died between two statements
  that are not in one transaction, and saves over a row changed since it was read.
- `PaidTerms`: overlapping renewals extend the same date, and one term is lost (`saas.service.ts:596`).
- `StatusesAgree` excludes overlapping handlers, crashes between the two saves and the other
  door to an organization's status; `BlockedHasNoSession` excludes a sign-in that overlapped the suspension.
- `OneTenantPerRequest` excludes requests edited under an approval; `DecisionStands` excludes handlers that had
  read the request while it was open.

Met while modelling, and no defect against anything the code says of itself: the columns `status`, `grace_started_at` and
`archived_at` of a subscription decide nothing, and a subscription that counts as purged can be renewed; a record created Closed is not asked
whether its corrective action was verified, and a plan given at creation gets no number until the record is saved again; a unit created
with an appointment is inserted before the appointment is refused, since nobody can be its member yet; nothing sets the issue statuses "Accepted by PIC" and "Closed" of a finding;
a move looks at the depth of the unit itself only (`orgUnit.service.ts:230`), so its sub-units may end below the last tier, whose name they then bear.

---

## 7. The order of the work

The modules were written in this order: `AiJobs`, `ApprovalRun`, `DocumentLineage`, `Billing` over `Ledger`,
`SaasPipeline`, `Tenancy`, each with its proofs; then `Accounts`, `Sites`, `AiWorker`, `DocumentReview`, `IsraTreatment`, `PurchaseOrder`,
`Subscription`, `Nonconformity`, `ConcernRouting`, and the proofs of `Subscription` and `Accounts`; then `OrgUnits` and `AuditFinding`; last the
proofs of everything else a run checks. In them an invariant that did not go through was either too weak or showed an
exception the property had to name (the trees deeper than `depthOf` counts).

What would add most next:

1. Refinements: an abstract specification of the approval run, and of the review, as `Ledger` is one of the payment.
2. The lockout and the expiry of links in `Accounts`; voiding and deletion in `PurchaseOrder`.
3. Partners as an extension of `Tenancy`; programmes and reports of internal audits.
4. Scores of risks and competences, and grants of roles, as operators checked against reference definitions over bounded inputs.

---

## 8. Running the checks

    tlc -config Governed.cfg MCGoverned.tla         # one run
    tlapm TenancyProofs.tla                         # one proof module

`Approvals`, `Governed` and `Administration` take two to four minutes with two workers, the others less than one. `PROJECT.json` lists for each run its module and
properties, for each property a mutant that breaks it, for every definition the source lines it stands for, and the
hazards the properties are about.
