------------------------------- MODULE AiJobs -------------------------------
(***************************************************************************)
(* The background jobs of the AI features: the table ai_jobs, the API that *)
(* queues a job (features.service.ts) and the workers that claim and run   *)
(* jobs (jobs.ts, worker.ts).                                              *)
(*                                                                         *)
(* A worker holds a COPY of the row it claimed, read by a statement of its *)
(* own after the claim, and writes its outcome from that copy without      *)
(* looking at the row again.  A job still "running" 15 minutes after its   *)
(* claim is taken for the orphan of a dead worker and claimed again; the   *)
(* constant Timely says whether that is always true of it.                 *)
(***************************************************************************)
EXTENDS Naturals, FiniteSets, Sequelize

CONSTANTS
  Workers,      \* worker processes
  Jobs,         \* ids of ai_jobs rows
  MaxAttempts,  \* MAX_ATTEMPTS
  Timely        \* TRUE: no live worker keeps a job for longer than the stale lock

ASSUME AttemptsAssumption == MaxAttempts \in Nat \ {0}
ASSUME TimelyAssumption == Timely \in BOOLEAN

VARIABLES
  job,   \* job[j]: the row
  pc,    \* pc[w]: where worker w is in processOneJob
  at,    \* at[w]: the job worker w claimed
  copy,  \* copy[w]: the AiJob instance worker w loaded
  runs   \* runs[j]: how often the action of job j ran to its end (history)

vars == <<job, pc, at, copy, runs>>

NoJob == "no job"

Statuses == {"absent", "queued", "running", "done", "failed"}

\* locked_at: NULL, set less than 15 minutes ago, or longer ago.
Locks == {"null", "fresh", "stale"}

\* The error column: NULL, ORPHANED_JOB_ERROR, the message of a refusal (an
\* AppError below 500) or of any other error.
Errors == {"null", "orphaned", "refused", "broken"}

Results == {"null", "json"}

\* run_after: the time has passed ("now") or not ("later").
Rows == [status : Statuses, attempts : Nat, lock : Locks,
         runAfter : {"now", "later"}, error : Errors, result : Results]

Absent == [status |-> "absent", attempts |-> 0, lock |-> "null",
           runAfter |-> "later", error |-> "null", result |-> "null"]

\* The defaults of the model: queued, no attempt yet, due at once.
NewJob == [status |-> "queued", attempts |-> 0, lock |-> "null",
           runAfter |-> "now", error |-> "null", result |-> "null"]

Terminal == {"done", "failed"}

\* Worker w has claimed a job and not yet written its outcome.
Busy(w) == pc[w] \in {"fetch", "run", "ran"}

Holds(w, j) == Busy(w) /\ at[w] = j

-----------------------------------------------------------------------------
Init ==
  /\ job = [j \in Jobs |-> Absent]
  /\ pc = [w \in Workers |-> "idle"]
  /\ at = [w \in Workers |-> NoJob]
  /\ copy = [w \in Workers |-> Absent]
  /\ runs = [j \in Jobs |-> 0]

\* invoke: an action whose mode is "job" inserts a row, due at once.
Invoke(j) ==
  /\ job[j].status = "absent"
  /\ job' = [job EXCEPT ![j] = NewJob]
  /\ UNCHANGED <<pc, at, copy, runs>>

Stale(r) == r.status = "running" /\ r.lock = "stale"

\* Mutant: the first statement of claimJob is missing.
NeverExhausted(r) == FALSE

Exhausted(r) == Stale(r) /\ r.attempts >= MaxAttempts

\* Mutant: the orphans get a status the column does not know.
OrphanedStatus(w) ==
  /\ pc[w] = "idle"
  /\ job' = [j \in Jobs |-> IF Exhausted(job[j])
                            THEN [job[j] EXCEPT !.status = "orphaned", !.lock = "null"]
                            ELSE job[j]]
  /\ pc' = [pc EXCEPT ![w] = "claim"]
  /\ UNCHANGED <<at, copy, runs>>

\* claimJob, first statement: orphans with no attempt left are failed.
FailOrphans(w) ==
  /\ pc[w] = "idle"
  /\ job' = [j \in Jobs |->
               IF Exhausted(job[j])
               THEN [job[j] EXCEPT !.status = "failed", !.error = "orphaned", !.lock = "null"]
               ELSE job[j]]
  /\ pc' = [pc EXCEPT ![w] = "claim"]
  /\ UNCHANGED <<at, copy, runs>>

\* Mutant: a running job is re-claimed without waiting for its lock.
ClaimableRunning(r) ==
  \/ r.status = "queued" /\ r.runAfter = "now"
  \/ r.status = "running" /\ r.attempts < MaxAttempts

\* Mutant: the selection looks at run_after only.
ClaimableWhenDue(r) ==
  \/ r.status \in Terminal \cup {"queued"} /\ r.runAfter = "now" /\ r.attempts < MaxAttempts
  \/ Stale(r) /\ r.attempts < MaxAttempts

\* What the second statement selects from. The attempts of a queued row are
\* not looked at.
Claimable(r) ==
  \/ r.status = "queued" /\ r.runAfter = "now"
  \/ Stale(r) /\ r.attempts < MaxAttempts

\* Mutant: the claim does not set locked_at.
ClaimUnlocked(w, j) ==
  /\ pc[w] = "claim"
  /\ Claimable(job[j])
  /\ job' = [job EXCEPT ![j].status = "running", ![j].attempts = @ + 1]
  /\ pc' = [pc EXCEPT ![w] = "fetch"]
  /\ at' = [at EXCEPT ![w] = j]
  /\ UNCHANGED <<copy, runs>>

\* claimJob, second statement: FOR UPDATE SKIP LOCKED makes it atomic. The
\* order of run_after is abstracted: any claimable row may come first.
Claim(w, j) ==
  /\ pc[w] = "claim"
  /\ Claimable(job[j])
  /\ job' = [job EXCEPT ![j].status = "running", ![j].lock = "fresh",
                        ![j].attempts = @ + 1]
  /\ pc' = [pc EXCEPT ![w] = "fetch"]
  /\ at' = [at EXCEPT ![w] = j]
  /\ UNCHANGED <<copy, runs>>

\* Nothing to do: the worker sleeps until its next poll.
ClaimNothing(w) ==
  /\ pc[w] = "claim"
  /\ \A j \in Jobs : ~Claimable(job[j])
  /\ pc' = [pc EXCEPT ![w] = "idle"]
  /\ UNCHANGED <<job, at, copy, runs>>

\* claimJob, last line: the instance is loaded by a read of its own.
Fetch(w) ==
  /\ pc[w] = "fetch"
  /\ copy' = [copy EXCEPT ![w] = job[at[w]]]
  /\ pc' = [pc EXCEPT ![w] = "run"]
  /\ UNCHANGED <<job, at, runs>>

\* runAction returned: whatever the action does has been done.
RunAction(w) ==
  /\ pc[w] = "run"
  /\ runs' = [runs EXCEPT ![at[w]] = @ + 1]
  /\ pc' = [pc EXCEPT ![w] = "ran"]
  /\ UNCHANGED <<job, at, copy>>

\* job.update(...) with the outcome: locked_at is always assigned NULL.
Save(w, status, error, result) ==
  /\ job' = [job EXCEPT
       ![at[w]].status = Changed(@, copy[w].status, status),
       ![at[w]].lock   = Changed(@, copy[w].lock, "null"),
       ![at[w]].error  = Changed(@, copy[w].error, error),
       ![at[w]].result = Changed(@, copy[w].result, result),
       ![at[w]].runAfter = IF status = "queued" THEN "later" ELSE @]
  /\ pc' = [pc EXCEPT ![w] = "idle"]
  /\ at' = [at EXCEPT ![w] = NoJob]
  /\ copy' = [copy EXCEPT ![w] = Absent]
  /\ UNCHANGED runs

Finish(w) ==
  /\ pc[w] = "ran"
  /\ Save(w, "done", "null", "json")

\* The catch block for an AppError below 500: the owner may no longer act,
\* the feature is off, the payload does not parse.
FailPermanently(w) ==
  /\ pc[w] = "run"
  /\ Save(w, "failed", "refused", copy[w].result)

MayRetry(w) == copy[w].attempts < MaxAttempts

\* The catch block for any other error (of the provider, of the database; the
\* update to "done" is inside the same try): queued again while attempts last.
FailTransiently(w) ==
  /\ pc[w] \in {"run", "ran"}
  /\ Save(w, IF MayRetry(w) THEN "queued" ELSE "failed", "broken", copy[w].result)

\* The process dies with a claimed job, or the read after the claim throws and
\* the loop starts over: the row stays as it is. (A worker that dies without
\* a job changes nothing.)
Crash(w) ==
  /\ Busy(w)
  /\ pc' = [pc EXCEPT ![w] = "idle"]
  /\ at' = [at EXCEPT ![w] = NoJob]
  /\ copy' = [copy EXCEPT ![w] = Absent]
  /\ UNCHANGED <<job, runs>>

\* 15 minutes since the claim.
LockExpires(j) ==
  /\ job[j].status = "running"
  /\ job[j].lock = "fresh"
  /\ Timely => \A w \in Workers : ~Holds(w, j)
  /\ job' = [job EXCEPT ![j].lock = "stale"]
  /\ UNCHANGED <<pc, at, copy, runs>>

\* The retry delay of 60 s is over.
RetryDue(j) ==
  /\ job[j].status = "queued"
  /\ job[j].runAfter = "later"
  /\ job' = [job EXCEPT ![j].runAfter = "now"]
  /\ UNCHANGED <<pc, at, copy, runs>>

-----------------------------------------------------------------------------
Outcome(w) == RunAction(w) \/ Finish(w) \/ FailPermanently(w) \/ FailTransiently(w)

ClaimStep(w) == ClaimNothing(w) \/ \E j \in Jobs : Claim(w, j)

WorkerStep(w) == FailOrphans(w) \/ ClaimStep(w) \/ Fetch(w) \/ Outcome(w)

Next ==
  \/ \E j \in Jobs : Invoke(j) \/ LockExpires(j) \/ RetryDue(j)
  \/ \E w \in Workers : WorkerStep(w) \/ Crash(w)

Spec == Init /\ [][Next]_vars

\* Every worker keeps polling and every action ends (worker.ts, main; a
\* restarted worker polls again); time passes. Nothing makes anybody invoke.
Fairness ==
  /\ \A w \in Workers : WF_vars(WorkerStep(w))
  /\ \A j \in Jobs : WF_vars(LockExpires(j)) /\ WF_vars(RetryDue(j))

FairSpec == Spec /\ Fairness
-----------------------------------------------------------------------------
TypeOK ==
  /\ job \in [Jobs -> Rows]
  /\ pc \in [Workers -> {"idle", "claim", "fetch", "run", "ran"}]
  /\ at \in [Workers -> Jobs \cup {NoJob}]
  /\ copy \in [Workers -> Rows]
  /\ runs \in [Jobs -> Nat]

(***************************************************************************)
(* What holds as long as no live worker keeps a job longer than its lock   *)
(* (Timely), whatever crashes.                                             *)
(***************************************************************************)

\* Claims are exclusive: a job is in the hands of one worker at a time, and
\* the row says so. (FOR UPDATE SKIP LOCKED and the stale lock together.)
SingleRunner ==
  \A w \in Workers : Busy(w) =>
    /\ at[w] \in Jobs
    /\ job[at[w]].status = "running"
    /\ \A v \in Workers : Holds(v, at[w]) => v = w

\* A job is tried at most MAX_ATTEMPTS times, crashes included, although the
\* claim of a queued row does not look at its attempts; and its action never
\* runs to its end more often than it was claimed.
AttemptsBounded ==
  \A j \in Jobs : job[j].attempts <= MaxAttempts /\ runs[j] <= job[j].attempts

\* What a poller of getJob reads is consistent: a done job has its result, no
\* error left from an earlier attempt, and its action did run; a failed job
\* has an error and no result; neither looks locked.
OutcomeConsistent ==
  \A j \in Jobs :
    /\ job[j].status = "done" => /\ job[j].result = "json" /\ job[j].error = "null"
                                 /\ job[j].lock = "null" /\ runs[j] > 0
    /\ job[j].status = "failed" => /\ job[j].result = "null" /\ job[j].error # "null"
                                   /\ job[j].lock = "null"

\* Claims, attempts and outcomes are right at every moment, whatever crashes.
TimelySafe == SingleRunner /\ AttemptsBounded /\ OutcomeConsistent

\* An outcome is final: no worker, however late, rewrites a job that ended.
OutcomeFinal ==
  [][\A j \in Jobs : job[j].status \in Terminal => job'[j] = job[j]]_vars

(***************************************************************************)
(* What holds even when workers outlive the stale lock.                    *)
(***************************************************************************)

\* A running row always carries the lock that lets it be claimed again, and a
\* queued row none: no mixture of two workers' partial writes strands a job.
NeverStranded ==
  \A j \in Jobs :
    /\ job[j].status = "running" => job[j].lock # "null"
    /\ job[j].status = "queued" => job[j].lock = "null"

\* Late writers can put a job back on the queue, but each claim hands out one
\* attempt number and only those below MAX_ATTEMPTS may do it.
AttemptsCapped == \A j \in Jobs : job[j].attempts <= 2 * MaxAttempts - 1

\* However the writes of late workers overlap, the queue goes on and gives up in the end.
SlowSafe == NeverStranded /\ AttemptsCapped

\* A job that was invoked ends: not queued, not running, for ever.
EveryJobEnds ==
  \A j \in Jobs : job[j].status # "absent" ~> job[j].status \in Terminal

=============================================================================
