---------------------------- MODULE AiJobsProofs ----------------------------
(***************************************************************************)
(* The background jobs for any number of workers, jobs, attempts and       *)
(* schedules: the queue when no live worker keeps a job for longer than    *)
(* the stale lock (Timely; crashes need no assumption), the queue when     *)
(* workers may, the types of both, and the schedules of the loop.          *)
(***************************************************************************)
EXTENDS Assistant, TLAPS

(***************************************************************************)
(* The inductive invariant.  SingleRunner and AttemptsBounded are not      *)
(* inductive alone: that an outcome is written correctly rests on the      *)
(* worker's copy still being the row, and that attempts stay bounded on    *)
(* every queued row having one left.                                       *)
(***************************************************************************)
JobInv(j) ==
  /\ job[j].attempts <= MaxAttempts
  /\ runs[j] <= job[j].attempts
  /\ job[j].status = "absent" => job[j].attempts = 0
  /\ job[j].status \in {"absent", "queued"} =>
       job[j].attempts < MaxAttempts /\ job[j].lock = "null"
  /\ job[j].status \notin Terminal => job[j].result = "null"
  /\ job[j].status = "done" => /\ job[j].result = "json" /\ job[j].error = "null"
                               /\ job[j].lock = "null" /\ runs[j] > 0
  /\ job[j].status = "failed" => /\ job[j].result = "null" /\ job[j].error # "null"
                                 /\ job[j].lock = "null"

WorkerInv(w) ==
  Busy(w) => /\ at[w] \in Jobs
             /\ job[at[w]].status = "running"
             /\ job[at[w]].lock = "fresh"
             /\ pc[w] \in {"fetch", "run"} => runs[at[w]] < job[at[w]].attempts
             /\ pc[w] = "ran" => runs[at[w]] > 0
             /\ pc[w] \in {"run", "ran"} => copy[w] = job[at[w]]

Exclusive ==
  \A v, w \in Workers : Busy(v) /\ Busy(w) /\ at[v] = at[w] => v = w

IInv ==
  /\ TypeOK
  /\ \A j \in Jobs : JobInv(j)
  /\ \A w \in Workers : WorkerInv(w)
  /\ Exclusive

-----------------------------------------------------------------------------
\* The initial states of the job queue (no row, every worker idle) satisfy the
\* inductive invariant.
LEMMA InitIInv == Init => IInv
BY AttemptsAssumption
   DEF Init, IInv, TypeOK, Rows, Results, Errors, Locks, Statuses, Terminal, JobInv,
       WorkerInv, Exclusive, Busy, Absent

\* A step that leaves the rows in workers' hands alone, and no worker busy that
\* was not, preserves the invariant if it does so row by row.
LEMMA UnheldRows ==
  ASSUME IInv,
         job' \in [Jobs -> Rows], \A i \in Jobs : JobInv(i)',
         pc' \in [Workers -> {"idle", "claim", "fetch", "run", "ran"}],
         \A w \in Workers : Busy(w)' => /\ Busy(w) /\ pc'[w] = pc[w]
                                        /\ job'[at[w]] = job[at[w]],
         UNCHANGED <<at, copy, runs>>
  PROVE  IInv'
<1>1. TypeOK' /\ Exclusive'
  BY DEF IInv, TypeOK, Exclusive, Busy
<1>2. ASSUME NEW w \in Workers PROVE WorkerInv(w)'
  BY DEF IInv, WorkerInv, Busy
<1> QED BY <1>1, <1>2 DEF IInv

\* invoke adds a row no worker holds.
LEMMA InvokeIInv == ASSUME IInv, NEW j \in Jobs, Invoke(j) PROVE IInv'
<1>1. NewJob \in Rows /\ job' = [job EXCEPT ![j] = NewJob]
  BY DEF Invoke, NewJob, Rows, Results, Errors, Locks, Statuses
<1>2. job' \in [Jobs -> Rows] /\ \A i \in Jobs : i # j => job'[i] = job[i]
  BY <1>1 DEF IInv, TypeOK
<1>3. runs' = runs /\ pc' = pc /\ at' = at /\ copy' = copy /\ runs[j] = 0
  BY DEF Invoke, IInv, TypeOK, JobInv, Rows
<1>4. ASSUME NEW i \in Jobs PROVE JobInv(i)'
  <2>1. CASE i = j
    <3>1. job'[i] = NewJob
      BY <1>1, <2>1 DEF IInv, TypeOK
    <3> QED BY <1>3, <2>1, <3>1, AttemptsAssumption DEF NewJob, JobInv, Terminal
  <2>2. CASE i # j
    BY <1>2, <1>3, <2>2 DEF JobInv, IInv, Terminal
  <2> QED BY <2>1, <2>2
<1>5. ASSUME NEW w \in Workers, Busy(w) PROVE at[w] # j
  BY <1>5 DEF IInv, WorkerInv, Invoke
<1> QED BY <1>2, <1>3, <1>4, <1>5, UnheldRows DEF IInv, TypeOK, WorkerInv, Busy

\* The first statement of claimJob fails stale rows only, which nobody holds.
LEMMA FailOrphansIInv == ASSUME IInv, NEW w \in Workers, FailOrphans(w) PROVE IInv'
<1>1. ASSUME NEW i \in Jobs PROVE job'[i] \in Rows /\ JobInv(i)'
  <2>1. CASE Exhausted(job[i])
    <3> DEFINE r == job[i]
              new == [status |-> "failed", attempts |-> r.attempts, lock |-> "null",
                      runAfter |-> r.runAfter, error |-> "orphaned", result |-> r.result]
    <3>1. r \in Rows /\ JobInv(i) /\ r.status = "running" /\ runs'[i] = runs[i]
      BY <2>1 DEF FailOrphans, Exhausted, Stale, IInv, TypeOK
    <3>2. job'[i] = [r EXCEPT !.status = "failed", !.error = "orphaned", !.lock = "null"]
      BY <2>1 DEF FailOrphans
    <3>3. job'[i] = new
      BY <3>1, <3>2 DEF Rows
    <3>4. new \in Rows
      BY <3>1 DEF Rows, Errors, Locks, Statuses
    <3> QED BY <3>1, <3>3, <3>4 DEF JobInv, Terminal
  <2>2. CASE ~Exhausted(job[i])
    BY <2>2 DEF FailOrphans, JobInv, Terminal, IInv, TypeOK
  <2> QED BY <2>1, <2>2
<1>2. job' \in [Jobs -> Rows]
  BY <1>1 DEF FailOrphans
<1>3. ASSUME NEW v \in Workers, Busy(v)'
      PROVE  Busy(v) /\ pc'[v] = pc[v] /\ job'[at[v]] = job[at[v]]
  BY <1>3 DEF FailOrphans, Exhausted, Stale, IInv, TypeOK, WorkerInv, Busy
<1> QED BY <1>1, <1>2, <1>3, UnheldRows DEF FailOrphans, IInv, TypeOK

\* The second statement of claimJob hands a row nobody holds to one worker.
LEMMA ClaimIInv ==
  ASSUME IInv, NEW w \in Workers, NEW j \in Jobs, Claim(w, j) PROVE IInv'
BY DEF Claim, Claimable, Stale, IInv, TypeOK, Rows, Results, Errors, Locks, Statuses,
       Terminal, JobInv, WorkerInv, Exclusive, Busy

\* The outcome of a held job is written from a copy that still equals the row.
LEMMA SaveIInv ==
  ASSUME IInv, NEW w \in Workers, pc[w] \in {"run", "ran"},
         NEW status \in {"done", "failed", "queued"}, NEW error \in Errors,
         NEW result \in Results, Save(w, status, error, result),
         status = "done" => pc[w] = "ran" /\ error = "null" /\ result = "json",
         status = "failed" => error # "null" /\ result = "null",
         status = "queued" => MayRetry(w) /\ result = "null"
  PROVE  IInv'
<1>0. PICK j \in Jobs : j = at[w]
  BY DEF IInv, WorkerInv, Busy
<1> DEFINE new == [status |-> status, attempts |-> job[j].attempts, lock |-> "null",
                  runAfter |-> IF status = "queued" THEN "later" ELSE job[j].runAfter, error |-> error,
                  result |-> result]
<1>1. /\ at[w] = j /\ job[j] \in Rows /\ copy[w] = job[j]
      /\ job[j].status = "running" /\ job[j].lock = "fresh" /\ job[j].result = "null"
      /\ JobInv(j)
  BY <1>0 DEF IInv, TypeOK, WorkerInv, JobInv, Busy, Terminal
<1>2. new \in Rows /\ \A i \in Jobs : job'[i] = IF i = j THEN new ELSE job[i]
  BY <1>1 DEF Save, Changed, IInv, TypeOK, Rows, Results, Errors, Locks, Statuses
<1>3. /\ pc' = [pc EXCEPT ![w] = "idle"] /\ at' = [at EXCEPT ![w] = NoJob]
      /\ copy' = [copy EXCEPT ![w] = Absent] /\ runs' = runs
      /\ job' \in [Jobs -> Rows]
  BY <1>1, <1>2 DEF Save, IInv, TypeOK
<1>4. TypeOK'
  BY <1>3 DEF IInv, TypeOK, Absent, Rows, Results, Errors, Locks, Statuses
<1>5. \A i \in Jobs : JobInv(i)'
  <2>1. JobInv(j)'
    BY <1>1, <1>2, <1>3 DEF JobInv, Terminal, MayRetry, IInv, TypeOK, WorkerInv, Busy, Rows
  <2>2. ASSUME NEW i \in Jobs, i # j PROVE JobInv(i)'
    BY <1>2, <1>3, <2>2 DEF JobInv, IInv, Terminal
  <2> QED BY <2>1, <2>2
<1>6. \A v \in Workers : WorkerInv(v)'
  <2>1. ASSUME NEW v \in Workers, v # w, Busy(v)' PROVE WorkerInv(v)'
    <3>1. Busy(v) /\ pc'[v] = pc[v] /\ at'[v] = at[v] /\ copy'[v] = copy[v]
      BY <1>3, <2>1 DEF IInv, TypeOK, Busy
    <3>2. at[v] # j /\ at[v] \in Jobs /\ WorkerInv(v)
      BY <1>0, <3>1, <2>1 DEF IInv, Exclusive, WorkerInv, Busy
    <3> QED BY <3>1, <3>2, <1>2, <1>3 DEF WorkerInv
  <2>2. ~Busy(w)'
    BY <1>3 DEF Busy, IInv, TypeOK
  <2> QED BY <2>1, <2>2 DEF WorkerInv
<1>7. Exclusive'
  BY <1>3 DEF IInv, TypeOK, Exclusive, Busy
<1> QED BY <1>4, <1>5, <1>6, <1>7 DEF IInv

\* Every step of a live or crashing worker, and of time, preserves the
\* invariant; Timely is needed for one of them, the expiry of a lock.
LEMMA NextIInv == ASSUME Timely, IInv, [Next]_vars PROVE IInv'
<1> USE DEF Terminal
<1>1. ASSUME NEW j \in Jobs, Invoke(j) PROVE IInv'
  BY <1>1, InvokeIInv
<1>2. ASSUME NEW j \in Jobs, LockExpires(j) PROVE IInv'
  <2>1. job' \in [Jobs -> Rows] /\ \A i \in Jobs : i # j => job'[i] = job[i]
    BY <1>2 DEF LockExpires, IInv, TypeOK, Rows, Locks
  <2>2. ASSUME NEW i \in Jobs PROVE JobInv(i)'
    BY <1>2, <2>1 DEF LockExpires, JobInv, IInv, TypeOK, Rows
  <2>3. ASSUME NEW w \in Workers, Busy(w) PROVE at[w] # j /\ at[w] \in Jobs
    BY <1>2, <2>3 DEF LockExpires, Holds, IInv, WorkerInv
  <2> QED BY <1>2, <2>1, <2>2, <2>3, UnheldRows DEF LockExpires, IInv, TypeOK, Busy
<1>3. ASSUME NEW j \in Jobs, RetryDue(j) PROVE IInv'
  BY <1>3 DEF RetryDue, IInv, TypeOK, Rows, Results, Errors, Locks, Statuses,
              JobInv, WorkerInv, Exclusive, Busy
<1>4. ASSUME NEW w \in Workers, FailOrphans(w) PROVE IInv'
  BY <1>4, FailOrphansIInv
<1>5. ASSUME NEW w \in Workers, NEW j \in Jobs, Claim(w, j) PROVE IInv'
  BY <1>5, ClaimIInv
<1>6. ASSUME NEW w \in Workers, ClaimNothing(w) PROVE IInv'
  BY <1>6 DEF ClaimNothing, IInv, TypeOK, Rows, JobInv, WorkerInv, Exclusive, Busy
<1>7. ASSUME NEW w \in Workers, Fetch(w) PROVE IInv'
  BY <1>7 DEF Fetch, IInv, TypeOK, Rows, JobInv, WorkerInv, Exclusive, Busy
<1>8. ASSUME NEW w \in Workers, RunAction(w) PROVE IInv'
  BY <1>8 DEF RunAction, IInv, TypeOK, Rows, JobInv, WorkerInv, Exclusive, Busy
<1>9. ASSUME NEW w \in Workers, Crash(w) PROVE IInv'
  BY <1>9 DEF Crash, IInv, TypeOK, Rows, Results, Errors, Locks, Statuses, Absent,
              JobInv, WorkerInv, Exclusive, Busy
<1>10. ASSUME NEW w \in Workers, Finish(w) PROVE IInv'
  BY <1>10, SaveIInv DEF Finish, Errors, Results
<1>11. ASSUME NEW w \in Workers, pc[w] \in {"run", "ran"}
       PROVE  copy[w].result = "null"
  BY <1>11 DEF IInv, TypeOK, WorkerInv, JobInv, Busy, Rows
<1>12. ASSUME NEW w \in Workers, FailPermanently(w) PROVE IInv'
  BY <1>11, <1>12, SaveIInv DEF FailPermanently, Errors, Results
<1>13. ASSUME NEW w \in Workers, FailTransiently(w) PROVE IInv'
  <2>1. CASE MayRetry(w)
    BY <1>11, <1>13, <2>1, SaveIInv DEF FailTransiently, Errors, Results
  <2>2. CASE ~MayRetry(w)
    BY <1>11, <1>13, <2>2, SaveIInv DEF FailTransiently, Errors, Results
  <2> QED BY <2>1, <2>2
<1>14. CASE UNCHANGED vars
  BY <1>14 DEF vars, IInv, TypeOK, JobInv, WorkerInv, Exclusive, Busy
<1> QED
  BY <1>1, <1>2, <1>3, <1>4, <1>5, <1>6, <1>7, <1>8, <1>9, <1>10, <1>12, <1>13,
     <1>14 DEF Next, WorkerStep, ClaimStep, Outcome

\* The invariant holds in every reachable state.
LEMMA Invariance == ASSUME Timely PROVE Spec => []IInv
BY InitIInv, NextIInv, PTL DEF Spec

\* Claims are exclusive, attempts never exceed MAX_ATTEMPTS and what a poller
\* reads of an ended job is consistent, however many workers run and crash.
THEOREM TimelySafety ==
  ASSUME Timely
  PROVE  Spec => [](TypeOK /\ TimelySafe)
<1>1. IInv => TypeOK /\ TimelySafe
  BY DEF IInv, JobInv, WorkerInv, Exclusive, Terminal, Busy, Holds, SingleRunner,
         AttemptsBounded, OutcomeConsistent, TimelySafe
<1> QED BY <1>1, Invariance, PTL

\* No step rewrites a job that ended: every writer still holds its job, and a
\* held job is running.
THEOREM TimelyOutcomeFinal == ASSUME Timely PROVE Spec => OutcomeFinal
<1>1. ASSUME IInv, [Next]_vars, NEW j \in Jobs, job[j].status \in Terminal
      PROVE  job'[j] = job[j]
  <2> USE <1>1 DEF Terminal
  <2>1. ASSUME NEW w \in Workers, NEW s, NEW e, NEW r, pc[w] \in {"run", "ran"},
               Save(w, s, e, r)
        PROVE  job'[j] = job[j]
    <3>1. at[w] \in Jobs /\ at[w] # j
      BY <2>1 DEF IInv, WorkerInv, Busy
    <3> QED BY <2>1, <3>1 DEF Save, IInv, TypeOK
  <2>2. ASSUME NEW w \in Workers, Outcome(w) PROVE job'[j] = job[j]
    BY <2>1, <2>2 DEF Outcome, RunAction, Finish, FailPermanently, FailTransiently
  <2>3. ASSUME NEW w \in Workers, FailOrphans(w) \/ ClaimStep(w) \/ Fetch(w) \/ Crash(w)
        PROVE  job'[j] = job[j]
    BY <2>3 DEF FailOrphans, Exhausted, Stale, ClaimStep, ClaimNothing, Claim,
                Claimable, Fetch, Crash, IInv, TypeOK
  <2>4. ASSUME NEW i \in Jobs, Invoke(i) \/ LockExpires(i) \/ RetryDue(i)
        PROVE  job'[j] = job[j]
    BY <2>4 DEF Invoke, LockExpires, RetryDue, IInv, TypeOK
  <2> QED BY <2>2, <2>3, <2>4 DEF Next, WorkerStep, vars
<1>2. IInv /\ [Next]_vars =>
        [\A j \in Jobs : job[j].status \in Terminal => job'[j] = job[j]]_vars
  BY <1>1
<1> QED BY <1>2, Invariance, PTL DEF Spec, OutcomeFinal

(***************************************************************************)
(* The same queue when workers may outlive the stale lock (Slow), for      *)
(* MAX_ATTEMPTS = 2, its value in jobs.ts.  Two workers then write the     *)
(* outcome of one row from copies of different ages.                       *)
(***************************************************************************)

SlowRow(j) ==
  /\ sJob[j].attempts <= 3
  /\ sJob[j].status = "absent" => sJob[j].attempts = 0
  /\ sJob[j].status = "running" => sJob[j].lock # "null"
  /\ sJob[j].status = "queued" => sJob[j].lock = "null" /\ sJob[j].attempts <= 2
  /\ sJob[j].status \in Terminal /\ sJob[j].lock # "null" => sJob[j].attempts = 3

\* Only who has the copy of the first attempt may put the job back on the queue.
FirstTry(w) ==
  /\ Slow!Busy(w)
  /\ IF sPc[w] = "fetch" THEN sJob[sAt[w]].attempts = 1 ELSE sCopy[w].attempts = 1

FirstInv ==
  /\ \A v, w \in SlowWorkers : FirstTry(v) /\ FirstTry(w) /\ sAt[v] = sAt[w] => v = w
  /\ \A w \in SlowWorkers : FirstTry(w) => sJob[sAt[w]].status # "queued" /\ sJob[sAt[w]].attempts <= 2

\* What a copy c may say of the row r it was read from.
CopyOf(c, r) ==
  /\ c.attempts \in 1..r.attempts
  /\ c.status # "absent"
  /\ c.attempts = 1 => c.status = "running"
  /\ c.status = "running" => c.lock # "null"
  /\ c.status = "queued" => c.lock = "null"
  /\ c.status # "running" /\ r.status = "running" => c.attempts < r.attempts
  /\ c.status \in Terminal /\ c.lock # "null" => c.attempts = 3 /\ r.status \in Terminal

SlowHolder(w) ==
  Slow!Busy(w) =>
    /\ sAt[w] \in SlowJobs /\ sJob[sAt[w]].attempts >= 1
    /\ sPc[w] = "fetch" /\ sJob[sAt[w]].attempts = 1 => sJob[sAt[w]].status = "running"
    /\ sPc[w] \in {"run", "ran"} => CopyOf(sCopy[w], sJob[sAt[w]])

SlowInv ==
  /\ Slow!TypeOK
  /\ \A j \in SlowJobs : SlowRow(j)
  /\ \A w \in SlowWorkers : SlowHolder(w)
  /\ FirstInv

LEMMA InitSlowInv == Slow!Init => SlowInv
BY DEF Slow!Init, SlowInv, Slow!TypeOK, Slow!Rows, Slow!Results, Slow!Errors, Slow!Locks, Slow!Statuses, Terminal,
       SlowRow, SlowHolder, FirstInv, FirstTry, Slow!Busy, Slow!Absent

\* A row changes under its holders, or one of them lets it go: what it has to keep for
\* those that stay.
LEMMA RowSteps ==
  ASSUME SlowInv, Slow!TypeOK', NEW j \in SlowJobs, NEW r \in Slow!Rows, sJob' = [sJob EXCEPT ![j] = r],
         r.attempts = sJob[j].attempts, SlowRow(j)',
         r.status = "running" => sJob[j].status = "running",
         sJob[j].status \in Terminal => r.status \in Terminal \/ (r.status = "queued" /\ r.attempts <= 2),
         \A w \in SlowWorkers : Slow!Busy(w)' =>
           /\ Slow!Busy(w) /\ sPc'[w] = sPc[w] /\ sAt'[w] = sAt[w] /\ sCopy'[w] = sCopy[w]
           /\ FirstTry(w) /\ sAt[w] = j => r.status # "queued" /\ (r.status = "running" \/ sPc[w] # "fetch")
  PROVE  SlowInv'
<1>1. sJob'[j] = r /\ \A i \in SlowJobs : i # j => sJob'[i] = sJob[i]
  BY DEF SlowInv, Slow!TypeOK
<1>2. \A i \in SlowJobs : SlowRow(i)'
  BY <1>1 DEF SlowInv, SlowRow
<1>3. ASSUME NEW w \in SlowWorkers, Slow!Busy(w)' PROVE SlowHolder(w)' /\ (FirstTry(w)' <=> FirstTry(w))
  <2>1. CASE sAt[w] # j
    BY <1>1, <1>3, <2>1 DEF SlowInv, SlowHolder, FirstTry, CopyOf, Slow!Busy
  <2>2. CASE sAt[w] = j
    BY <1>1, <1>3, <2>2 DEF SlowInv, SlowHolder, SlowRow, FirstTry, CopyOf, Slow!TypeOK, Slow!Rows, Terminal,
    Slow!Busy
  <2> QED BY <2>1, <2>2
<1>4. FirstInv'
  BY <1>1, <1>3 DEF FirstInv, SlowInv, SlowHolder, FirstTry
<1> QED BY <1>2, <1>3, <1>4 DEF SlowInv, SlowHolder

\* A worker lets its job go.
LEMMA WorkerGone ==
  ASSUME SlowInv, NEW w \in SlowWorkers, UNCHANGED <<sJob, sRuns>>, sPc' = [sPc EXCEPT ![w] = "idle"],
         sAt' = [sAt EXCEPT ![w] = Slow!NoJob], sCopy' = [sCopy EXCEPT ![w] = Slow!Absent]
  PROVE  SlowInv'
BY DEF SlowInv, Slow!TypeOK, Slow!Rows, Slow!Results, Slow!Errors, Slow!Locks, Slow!Statuses, Slow!Absent,
       SlowRow, SlowHolder, FirstInv, FirstTry, CopyOf, Slow!Busy

LEMMA SlowClaim ==
  ASSUME MaxAttempts = 2, SlowInv, NEW w \in SlowWorkers, NEW j \in SlowJobs, Slow!Claim(w, j)
  PROVE  SlowInv'
BY DEF Slow!Claim, Slow!Claimable, Slow!Stale, SlowInv, Slow!TypeOK, Slow!Rows, Slow!Locks, Slow!Statuses,
       SlowRow, SlowHolder, FirstInv, FirstTry, CopyOf, Slow!Busy, Terminal

\* The outcome is written column by column, where the copy and the row differ.
LEMMA SlowSave ==
  ASSUME MaxAttempts = 2, SlowInv, NEW w \in SlowWorkers, sPc[w] \in {"run", "ran"},
         NEW status \in {"done", "failed", "queued"}, NEW error \in Slow!Errors,
         NEW result \in Slow!Results, Slow!Save(w, status, error, result),
         status = "queued" => Slow!MayRetry(w)
  PROVE  SlowInv'
<1>1. PICK j \in SlowJobs, c \in Slow!Rows :
        /\ sAt[w] = j /\ sCopy[w] = c /\ CopyOf(c, sJob[j]) /\ SlowRow(j) /\ sJob[j] \in Slow!Rows
        /\ status = "queued" => FirstTry(w) /\ c.attempts = 1
  BY DEF SlowInv, SlowHolder, Slow!Busy, Slow!TypeOK, Slow!MayRetry, FirstTry, CopyOf, Slow!Rows
<1>2. PICK st \in Slow!Statuses, lk \in Slow!Locks, er \in Slow!Errors, re \in Slow!Results,
           due \in {"now", "later"} :
        /\ st = Slow!Changed(sJob[j].status, c.status, status)
        /\ lk = Slow!Changed(sJob[j].lock, c.lock, "null")
        /\ er = Slow!Changed(sJob[j].error, c.error, error)
        /\ re = Slow!Changed(sJob[j].result, c.result, result)
        /\ due = IF status = "queued" THEN "later" ELSE sJob[j].runAfter
  BY <1>1 DEF Slow!Rows, Slow!Changed, Slow!Results, Slow!Errors, Slow!Locks, Slow!Statuses
<1>3. PICK row \in Slow!Rows : row = sJob[j]
  BY <1>1
<1> DEFINE r == [row EXCEPT !.status = st, !.lock = lk, !.error = er, !.result = re, !.runAfter = due]
<1>4. /\ sPc' = [sPc EXCEPT ![w] = "idle"] /\ sAt' = [sAt EXCEPT ![w] = Slow!NoJob]
      /\ sCopy' = [sCopy EXCEPT ![w] = Slow!Absent] /\ sRuns' = sRuns
      /\ sJob' = [sJob EXCEPT ![j] = r]
  BY <1>1, <1>2, <1>3 DEF Slow!Save, SlowInv, Slow!TypeOK
<1>5. /\ r \in Slow!Rows
      /\ r.status = st /\ r.attempts = row.attempts /\ r.lock = lk
  BY <1>3 DEF Slow!Rows
<1>6. PICK s \in Slow!Rows : s = r
  BY <1>5
<1> HIDE DEF r
<1>7. Slow!TypeOK' /\ sJob'[j] = s
  <2>1. Slow!Absent \in Slow!Rows
    BY DEF Slow!Absent, Slow!Rows, Slow!Results, Slow!Errors, Slow!Locks, Slow!Statuses
  <2> QED BY <1>4, <1>6, <2>1 DEF SlowInv, Slow!TypeOK
<1>8. SlowRow(j)'
  <2>1. /\ sJob'[j].status = Slow!Changed(sJob[j].status, c.status, status)
        /\ sJob'[j].lock = Slow!Changed(sJob[j].lock, c.lock, "null") /\ sJob'[j].attempts = sJob[j].attempts
        /\ sJob[j].attempts \in Nat /\ sJob[j].status \in Slow!Statuses /\ c.status \in Slow!Statuses
    BY <1>1, <1>2, <1>3, <1>5, <1>6, <1>7 DEF Slow!Rows
  <2>2. status = "queued" => sJob[j].attempts <= 2
    BY <1>1 DEF SlowInv, FirstInv
  <2>3. CASE c.status = "running"
    BY <1>1, <2>1, <2>2, <2>3 DEF SlowRow, CopyOf, Slow!Changed, Terminal
  <2>4. CASE c.status # "running"
    <3>1. status # "queued" /\ c.status # "absent" /\ c.attempts \in Nat
      BY <1>1, <2>4 DEF CopyOf, Slow!Rows
    <3> QED BY <1>1, <2>1, <2>4, <3>1 DEF SlowRow, CopyOf, Slow!Changed, Terminal, Slow!Statuses
  <2> QED BY <2>3, <2>4
<1>9. ASSUME NEW v \in SlowWorkers, Slow!Busy(v)'
      PROVE  /\ v # w /\ Slow!Busy(v) /\ sPc'[v] = sPc[v] /\ sAt'[v] = sAt[v] /\ sCopy'[v] = sCopy[v]
  BY <1>4, <1>9 DEF Slow!Busy, SlowInv, Slow!TypeOK
<1>10. ASSUME NEW v \in SlowWorkers, v # w, FirstTry(v), sAt[v] = j
      PROVE  s.status # "queued" /\ (s.status = "running" \/ sPc[v] # "fetch")
  <2>1. status # "queued" /\ sJob[j].status # "queued"
    BY <1>1, <1>10 DEF SlowInv, FirstInv
  <2>2. CASE sPc[v] = "fetch"
    <3>1. sJob[j].attempts = 1 /\ c.attempts = 1
      BY <1>1, <1>10, <2>2 DEF FirstTry, CopyOf, Slow!Rows
    <3>2. FirstTry(w)
      BY <1>1, <3>1 DEF FirstTry, Slow!Busy
    <3> QED BY <1>1, <1>10, <3>2 DEF SlowInv, FirstInv
  <2>3. s.status # "queued"
    BY <1>2, <1>5, <1>6, <2>1 DEF Slow!Changed
  <2> QED BY <2>2, <2>3
<1>11. /\ s.status = "running" => sJob[j].status = "running"
       /\ sJob[j].status \in Terminal => s.status \in Terminal \/ (s.status = "queued" /\ s.attempts <= 2)
       /\ s.attempts = sJob[j].attempts
  <2>1. status = "queued" => sJob[j].attempts <= 2
    BY <1>1 DEF SlowInv, FirstInv
  <2> QED BY <1>2, <1>3, <1>5, <1>6, <2>1 DEF Slow!Changed, Terminal
<1> QED BY <1>4, <1>6, <1>7, <1>8, <1>9, <1>10, <1>11, RowSteps

\* Every step preserves it, of time too.
LEMMA NextSlowInv == ASSUME MaxAttempts = 2, SlowInv, [Slow!Next]_(Slow!vars) PROVE SlowInv'
<1>1. ASSUME NEW j \in SlowJobs, Slow!Invoke(j) PROVE SlowInv'
  BY <1>1 DEF Slow!Invoke, Slow!NewJob, SlowInv, Slow!TypeOK, Slow!Rows, Slow!Results, Slow!Errors,
  Slow!Locks,
              Slow!Statuses, SlowRow, SlowHolder, FirstInv, FirstTry, CopyOf, Slow!Busy, Terminal
<1>2. ASSUME NEW j \in SlowJobs, Slow!LockExpires(j) \/ Slow!RetryDue(j) PROVE SlowInv'
  <2>1. PICK row \in Slow!Rows : row = sJob[j]
    BY DEF SlowInv, Slow!TypeOK
  <2>2. PICK r \in Slow!Rows :
          /\ sJob' = [sJob EXCEPT ![j] = r] /\ r.status = row.status /\ r.attempts = row.attempts
          /\ r.lock = row.lock \/ (r.status = "running" /\ r.lock = "stale")
          /\ row.status \in {"running", "queued"}
    <3>1. CASE Slow!LockExpires(j)
      <4>1. /\ [row EXCEPT !.lock = "stale"] \in Slow!Rows
            /\ [row EXCEPT !.lock = "stale"].status = row.status
            /\ [row EXCEPT !.lock = "stale"].attempts = row.attempts
            /\ [row EXCEPT !.lock = "stale"].lock = "stale"
        BY DEF Slow!Rows, Slow!Locks
      <4>2. sJob' = [sJob EXCEPT ![j] = [row EXCEPT !.lock = "stale"]] /\ row.status = "running"
        BY <2>1, <3>1 DEF Slow!LockExpires, SlowInv, Slow!TypeOK
      <4> QED BY <4>1, <4>2
    <3>2. CASE Slow!RetryDue(j)
      <4>1. /\ [row EXCEPT !.runAfter = "now"] \in Slow!Rows
            /\ [row EXCEPT !.runAfter = "now"].status = row.status
            /\ [row EXCEPT !.runAfter = "now"].attempts = row.attempts
            /\ [row EXCEPT !.runAfter = "now"].lock = row.lock
        BY DEF Slow!Rows
      <4>2. sJob' = [sJob EXCEPT ![j] = [row EXCEPT !.runAfter = "now"]] /\ row.status = "queued"
        BY <2>1, <3>2 DEF Slow!RetryDue, SlowInv, Slow!TypeOK
      <4> QED BY <4>1, <4>2
    <3> QED BY <1>2, <3>1, <3>2
  <2>3. UNCHANGED <<sPc, sAt, sCopy, sRuns>>
    BY <1>2 DEF Slow!LockExpires, Slow!RetryDue
  <2>4. Slow!TypeOK' /\ sJob'[j] = r
    BY <2>2, <2>3 DEF SlowInv, Slow!TypeOK
  <2>5. SlowRow(j)'
    BY <2>1, <2>2, <2>4 DEF SlowInv, SlowRow, Terminal
  <2>6. ASSUME NEW w \in SlowWorkers, Slow!Busy(w)'
        PROVE  Slow!Busy(w) /\ (FirstTry(w) /\ sAt[w] = j =>
                                   r.status # "queued" /\ (r.status = "running" \/ sPc[w] # "fetch"))
    BY <2>1, <2>2, <2>3, <2>6 DEF SlowInv, FirstInv, Slow!Busy
  <2> QED BY <2>1, <2>2, <2>3, <2>4, <2>5, <2>6, RowSteps DEF Terminal
<1>3. ASSUME NEW w \in SlowWorkers, Slow!FailOrphans(w) PROVE SlowInv'
  <2>1. ASSUME NEW i \in SlowJobs
        PROVE  /\ sJob'[i] \in Slow!Rows /\ SlowRow(i)' /\ sJob'[i].attempts = sJob[i].attempts
               /\ \/ sJob'[i] = sJob[i]
                  \/ /\ sJob[i].status = "running" /\ sJob[i].attempts >= 2 /\ sJob'[i].status = "failed"
                     /\ sJob'[i].lock = "null"
    BY <1>3 DEF Slow!FailOrphans, Slow!Exhausted, Slow!Stale, SlowInv, Slow!TypeOK, Slow!Rows, Slow!Errors,
                Slow!Locks, Slow!Statuses, SlowRow, Terminal
  <2>2. Slow!TypeOK'
    BY <1>3, <2>1 DEF Slow!FailOrphans, SlowInv, Slow!TypeOK
  <2>3. UNCHANGED <<sAt, sCopy>> /\ \A v \in SlowWorkers : Slow!Busy(v)' => Slow!Busy(v) /\ sPc'[v] = sPc[v]
    BY <1>3 DEF Slow!FailOrphans, SlowInv, Slow!TypeOK, Slow!Busy
  <2>4. ASSUME NEW v \in SlowWorkers, Slow!Busy(v)' PROVE SlowHolder(v)' /\ (FirstTry(v)' <=> FirstTry(v))
    <3>1. PICK i \in SlowJobs : i = sAt[v] /\ sAt'[v] = i /\ Slow!Busy(v) /\ sPc'[v] = sPc[v]
      BY <2>3, <2>4 DEF SlowInv, SlowHolder
    <3>2. CASE sJob'[i] = sJob[i]
      BY <2>3, <3>1, <3>2 DEF SlowInv, SlowHolder, FirstTry, CopyOf, Slow!Busy
    <3>3. CASE sJob'[i] # sJob[i]
      <4>1. /\ sJob[i].attempts >= 2 /\ sJob'[i].attempts = sJob[i].attempts /\ sJob'[i].status = "failed"
            /\ sJob[i].attempts \in Nat
        BY <2>1, <3>3 DEF SlowInv, Slow!TypeOK, Slow!Rows
      <4> QED BY <2>3, <3>1, <4>1 DEF SlowInv, SlowHolder, FirstTry, CopyOf, Slow!Busy, Terminal
    <3> QED BY <3>2, <3>3
  <2>5. FirstInv'
    <3>1. ASSUME NEW v \in SlowWorkers, FirstTry(v)'
          PROVE  /\ FirstTry(v) /\ sAt'[v] = sAt[v]
                 /\ sJob'[sAt'[v]].status # "queued" /\ sJob'[sAt'[v]].attempts <= 2
      <4>1. PICK i \in SlowJobs : i = sAt[v] /\ sAt'[v] = i /\ FirstTry(v)
        BY <2>3, <2>4, <3>1 DEF SlowInv, SlowHolder, FirstTry
      <4>2. sJob[i].status # "queued" /\ sJob[i].attempts <= 2
        BY <4>1 DEF SlowInv, FirstInv
      <4> QED BY <2>1, <4>1, <4>2
    <3> QED BY <3>1 DEF SlowInv, FirstInv
  <2>6. \A v \in SlowWorkers : SlowHolder(v)'
    BY <2>4 DEF SlowHolder
  <2> QED BY <2>1, <2>2, <2>5, <2>6 DEF SlowInv
<1>4. ASSUME NEW w \in SlowWorkers, NEW j \in SlowJobs, Slow!Claim(w, j) PROVE SlowInv'
  BY <1>4, SlowClaim
<1>5. ASSUME NEW w \in SlowWorkers, Slow!ClaimNothing(w) \/ Slow!RunAction(w) PROVE SlowInv'
  <2>1. /\ UNCHANGED <<sJob, sAt, sCopy>>
        /\ sPc' = [sPc EXCEPT ![w] = "idle"] \/ (sPc[w] = "run" /\ sPc' = [sPc EXCEPT ![w] = "ran"])
    BY <1>5 DEF Slow!ClaimNothing, Slow!RunAction
  <2>2. Slow!TypeOK'
    BY <1>5, <2>1 DEF Slow!ClaimNothing, Slow!RunAction, SlowInv, Slow!TypeOK
  <2>3. ASSUME NEW v \in SlowWorkers PROVE SlowHolder(v)' /\ (FirstTry(v)' => FirstTry(v))
    BY <2>1 DEF SlowInv, Slow!TypeOK, SlowHolder, FirstTry, Slow!Busy, CopyOf
  <2>4. (\A j \in SlowJobs : SlowRow(j)') /\ FirstInv'
    BY <2>1, <2>3 DEF SlowInv, SlowRow, FirstInv
  <2> QED BY <2>2, <2>3, <2>4 DEF SlowInv
<1>6. ASSUME NEW w \in SlowWorkers, Slow!Fetch(w) PROVE SlowInv'
  BY <1>6 DEF Slow!Fetch, SlowInv, Slow!TypeOK, Slow!Rows, SlowRow, SlowHolder, FirstInv, FirstTry, CopyOf,
              Slow!Busy, Terminal
<1>7. ASSUME NEW w \in SlowWorkers, Slow!Crash(w) PROVE SlowInv'
  BY <1>7, WorkerGone DEF Slow!Crash
<1>8. ASSUME NEW w \in SlowWorkers, Slow!Finish(w) PROVE SlowInv'
  BY <1>8, SlowSave DEF Slow!Finish, Slow!Errors, Slow!Results
<1>9. ASSUME NEW w \in SlowWorkers, Slow!FailPermanently(w) \/ Slow!FailTransiently(w) PROVE SlowInv'
  <2>1. PICK res \in Slow!Results : res = sCopy[w].result
    BY DEF SlowInv, Slow!TypeOK, Slow!Rows
  <2>2. CASE Slow!FailPermanently(w)
    BY <2>1, <2>2, SlowSave DEF Slow!FailPermanently, Slow!Errors
  <2>3. CASE Slow!FailTransiently(w) /\ Slow!MayRetry(w)
    BY <2>1, <2>3, SlowSave DEF Slow!FailTransiently, Slow!Errors
  <2>4. CASE Slow!FailTransiently(w) /\ ~Slow!MayRetry(w)
    BY <2>1, <2>4, SlowSave DEF Slow!FailTransiently, Slow!Errors
  <2> QED BY <1>9, <2>2, <2>3, <2>4
<1>10. CASE UNCHANGED Slow!vars
  BY <1>10 DEF Slow!vars, SlowInv, Slow!TypeOK, SlowRow, SlowHolder, FirstInv, FirstTry, Slow!Busy
<1> QED
  BY <1>1, <1>2, <1>3, <1>4, <1>5, <1>6, <1>7, <1>8, <1>9, <1>10
  DEF Slow!Next, Slow!WorkerStep, Slow!ClaimStep, Slow!Outcome

LEMMA SlowWithin == AssistantBehaviour => Slow!Spec
<1>1. AssistantInit => Slow!Init
  BY DEF AssistantInit
<1>2. [AssistantNext]_assistant => [Slow!Next]_(Slow!vars)
  BY DEF AssistantNext, assistant, slow, Slow!vars
<1> QED BY <1>1, <1>2, PTL DEF AssistantBehaviour, Slow!Spec

\* However the writes of workers that outlived the stale lock overlap, no job is left
\* with a row nobody can claim, and none is claimed a fourth time (claimJob and
\* processOneJob with their MAX_ATTEMPTS of 2).
THEOREM SlowSafety == ASSUME MaxAttempts = 2 PROVE AssistantBehaviour => []SlowerSafe
<1>1. SlowInv => SlowerSafe
  BY DEF SlowInv, SlowRow, SlowerSafe, Slow!SlowSafe, Slow!NeverStranded, Slow!AttemptsCapped
<1> QED BY <1>1, InitSlowInv, NextSlowInv, SlowWithin, PTL DEF Slow!Spec

(***************************************************************************)
(* The types, whether workers are in time or not.                          *)
(***************************************************************************)

\* The types of the jobs, for any workers: a worker at a job is at one of the table.
\* The same lemma serves the three instances.
JobsTyped == TypeOK /\ \A w \in Workers : Busy(w) => at[w] \in Jobs

LEMMA JobTypes ==
  ASSUME JobsTyped,
         \/ \E w \in Workers : WorkerStep(w) \/ Crash(w)
         \/ \E j \in Jobs : Invoke(j) \/ LockExpires(j) \/ RetryDue(j)
  PROVE  JobsTyped'
<1> USE DEF JobsTyped, TypeOK, Busy
<1>1. Absent \in Rows /\ NewJob \in Rows
  BY DEF Absent, NewJob, Rows, Results, Errors, Locks, Statuses
<1>2. ASSUME NEW w \in Workers, Busy(w), NEW st \in {"done", "failed", "queued"}, NEW er \in Errors,
             NEW re \in Results, Save(w, st, er, re)
      PROVE  JobsTyped'
  <2>1. PICK j \in Jobs, c \in Rows, row \in Rows : j = at[w] /\ c = copy[w] /\ row = job[j]
    BY <1>2
  <2>2. PICK s \in Statuses, lk \in Locks, e \in Errors, rs \in Results, due \in {"now", "later"} :
          /\ s = Changed(row.status, c.status, st) /\ lk = Changed(row.lock, c.lock, "null")
          /\ e = Changed(row.error, c.error, er) /\ rs = Changed(row.result, c.result, re)
          /\ due = IF st = "queued" THEN "later" ELSE row.runAfter
    BY <2>1 DEF Changed, Rows, Results, Errors, Locks, Statuses
  <2>3. [row EXCEPT !.status = s, !.lock = lk, !.error = e, !.result = rs, !.runAfter = due] \in Rows
    BY <2>1 DEF Rows
  <2>4. job' = [job EXCEPT
          ![j] = [row EXCEPT !.status = s, !.lock = lk, !.error = e, !.result = rs, !.runAfter = due]]
    BY <1>2, <2>1, <2>2 DEF Save
  <2>5. job' \in [Jobs -> Rows]
    BY <2>3, <2>4
  <2> QED BY <1>1, <1>2, <2>5 DEF Save
<1>3. ASSUME NEW w \in Workers, Outcome(w) PROVE JobsTyped'
  <2>1. copy[w].result \in Results
    BY DEF Rows
  <2>2. CASE RunAction(w)
    <3>1. runs[at[w]] \in Nat /\ runs' \in [Jobs -> Nat]
      BY <2>2 DEF RunAction
    <3> QED BY <2>2, <3>1 DEF RunAction
  <2>3. CASE Finish(w)
    BY <1>2, <2>3 DEF Finish, Errors, Results
  <2>4. CASE FailPermanently(w)
    BY <1>2, <2>1, <2>4 DEF FailPermanently, Errors
  <2>5. CASE FailTransiently(w)
    BY <1>2, <2>1, <2>5 DEF FailTransiently, Errors
  <2> QED BY <1>3, <2>2, <2>3, <2>4, <2>5 DEF Outcome
<1>4. ASSUME NEW w \in Workers, FailOrphans(w) PROVE JobsTyped'
  <2>1. \A i \in Jobs : job'[i] \in Rows
    BY <1>4 DEF FailOrphans, Rows, Errors, Locks, Statuses
  <2> QED BY <1>4, <2>1 DEF FailOrphans
<1>5. ASSUME NEW w \in Workers, ClaimStep(w) PROVE JobsTyped'
  <2>1. CASE ClaimNothing(w)
    BY <2>1 DEF ClaimNothing
  <2>2. ASSUME NEW j \in Jobs, Claim(w, j) PROVE JobsTyped'
    <3>1. PICK row \in Rows : row = job[j]
      OBVIOUS
    <3>2. PICK n \in Nat : n = row.attempts + 1
      BY <3>1 DEF Rows
    <3>3. [row EXCEPT !.status = "running", !.lock = "fresh", !.attempts = n] \in Rows
      BY <3>1 DEF Rows, Locks, Statuses
    <3>4. job' = [job EXCEPT ![j] = [row EXCEPT !.status = "running", !.lock = "fresh", !.attempts = n]]
      BY <2>2, <3>1, <3>2 DEF Claim
    <3>5. job' \in [Jobs -> Rows]
      BY <3>3, <3>4
    <3> QED BY <2>2, <3>5 DEF Claim
  <2> QED BY <1>5, <2>1, <2>2 DEF ClaimStep
<1>6. ASSUME NEW w \in Workers, Fetch(w) \/ Crash(w) PROVE JobsTyped'
  BY <1>1, <1>6 DEF Fetch, Crash
<1>7. ASSUME NEW j \in Jobs, Invoke(j) \/ LockExpires(j) \/ RetryDue(j) PROVE JobsTyped'
  <2>1. PICK row \in Rows : row = job[j]
    OBVIOUS
  <2>2. [row EXCEPT !.lock = "stale"] \in Rows /\ [row EXCEPT !.runAfter = "now"] \in Rows
    BY <2>1 DEF Rows, Locks
  <2>3. UNCHANGED <<pc, at, copy, runs>> /\ job' \in [Jobs -> Rows]
    BY <1>1, <1>7, <2>1, <2>2 DEF Invoke, LockExpires, RetryDue
  <2> QED BY <2>3
<1> QED BY <1>3, <1>4, <1>5, <1>6, <1>7 DEF WorkerStep

\* Slow workers.
SlowJobsTyped == Slow!TypeOK /\ \A w \in SlowWorkers : Slow!Busy(w) => sAt[w] \in SlowJobs

LEMMA SlowJobTypes ==
  ASSUME SlowJobsTyped,
         \/ \E w \in SlowWorkers : Slow!WorkerStep(w) \/ Slow!Crash(w)
         \/ \E j \in SlowJobs : Slow!Invoke(j) \/ Slow!LockExpires(j) \/ Slow!RetryDue(j)
  PROVE  SlowJobsTyped'
<1> USE DEF SlowJobsTyped, Slow!TypeOK, Slow!Busy
<1>1. Slow!Absent \in Slow!Rows /\ Slow!NewJob \in Slow!Rows
  BY DEF Slow!Absent, Slow!NewJob, Slow!Rows, Slow!Results, Slow!Errors, Slow!Locks, Slow!Statuses
<1>2. ASSUME NEW w \in SlowWorkers, Slow!Busy(w), NEW st \in {"done", "failed", "queued"},
             NEW er \in Slow!Errors,
             NEW re \in Slow!Results, Slow!Save(w, st, er, re)
      PROVE  SlowJobsTyped'
  <2>1. PICK j \in SlowJobs, c \in Slow!Rows, row \in Slow!Rows : j = sAt[w] /\ c = sCopy[w] /\ row = sJob[j]
    BY <1>2
  <2>2. PICK s \in Slow!Statuses, lk \in Slow!Locks, e \in Slow!Errors, rs \in Slow!Results,
  due \in {"now", "later"} :
          /\ s = Slow!Changed(row.status, c.status, st) /\ lk = Slow!Changed(row.lock, c.lock, "null")
          /\ e = Slow!Changed(row.error, c.error, er) /\ rs = Slow!Changed(row.result, c.result, re)
          /\ due = IF st = "queued" THEN "later" ELSE row.runAfter
    BY <2>1 DEF Slow!Changed, Slow!Rows, Slow!Results, Slow!Errors, Slow!Locks, Slow!Statuses
  <2>3. [row EXCEPT !.status = s, !.lock = lk, !.error = e, !.result = rs, !.runAfter = due] \in Slow!Rows
    BY <2>1 DEF Slow!Rows
  <2>4. sJob' = [sJob EXCEPT
          ![j] = [row EXCEPT !.status = s, !.lock = lk, !.error = e, !.result = rs, !.runAfter = due]]
    BY <1>2, <2>1, <2>2 DEF Slow!Save
  <2>5. sJob' \in [SlowJobs -> Slow!Rows]
    BY <2>3, <2>4
  <2> QED BY <1>1, <1>2, <2>5 DEF Slow!Save
<1>3. ASSUME NEW w \in SlowWorkers, Slow!Outcome(w) PROVE SlowJobsTyped'
  <2>1. sCopy[w].result \in Slow!Results
    BY DEF Slow!Rows
  <2>2. CASE Slow!RunAction(w)
    <3>1. sRuns[sAt[w]] \in Nat /\ sRuns' \in [SlowJobs -> Nat]
      BY <2>2 DEF Slow!RunAction
    <3> QED BY <2>2, <3>1 DEF Slow!RunAction
  <2>3. CASE Slow!Finish(w)
    BY <1>2, <2>3 DEF Slow!Finish, Slow!Errors, Slow!Results
  <2>4. CASE Slow!FailPermanently(w)
    BY <1>2, <2>1, <2>4 DEF Slow!FailPermanently, Slow!Errors
  <2>5. CASE Slow!FailTransiently(w)
    BY <1>2, <2>1, <2>5 DEF Slow!FailTransiently, Slow!Errors
  <2> QED BY <1>3, <2>2, <2>3, <2>4, <2>5 DEF Slow!Outcome
<1>4. ASSUME NEW w \in SlowWorkers, Slow!FailOrphans(w) PROVE SlowJobsTyped'
  <2>1. \A i \in SlowJobs : sJob'[i] \in Slow!Rows
    BY <1>4 DEF Slow!FailOrphans, Slow!Rows, Slow!Errors, Slow!Locks, Slow!Statuses
  <2> QED BY <1>4, <2>1 DEF Slow!FailOrphans
<1>5. ASSUME NEW w \in SlowWorkers, Slow!ClaimStep(w) PROVE SlowJobsTyped'
  <2>1. CASE Slow!ClaimNothing(w)
    BY <2>1 DEF Slow!ClaimNothing
  <2>2. ASSUME NEW j \in SlowJobs, Slow!Claim(w, j) PROVE SlowJobsTyped'
    <3>1. PICK row \in Slow!Rows : row = sJob[j]
      OBVIOUS
    <3>2. PICK n \in Nat : n = row.attempts + 1
      BY <3>1 DEF Slow!Rows
    <3>3. [row EXCEPT !.status = "running", !.lock = "fresh", !.attempts = n] \in Slow!Rows
      BY <3>1 DEF Slow!Rows, Slow!Locks, Slow!Statuses
    <3>4. sJob' = [sJob EXCEPT ![j] = [row EXCEPT !.status = "running", !.lock = "fresh", !.attempts = n]]
      BY <2>2, <3>1, <3>2 DEF Slow!Claim
    <3>5. sJob' \in [SlowJobs -> Slow!Rows]
      BY <3>3, <3>4
    <3> QED BY <2>2, <3>5 DEF Slow!Claim
  <2> QED BY <1>5, <2>1, <2>2 DEF Slow!ClaimStep
<1>6. ASSUME NEW w \in SlowWorkers, Slow!Fetch(w) \/ Slow!Crash(w) PROVE SlowJobsTyped'
  BY <1>1, <1>6 DEF Slow!Fetch, Slow!Crash
<1>7. ASSUME NEW j \in SlowJobs,
             Slow!Invoke(j) \/ Slow!LockExpires(j) \/ Slow!RetryDue(j)
      PROVE  SlowJobsTyped'
  <2>1. PICK row \in Slow!Rows : row = sJob[j]
    OBVIOUS
  <2>2. [row EXCEPT !.lock = "stale"] \in Slow!Rows /\ [row EXCEPT !.runAfter = "now"] \in Slow!Rows
    BY <2>1 DEF Slow!Rows, Slow!Locks
  <2>3. UNCHANGED <<sPc, sAt, sCopy, sRuns>> /\ sJob' \in [SlowJobs -> Slow!Rows]
    BY <1>1, <1>7, <2>1, <2>2 DEF Slow!Invoke, Slow!LockExpires, Slow!RetryDue
  <2> QED BY <2>3
<1> QED BY <1>3, <1>4, <1>5, <1>6, <1>7 DEF Slow!WorkerStep

\* Workers with their loop.
LoopJobsTyped == Loop!TypeOK /\ \A w \in LoopWorkers : Loop!Busy(w) => lAt[w] \in LoopJobs

LEMMA LoopJobTypes ==
  ASSUME LoopJobsTyped,
         \/ \E w \in LoopWorkers : Loop!WorkerStep(w) \/ Loop!Crash(w)
         \/ \E j \in LoopJobs : Loop!Invoke(j) \/ Loop!LockExpires(j) \/ Loop!RetryDue(j)
  PROVE  LoopJobsTyped'
<1> USE DEF LoopJobsTyped, Loop!TypeOK, Loop!Busy
<1>1. Loop!Absent \in Loop!Rows /\ Loop!NewJob \in Loop!Rows
  BY DEF Loop!Absent, Loop!NewJob, Loop!Rows, Loop!Results, Loop!Errors, Loop!Locks, Loop!Statuses
<1>2. ASSUME NEW w \in LoopWorkers, Loop!Busy(w), NEW st \in {"done", "failed", "queued"},
             NEW er \in Loop!Errors,
             NEW re \in Loop!Results, Loop!Save(w, st, er, re)
      PROVE  LoopJobsTyped'
  <2>1. PICK j \in LoopJobs, c \in Loop!Rows, row \in Loop!Rows : j = lAt[w] /\ c = lCopy[w] /\ row = lJob[j]
    BY <1>2
  <2>2. PICK s \in Loop!Statuses, lk \in Loop!Locks, e \in Loop!Errors, rs \in Loop!Results,
  due \in {"now", "later"} :
          /\ s = Loop!Changed(row.status, c.status, st) /\ lk = Loop!Changed(row.lock, c.lock, "null")
          /\ e = Loop!Changed(row.error, c.error, er) /\ rs = Loop!Changed(row.result, c.result, re)
          /\ due = IF st = "queued" THEN "later" ELSE row.runAfter
    BY <2>1 DEF Loop!Changed, Loop!Rows, Loop!Results, Loop!Errors, Loop!Locks, Loop!Statuses
  <2>3. [row EXCEPT !.status = s, !.lock = lk, !.error = e, !.result = rs, !.runAfter = due] \in Loop!Rows
    BY <2>1 DEF Loop!Rows
  <2>4. lJob' = [lJob EXCEPT
          ![j] = [row EXCEPT !.status = s, !.lock = lk, !.error = e, !.result = rs, !.runAfter = due]]
    BY <1>2, <2>1, <2>2 DEF Loop!Save
  <2>5. lJob' \in [LoopJobs -> Loop!Rows]
    BY <2>3, <2>4
  <2> QED BY <1>1, <1>2, <2>5 DEF Loop!Save
<1>3. ASSUME NEW w \in LoopWorkers, Loop!Outcome(w) PROVE LoopJobsTyped'
  <2>1. lCopy[w].result \in Loop!Results
    BY DEF Loop!Rows
  <2>2. CASE Loop!RunAction(w)
    <3>1. lRuns[lAt[w]] \in Nat /\ lRuns' \in [LoopJobs -> Nat]
      BY <2>2 DEF Loop!RunAction
    <3> QED BY <2>2, <3>1 DEF Loop!RunAction
  <2>3. CASE Loop!Finish(w)
    BY <1>2, <2>3 DEF Loop!Finish, Loop!Errors, Loop!Results
  <2>4. CASE Loop!FailPermanently(w)
    BY <1>2, <2>1, <2>4 DEF Loop!FailPermanently, Loop!Errors
  <2>5. CASE Loop!FailTransiently(w)
    BY <1>2, <2>1, <2>5 DEF Loop!FailTransiently, Loop!Errors
  <2> QED BY <1>3, <2>2, <2>3, <2>4, <2>5 DEF Loop!Outcome
<1>4. ASSUME NEW w \in LoopWorkers, Loop!FailOrphans(w) PROVE LoopJobsTyped'
  <2>1. \A i \in LoopJobs : lJob'[i] \in Loop!Rows
    BY <1>4 DEF Loop!FailOrphans, Loop!Rows, Loop!Errors, Loop!Locks, Loop!Statuses
  <2> QED BY <1>4, <2>1 DEF Loop!FailOrphans
<1>5. ASSUME NEW w \in LoopWorkers, Loop!ClaimStep(w) PROVE LoopJobsTyped'
  <2>1. CASE Loop!ClaimNothing(w)
    BY <2>1 DEF Loop!ClaimNothing
  <2>2. ASSUME NEW j \in LoopJobs, Loop!Claim(w, j) PROVE LoopJobsTyped'
    <3>1. PICK row \in Loop!Rows : row = lJob[j]
      OBVIOUS
    <3>2. PICK n \in Nat : n = row.attempts + 1
      BY <3>1 DEF Loop!Rows
    <3>3. [row EXCEPT !.status = "running", !.lock = "fresh", !.attempts = n] \in Loop!Rows
      BY <3>1 DEF Loop!Rows, Loop!Locks, Loop!Statuses
    <3>4. lJob' = [lJob EXCEPT ![j] = [row EXCEPT !.status = "running", !.lock = "fresh", !.attempts = n]]
      BY <2>2, <3>1, <3>2 DEF Loop!Claim
    <3>5. lJob' \in [LoopJobs -> Loop!Rows]
      BY <3>3, <3>4
    <3> QED BY <2>2, <3>5 DEF Loop!Claim
  <2> QED BY <1>5, <2>1, <2>2 DEF Loop!ClaimStep
<1>6. ASSUME NEW w \in LoopWorkers, Loop!Fetch(w) \/ Loop!Crash(w) PROVE LoopJobsTyped'
  BY <1>1, <1>6 DEF Loop!Fetch, Loop!Crash
<1>7. ASSUME NEW j \in LoopJobs,
             Loop!Invoke(j) \/ Loop!LockExpires(j) \/ Loop!RetryDue(j)
      PROVE  LoopJobsTyped'
  <2>1. PICK row \in Loop!Rows : row = lJob[j]
    OBVIOUS
  <2>2. [row EXCEPT !.lock = "stale"] \in Loop!Rows /\ [row EXCEPT !.runAfter = "now"] \in Loop!Rows
    BY <2>1 DEF Loop!Rows, Loop!Locks
  <2>3. UNCHANGED <<lPc, lAt, lCopy, lRuns>> /\ lJob' \in [LoopJobs -> Loop!Rows]
    BY <1>1, <1>7, <2>1, <2>2 DEF Loop!Invoke, Loop!LockExpires, Loop!RetryDue
  <2> QED BY <2>3
<1> QED BY <1>3, <1>4, <1>5, <1>6, <1>7 DEF Loop!WorkerStep

(***************************************************************************)
(* The loop of the workers: an advisory lock per schedule, held in its     *)
(* transaction.                                                            *)
(***************************************************************************)

\* A schedule whose task was begun in this interval is recorded, or its worker is still
\* in the transaction that holds the lock.
Begun(s) ==
  /\ rerun[s] # "twice"
  /\ rerun[s] = "begun" => \/ last[s] = "fresh"
                          \/ \E w \in LoopWorkers : phase[w] \in {"task", "record"} /\ now[w] = s

LoopInv ==
  /\ LoopJobsTyped
  /\ Loop!WorkerTypeOK
  /\ Loop!LockHeldInSchedule
  /\ \A w \in LoopWorkers : Loop!InSchedule(w) => now[w] \in Schedules
  /\ \A s \in Schedules : Begun(s)

LEMMA InitLoopInv == Loop!WorkerInit => LoopInv
<1> SUFFICES ASSUME Loop!WorkerInit PROVE LoopInv
  OBVIOUS
<1>1. LoopJobsTyped
  BY DEF Loop!WorkerInit, Loop!Init, LoopJobsTyped, Loop!TypeOK, Loop!Busy, Loop!Rows, Loop!Results,
  Loop!Errors,
         Loop!Locks, Loop!Statuses, Loop!Absent
<1>2. Loop!WorkerTypeOK
  BY AssistantAssumption DEF Loop!WorkerInit, Loop!WorkerTypeOK
<1>3. Loop!LockHeldInSchedule
  BY AssistantAssumption DEF Loop!WorkerInit, Loop!Init, Loop!LockHeldInSchedule, Loop!InSchedule
<1>4. /\ \A s \in Schedules : Begun(s)
      /\ \A w \in LoopWorkers : ~Loop!InSchedule(w)
  BY DEF Loop!WorkerInit, Begun, Loop!InSchedule
<1> QED BY <1>1, <1>2, <1>3, <1>4 DEF LoopInv

\* A worker that takes a job step drains the queue, before and after it.
LEMMA DrainSteps ==
  ASSUME LoopInv, NEW w \in LoopWorkers, Loop!Drain(w) \/ Loop!CrashInJob(w) PROVE LoopInv'
<1>1. /\ UNCHANGED <<minute, todo, now, holder, last, rerun, deaths>>
      /\ Loop!WorkerStep(w) \/ Loop!Crash(w)
  BY DEF Loop!Drain, Loop!CrashInJob, Loop!WorkerStep, Loop!ClaimStep
<1>2. LoopJobsTyped'
  BY <1>1, LoopJobTypes DEF LoopInv
<1>3. phase[w] = "drain" /\ (phase' = phase \/ (phase' = [phase EXCEPT ![w] = "asleep"] /\ lPc'[w] = "idle"))
  BY DEF Loop!Drain, Loop!CrashInJob, Loop!Crash, Loop!ClaimNothing, Loop!Busy, LoopInv, LoopJobsTyped,
         Loop!TypeOK, Loop!LockHeldInSchedule
<1>4. \A v \in LoopWorkers : v # w => lPc'[v] = lPc[v]
  BY DEF Loop!Drain, Loop!CrashInJob, Loop!Crash, Loop!FailOrphans, Loop!ClaimNothing, Loop!Claim, Loop!Fetch,
         Loop!Outcome, Loop!RunAction, Loop!Finish, Loop!FailPermanently, Loop!FailTransiently, Loop!Save,
         LoopInv, LoopJobsTyped, Loop!TypeOK
<1>5. Loop!WorkerTypeOK'
  BY <1>1, <1>3 DEF LoopInv, Loop!WorkerTypeOK
<1>6. ASSUME NEW v \in LoopWorkers
      PROVE  /\ phase'[v] = phase[v] \/ (v = w /\ phase'[v] = "asleep" /\ lPc'[w] = "idle")
             /\ Loop!InSchedule(v)' <=> Loop!InSchedule(v)
  BY <1>3 DEF LoopInv, Loop!WorkerTypeOK, Loop!InSchedule
<1>7. Loop!LockHeldInSchedule'
  <2>1. \A v \in LoopWorkers, s \in Schedules : (holder[s] = v <=> Loop!InSchedule(v) /\ now[v] = s)'
    BY <1>1, <1>6 DEF LoopInv, Loop!LockHeldInSchedule
  <2>2. \A v \in LoopWorkers : lPc'[v] # "idle" => phase'[v] = "drain"
    BY <1>3, <1>4, <1>6 DEF LoopInv, Loop!LockHeldInSchedule
  <2> QED BY <2>1, <2>2 DEF Loop!LockHeldInSchedule
<1>8. ASSUME NEW s \in Schedules PROVE Begun(s)'
  <2>1. \A v \in LoopWorkers : phase[v] \in {"task", "record"} => phase'[v] \in {"task", "record"}
    BY <1>3, <1>6
  <2> QED BY <1>1, <2>1 DEF LoopInv, Begun
<1>9. \A v \in LoopWorkers : Loop!InSchedule(v)' => now'[v] \in Schedules
  BY <1>1, <1>6 DEF LoopInv
<1> QED BY <1>2, <1>5, <1>7, <1>8, <1>9 DEF LoopInv

\* The steps of the loop on the schedules and of time leave the jobs alone.
LEMMA ScheduleSteps ==
  ASSUME LoopInv, UNCHANGED Loop!vars,
         \/ \E w \in LoopWorkers :
              \/ Loop!Wake(w) \/ Loop!MinutePasses(w) \/ (\E s \in Schedules : Loop!TryLock(w, s))
              \/ Loop!CheckDue(w) \/ Loop!TaskEnds(w) \/ Loop!Record(w) \/ Loop!SchedulesDone(w)
              \/ Loop!Die(w)
         \/ \E s \in Schedules : Loop!IntervalPasses(s)
  PROVE  LoopInv'
<1>1. LoopJobsTyped'
  BY DEF LoopInv, LoopJobsTyped, Loop!TypeOK, Loop!Busy, Loop!vars
<1> DEFINE S == /\ Loop!WorkerTypeOK /\ Loop!LockHeldInSchedule /\ \A s \in Schedules : Begun(s)
               /\ \A w \in LoopWorkers : Loop!InSchedule(w) => now[w] \in Schedules
<1> SUFFICES S'
  BY <1>1 DEF LoopInv
<1>2. lPc' = lPc /\ S
  BY DEF LoopInv, Loop!vars
<1> USE DEF Loop!WorkerTypeOK, Loop!LockHeldInSchedule, Begun, Loop!InSchedule
<1>3. ASSUME NEW w \in LoopWorkers, Loop!Wake(w) PROVE S'
  BY <1>2, <1>3 DEF Loop!Wake
<1>4. ASSUME NEW w \in LoopWorkers, Loop!MinutePasses(w) PROVE S'
  BY <1>2, <1>4 DEF Loop!MinutePasses
<1>5. ASSUME NEW w \in LoopWorkers, NEW s \in Schedules, Loop!TryLock(w, s) PROVE S'
  BY <1>2, <1>5, AssistantAssumption DEF Loop!TryLock
<1>6. ASSUME NEW w \in LoopWorkers, Loop!CheckDue(w) PROVE S'
  BY <1>2, <1>6, AssistantAssumption DEF Loop!CheckDue, Loop!Release, Loop!Due
<1>7. ASSUME NEW w \in LoopWorkers, Loop!TaskEnds(w) PROVE S'
  BY <1>2, <1>7 DEF Loop!TaskEnds
<1>8. ASSUME NEW w \in LoopWorkers, Loop!Record(w) PROVE S'
  <2>1. PICK s \in Schedules : s = now[w]
    BY <1>2, <1>8 DEF Loop!Record
  <2> QED BY <1>2, <1>8, <2>1, AssistantAssumption DEF Loop!Record, Loop!Release
<1>9. ASSUME NEW w \in LoopWorkers, Loop!SchedulesDone(w) PROVE S'
  BY <1>2, <1>9 DEF Loop!SchedulesDone
<1>10. ASSUME NEW w \in LoopWorkers, Loop!Die(w) PROVE S'
  <2>1. PICK s \in Schedules : s = now[w]
    BY <1>2, <1>10 DEF Loop!Die
  <2>2. deaths' \in 0..MaxDeaths
    BY <1>2, <1>10, AssistantAssumption DEF Loop!Die
  <2>3. /\ rerun' = [rerun EXCEPT ![s] = "clean"] /\ phase' = [phase EXCEPT ![w] = "asleep"]
        /\ todo' = [todo EXCEPT ![w] = {}] /\ minute' = [minute EXCEPT ![w] = TRUE]
        /\ holder' = [holder EXCEPT ![s] = Loop!Nobody] /\ now' = [now EXCEPT ![w] = Loop!NoSchedule]
        /\ last' = last /\ holder[s] = w
    BY <1>2, <1>10, <2>1 DEF Loop!Die, Loop!Release
  <2>4. Loop!WorkerTypeOK'
    BY <1>2, <2>2, <2>3
  <2>5. Loop!LockHeldInSchedule'
    BY <1>2, <2>3, AssistantAssumption
  <2>6. ASSUME NEW x \in Schedules PROVE Begun(x)'
    BY <1>2, <2>1, <2>3
  <2> QED BY <1>2, <2>3, <2>4, <2>5, <2>6
<1>11. ASSUME NEW s \in Schedules, Loop!IntervalPasses(s) PROVE S'
  BY <1>2, <1>11 DEF Loop!IntervalPasses
<1> QED BY <1>3, <1>4, <1>5, <1>6, <1>7, <1>8, <1>9, <1>10, <1>11

LEMMA NextLoopInv == LoopInv /\ [Loop!WorkerNext]_(Loop!workerVars) => LoopInv'
<1> SUFFICES ASSUME LoopInv, [Loop!WorkerNext]_(Loop!workerVars) PROVE LoopInv'
  OBVIOUS
<1>1. ASSUME NEW w \in LoopWorkers, Loop!Drain(w) \/ Loop!CrashInJob(w) PROVE LoopInv'
  BY <1>1, DrainSteps
<1>2. ASSUME NEW w \in LoopWorkers,
             Loop!MinutePasses(w) \/ Loop!Die(w) \/ (Loop!LoopStep(w) /\ ~Loop!Drain(w))
      PROVE  LoopInv'
  <2>1. UNCHANGED Loop!vars
    BY <1>2 DEF Loop!MinutePasses, Loop!Die, Loop!LoopStep, Loop!Wake, Loop!TryLock, Loop!CheckDue,
    Loop!TaskEnds,
                Loop!Record, Loop!SchedulesDone
  <2> QED BY <1>2, <2>1, ScheduleSteps DEF Loop!LoopStep
<1>3. ASSUME NEW s \in Schedules, Loop!IntervalPasses(s) PROVE LoopInv'
  <2>1. UNCHANGED Loop!vars
    BY <1>3 DEF Loop!IntervalPasses
  <2> QED BY <1>3, <2>1, ScheduleSteps
<1>4. ASSUME NEW j \in LoopJobs, Loop!Invoke(j) \/ Loop!LockExpires(j) \/ Loop!RetryDue(j),
             UNCHANGED Loop!loopVars
      PROVE  LoopInv'
  <2>1. LoopJobsTyped' /\ lPc' = lPc
    BY <1>4, LoopJobTypes DEF LoopInv, Loop!Invoke, Loop!LockExpires, Loop!RetryDue
  <2> QED BY <1>4, <2>1 DEF LoopInv, Loop!loopVars, Loop!WorkerTypeOK, Loop!LockHeldInSchedule,
  Loop!InSchedule, Begun
<1>5. CASE UNCHANGED Loop!workerVars
  BY <1>5 DEF Loop!workerVars, Loop!vars, Loop!loopVars, LoopInv, LoopJobsTyped, Loop!TypeOK, Loop!Busy,
              Loop!WorkerTypeOK, Loop!LockHeldInSchedule, Loop!InSchedule, Begun
<1> QED BY <1>1, <1>2, <1>3, <1>4, <1>5 DEF Loop!WorkerNext

LEMMA LoopWithin == AssistantBehaviour => Loop!WorkerSpec
<1>1. AssistantInit => Loop!WorkerInit
  BY DEF AssistantInit
<1>2. [AssistantNext]_assistant => [Loop!WorkerNext]_(Loop!workerVars)
  BY DEF AssistantNext, assistant, loop, schedules, Loop!workerVars, Loop!vars, Loop!loopVars
<1> QED BY <1>1, <1>2, PTL DEF AssistantBehaviour, Loop!WorkerSpec

\* The task of a schedule is begun once per interval however many workers come to it,
\* unless one died doing it (runDueSchedules: the check is made under the advisory lock).
THEOREM SchedulesRunOnce == AssistantBehaviour => []OncePerInterval
<1>1. LoopInv => OncePerInterval
  BY DEF LoopInv, Begun, OncePerInterval, Loop!OncePerInterval
<1> QED BY <1>1, InitLoopInv, NextLoopInv, LoopWithin, PTL DEF Loop!WorkerSpec

LEMMA TimelyWithin == AssistantBehaviour => Spec
<1>1. AssistantInit => Init
  BY DEF AssistantInit
<1>2. [AssistantNext]_assistant => [Next]_vars
  BY DEF AssistantNext, assistant
<1> QED BY <1>1, <1>2, PTL DEF AssistantBehaviour, Spec

\* Jobs and schedules keep their types, and the advisory lock of a schedule is with the
\* worker in its transaction and with nobody else, however workers interleave and die.
THEOREM AssistantTypes == AssistantBehaviour => []TypesOK
<1>1. Spec => []JobsTyped
  <2>1. Init => JobsTyped
    BY DEF Init, JobsTyped, TypeOK, Busy, Rows, Results, Errors, Locks, Statuses, Absent
  <2>2. JobsTyped /\ [Next]_vars => JobsTyped'
    <3>1. JobsTyped /\ Next => JobsTyped'
      BY JobTypes DEF Next
    <3>2. JobsTyped /\ UNCHANGED vars => JobsTyped'
      BY DEF JobsTyped, TypeOK, Busy, vars
    <3> QED BY <3>1, <3>2
  <2> QED BY <2>1, <2>2, PTL DEF Spec
<1>2. Slow!Spec => []SlowJobsTyped
  <2>1. Slow!Init => SlowJobsTyped
    BY DEF Slow!Init, SlowJobsTyped, Slow!TypeOK, Slow!Busy, Slow!Rows, Slow!Results, Slow!Errors, Slow!Locks,
           Slow!Statuses, Slow!Absent
  <2>2. SlowJobsTyped /\ [Slow!Next]_(Slow!vars) => SlowJobsTyped'
    <3>1. SlowJobsTyped /\ Slow!Next => SlowJobsTyped'
      BY SlowJobTypes DEF Slow!Next
    <3>2. SlowJobsTyped /\ UNCHANGED Slow!vars => SlowJobsTyped'
      BY DEF SlowJobsTyped, Slow!TypeOK, Slow!Busy, Slow!vars
    <3> QED BY <3>1, <3>2
  <2> QED BY <2>1, <2>2, PTL DEF Slow!Spec
<1>3. Loop!WorkerSpec => []LoopInv
  BY InitLoopInv, NextLoopInv, PTL DEF Loop!WorkerSpec
<1>4. JobsTyped /\ SlowJobsTyped /\ LoopInv => TypesOK
  BY DEF JobsTyped, SlowJobsTyped, LoopInv, LoopJobsTyped, TypesOK
<1> QED BY <1>1, <1>2, <1>3, <1>4, TimelyWithin, SlowWithin, LoopWithin, PTL
=============================================================================
