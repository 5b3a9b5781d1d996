------------------------------ MODULE AiWorker ------------------------------
(***************************************************************************)
(* The loop of an AI worker process (worker.ts, main): when a minute has   *)
(* passed it runs the schedules that are due (features/jobs.ts,            *)
(* runDueSchedules), then it drains the queue of jobs (AiJobs), then it    *)
(* sleeps.  While it does one of these it does none of the others.         *)
(***************************************************************************)
EXTENDS AiJobs

CONSTANTS
  Schedules,  \* keys of the registered schedules
  MaxDeaths   \* bound: workers dying within a schedule

VARIABLES
  phase,   \* phase[w]: what worker w is doing
  minute,  \* minute[w]: its next check of the schedules is due
  todo,    \* todo[w]: the schedules it has not come to in this check
  now,     \* now[w]: the schedule it is at
  holder,  \* holder[s]: who holds the advisory lock of s
  last,    \* last[s]: last_run_at: never, within the interval, or longer ago
  rerun,   \* rerun[s]: its task was begun since and may be repeated only after a death (history)
  deaths   \* workers that died within a schedule

loopVars == <<phase, minute, todo, now, holder, last, rerun, deaths>>
workerVars == <<vars, loopVars>>

Nobody == "nobody"
NoSchedule == "no schedule"

\* In the transaction of a schedule.
InSchedule(w) == phase[w] \in {"check", "task", "record"}

Due(s) == last[s] # "fresh"

WorkerInit ==
  /\ Init
  /\ phase = [w \in Workers |-> "asleep"]
  /\ minute = [w \in Workers |-> TRUE]
  /\ todo = [w \in Workers |-> {}]
  /\ now = [w \in Workers |-> NoSchedule]
  /\ holder = [s \in Schedules |-> Nobody]
  /\ last = [s \in Schedules |-> "never"]
  /\ rerun = [s \in Schedules |-> "clean"]
  /\ deaths = 0

-----------------------------------------------------------------------------
\* The worker wakes up: it checks the schedules, or goes for the jobs at once.
Wake(w) ==
  /\ phase[w] = "asleep"
  /\ phase' = [phase EXCEPT ![w] = IF minute[w] THEN "schedules" ELSE "drain"]
  /\ todo' = [todo EXCEPT ![w] = IF minute[w] THEN Schedules ELSE {}]
  /\ minute' = [minute EXCEPT ![w] = FALSE]
  /\ UNCHANGED <<vars, now, holder, last, rerun, deaths>>

\* SCHEDULE_CHECK_MS have passed.
MinutePasses(w) ==
  /\ ~minute[w]
  /\ minute' = [minute EXCEPT ![w] = TRUE]
  /\ UNCHANGED <<vars, phase, todo, now, holder, last, rerun, deaths>>

\* Mutant: the advisory lock is not tried.
TryLockAlways(w, s) ==
  /\ phase[w] = "schedules" /\ s \in todo[w]
  /\ todo' = [todo EXCEPT ![w] = @ \ {s}]
  /\ holder' = [holder EXCEPT ![s] = w]
  /\ phase' = [phase EXCEPT ![w] = "check"]
  /\ now' = [now EXCEPT ![w] = s]
  /\ UNCHANGED <<vars, minute, last, rerun, deaths>>

\* pg_try_advisory_xact_lock: a schedule somebody else is at is passed over.
TryLock(w, s) ==
  /\ phase[w] = "schedules" /\ s \in todo[w]
  /\ todo' = [todo EXCEPT ![w] = @ \ {s}]
  /\ IF holder[s] = Nobody
       THEN /\ holder' = [holder EXCEPT ![s] = w]
            /\ phase' = [phase EXCEPT ![w] = "check"]
            /\ now' = [now EXCEPT ![w] = s]
       ELSE UNCHANGED <<holder, phase, now>>
  /\ UNCHANGED <<vars, minute, last, rerun, deaths>>

\* The transaction ends: its lock goes with it.
Release(w, s) ==
  /\ holder' = [holder EXCEPT ![s] = Nobody]
  /\ now' = [now EXCEPT ![w] = NoSchedule]

\* Whether the last run is older than the interval, asked under the lock. If so
\* schedule.run begins.
CheckDue(w) ==
  LET s == now[w] IN
  /\ phase[w] = "check"
  /\ IF Due(s)
       THEN /\ phase' = [phase EXCEPT ![w] = "task"]
            /\ rerun' = [rerun EXCEPT ![s] = IF @ = "clean" THEN "begun" ELSE "twice"]
            /\ UNCHANGED <<holder, now>>
       ELSE /\ phase' = [phase EXCEPT ![w] = "schedules"]
            /\ Release(w, s)
            /\ UNCHANGED rerun
  /\ UNCHANGED <<vars, minute, todo, last, deaths>>

\* schedule.run returned or threw: a failed run still counts as a run.
TaskEnds(w) ==
  /\ phase[w] = "task"
  /\ phase' = [phase EXCEPT ![w] = "record"]
  /\ UNCHANGED <<vars, minute, todo, now, holder, last, rerun, deaths>>

\* Mutant: the run is not recorded.
RecordNothing(w) ==
  /\ phase[w] = "record"
  /\ phase' = [phase EXCEPT ![w] = "schedules"]
  /\ Release(w, now[w])
  /\ UNCHANGED <<vars, minute, todo, last, rerun, deaths>>

\* The row of ai_schedule_runs, and the commit.
Record(w) ==
  /\ phase[w] = "record"
  /\ last' = [last EXCEPT ![now[w]] = "fresh"]
  /\ phase' = [phase EXCEPT ![w] = "schedules"]
  /\ Release(w, now[w])
  /\ UNCHANGED <<vars, minute, todo, rerun, deaths>>

SchedulesDone(w) ==
  /\ phase[w] = "schedules" /\ todo[w] = {}
  /\ phase' = [phase EXCEPT ![w] = "drain"]
  /\ UNCHANGED <<vars, minute, todo, now, holder, last, rerun, deaths>>

\* everyMinutes have passed since the last run began.
IntervalPasses(s) ==
  /\ last[s] = "fresh"
  /\ last' = [last EXCEPT ![s] = "due"]
  /\ rerun' = [rerun EXCEPT ![s] = "clean"]
  /\ UNCHANGED <<vars, phase, minute, todo, now, holder, deaths>>

\* The process dies within a schedule: its transaction is rolled back, what the
\* task did is not.
Die(w) ==
  /\ InSchedule(w) /\ deaths < MaxDeaths
  /\ deaths' = deaths + 1
  /\ rerun' = [rerun EXCEPT ![now[w]] = "clean"]
  /\ phase' = [phase EXCEPT ![w] = "asleep"]
  /\ todo' = [todo EXCEPT ![w] = {}]
  /\ minute' = [minute EXCEPT ![w] = TRUE]
  /\ Release(w, now[w])
  /\ UNCHANGED <<vars, last>>

\* processOneJob again and again, until there is nothing to do. A throw out of
\* it ends the drain, too.
Drain(w) ==
  /\ phase[w] = "drain"
  /\ \/ FailOrphans(w) /\ UNCHANGED phase
     \/ ClaimNothing(w) /\ phase' = [phase EXCEPT ![w] = "asleep"]
     \/ (\E j \in Jobs : Claim(w, j)) /\ UNCHANGED phase
     \/ Fetch(w) /\ UNCHANGED phase
     \/ Outcome(w) /\ UNCHANGED phase
  /\ UNCHANGED <<minute, todo, now, holder, last, rerun, deaths>>

CrashInJob(w) ==
  /\ Crash(w)
  /\ phase' = [phase EXCEPT ![w] = "asleep"]
  /\ UNCHANGED <<minute, todo, now, holder, last, rerun, deaths>>

-----------------------------------------------------------------------------
LoopStep(w) ==
  \/ Wake(w) \/ (\E s \in Schedules : TryLock(w, s)) \/ CheckDue(w) \/ TaskEnds(w) \/ Record(w)
  \/ SchedulesDone(w) \/ Drain(w)

WorkerNext ==
  \/ \E w \in Workers : LoopStep(w) \/ MinutePasses(w) \/ Die(w) \/ CrashInJob(w)
  \/ \E s \in Schedules : IntervalPasses(s)
  \/ \E j \in Jobs : (Invoke(j) \/ LockExpires(j) \/ RetryDue(j)) /\ UNCHANGED loopVars

WorkerSpec == WorkerInit /\ [][WorkerNext]_workerVars

\* Every worker goes on with its loop, tasks and jobs end, time passes.
FairWorkerSpec ==
  /\ WorkerSpec
  /\ \A w \in Workers : WF_workerVars(LoopStep(w)) /\ WF_workerVars(MinutePasses(w))
  /\ \A j \in Jobs : /\ WF_workerVars(LockExpires(j) /\ UNCHANGED loopVars)
                     /\ WF_workerVars(RetryDue(j) /\ UNCHANGED loopVars)

-----------------------------------------------------------------------------
WorkerTypeOK ==
  /\ phase \in [Workers -> {"asleep", "schedules", "check", "task", "record", "drain"}]
  /\ minute \in [Workers -> BOOLEAN]
  /\ todo \in [Workers -> SUBSET Schedules]
  /\ now \in [Workers -> Schedules \cup {NoSchedule}]
  /\ holder \in [Schedules -> Workers \cup {Nobody}]
  /\ last \in [Schedules -> {"never", "fresh", "due"}]
  /\ rerun \in [Schedules -> {"clean", "begun", "twice"}]
  /\ deaths \in 0..MaxDeaths

\* The advisory lock of a schedule is held by the worker in its transaction and by
\* nobody else, so that no way out of it (not due, ended, died) leaves a schedule
\* locked for good; and a worker in a schedule holds no job.
LockHeldInSchedule ==
  /\ \A w \in Workers, s \in Schedules : holder[s] = w <=> InSchedule(w) /\ now[w] = s
  /\ \A w \in Workers : pc[w] # "idle" => phase[w] = "drain"

\* "An advisory lock per key keeps two workers from running the same one", and the
\* check under the lock keeps a second one from running it again within the interval:
\* the task of a schedule is begun once per interval, if nobody died doing it.
OncePerInterval == \A s \in Schedules : rerun[s] # "twice"

\* A schedule that is due is run, by whichever worker, however the workers share the
\* jobs and the locks and wherever they die. (The jobs are finitely many: a queue that
\* never runs empty would keep a worker from its schedules.)
EveryScheduleRuns == \A s \in Schedules : Due(s) ~> last[s] = "fresh"
=============================================================================
