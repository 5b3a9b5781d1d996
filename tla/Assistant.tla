----------------------------- MODULE Assistant -----------------------------
(***************************************************************************)
(* The background work of the AI features, three instances side by side:   *)
(* jobs whose workers are never slower than the stale lock (EXTENDS), jobs *)
(* whose workers may be (Slow), and jobs with the whole loop of their      *)
(* workers (Loop).  A behaviour is about one of them, the focus; the       *)
(* others stand still.                                                     *)
(***************************************************************************)
EXTENDS AiJobs

CONSTANTS
  SlowWorkers, SlowJobs,                     \* of Slow
  LoopWorkers, LoopJobs, Schedules, MaxDeaths  \* of Loop

VARIABLES
  focus,
  sJob, sPc, sAt, sCopy, sRuns,                            \* of Slow
  lJob, lPc, lAt, lCopy, lRuns,                            \* of Loop
  phase, minute, todo, now, holder, last, rerun, deaths

slow == <<sJob, sPc, sAt, sCopy, sRuns>>
schedules == <<phase, minute, todo, now, holder, last, rerun, deaths>>
loop == <<lJob, lPc, lAt, lCopy, lRuns, schedules>>
assistant == <<focus, vars, slow, loop>>

Slow == INSTANCE AiJobs WITH Workers <- SlowWorkers, Jobs <- SlowJobs, Timely <- FALSE,
  job <- sJob, pc <- sPc, at <- sAt, copy <- sCopy, runs <- sRuns

Loop == INSTANCE AiWorker WITH Workers <- LoopWorkers, Jobs <- LoopJobs, Timely <- TRUE,
  job <- lJob, pc <- lPc, at <- lAt, copy <- lCopy, runs <- lRuns

\* No worker and no schedule is called as the lack of one.
ASSUME AssistantAssumption ==
  Loop!Nobody \notin LoopWorkers /\ Loop!NoSchedule \notin Schedules /\ MaxDeaths \in Nat

AssistantInit ==
  /\ focus \in {"timely", "slow", "loop"}
  /\ Init /\ Slow!Init /\ Loop!WorkerInit

AssistantNext ==
  \/ focus = "timely" /\ Next /\ UNCHANGED <<focus, slow, loop>>
  \/ focus = "slow" /\ Slow!Next /\ UNCHANGED <<focus, vars, loop>>
  \/ focus = "loop" /\ Loop!WorkerNext /\ UNCHANGED <<focus, vars, slow>>

AssistantBehaviour == AssistantInit /\ [][AssistantNext]_assistant

-----------------------------------------------------------------------------
\* The types of the jobs and of the loop, and the lock of a schedule held in it.
TypesOK == TypeOK /\ Slow!TypeOK /\ Loop!TypeOK /\ Loop!WorkerTypeOK /\ Loop!LockHeldInSchedule

\* The queue goes on and gives up in the end, even if workers outlive the stale lock.
SlowerSafe == Slow!SlowSafe

\* No task of a schedule is begun twice within its interval.
OncePerInterval == Loop!OncePerInterval
=============================================================================
