------------------------------ MODULE MCAiJobs ------------------------------
(***************************************************************************)
(* Assistant for TLC: two workers and two jobs in time, three slow workers *)
(* and one job, two workers with their loop, one job and one schedule.     *)
(*                                                                         *)
(* Workers, jobs and schedules are interchangeable, but the run checks     *)
(* liveness, for which symmetry is not sound.                              *)
(***************************************************************************)
EXTENDS Assistant

\* The fairness of each instance, of steps that leave the others alone.
TimelyFairness ==
  /\ \A w \in Workers : WF_assistant(focus = "timely" /\ WorkerStep(w) /\ UNCHANGED <<focus, slow, loop>>)
  /\ \A j \in Jobs :
       /\ WF_assistant(focus = "timely" /\ LockExpires(j) /\ UNCHANGED <<focus, slow, loop>>)
       /\ WF_assistant(focus = "timely" /\ RetryDue(j) /\ UNCHANGED <<focus, slow, loop>>)

SlowFairness ==
  /\ \A w \in SlowWorkers :
       WF_assistant(focus = "slow" /\ Slow!WorkerStep(w) /\ UNCHANGED <<focus, vars, loop>>)
  /\ \A j \in SlowJobs :
       /\ WF_assistant(focus = "slow" /\ Slow!LockExpires(j) /\ UNCHANGED <<focus, vars, loop>>)
       /\ WF_assistant(focus = "slow" /\ Slow!RetryDue(j) /\ UNCHANGED <<focus, vars, loop>>)

LoopFairness ==
  /\ \A w \in LoopWorkers :
       /\ WF_assistant(focus = "loop" /\ Loop!LoopStep(w) /\ UNCHANGED <<focus, vars, slow>>)
       /\ WF_assistant(focus = "loop" /\ Loop!MinutePasses(w) /\ UNCHANGED <<focus, vars, slow>>)
  /\ \A j \in LoopJobs :
       /\ WF_assistant(/\ focus = "loop" /\ Loop!LockExpires(j)
                       /\ UNCHANGED <<focus, vars, slow, schedules>>)
       /\ WF_assistant(/\ focus = "loop" /\ Loop!RetryDue(j)
                       /\ UNCHANGED <<focus, vars, slow, schedules>>)

AssistantSpec == AssistantBehaviour /\ TimelyFairness /\ SlowFairness /\ LoopFairness

-----------------------------------------------------------------------------
\* Every job that was invoked ends, slow workers or not.
JobsEnd == EveryJobEnds /\ Slow!EveryJobEnds

\* Every schedule that is due is run.
EveryScheduleRuns == focus = "loop" => Loop!EveryScheduleRuns
=============================================================================
