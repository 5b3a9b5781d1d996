SPECIFICATION AssistantSpec
CONSTANTS
  Workers = {w1, w2}
  Jobs = {j1, j2}
  MaxAttempts = 2
  Timely = TRUE
  SlowWorkers = {w1, w2, w3}
  SlowJobs = {j1}
  LoopWorkers = {w1, w2}
  LoopJobs = {j1}
  Schedules = {s1}
  MaxDeaths = 1
INVARIANTS TypesOK TimelySafe SlowerSafe OncePerInterval
PROPERTIES OutcomeFinal JobsEnd EveryScheduleRuns
