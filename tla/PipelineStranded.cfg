SPECIFICATION Spec
CONSTANTS
  Entries = {e1}
  Requests = {q1, q2}
  Crashes = TRUE
INVARIANT Retryable
CHECK_DEADLOCK FALSE
