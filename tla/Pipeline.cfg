SPECIFICATION CustomerSpec
CONSTANTS
  Entries = {e1}
  Requests = {q1, q2, q3}
  Crashes = TRUE
  Term = 4
  Grace1 = 1
  Grace2 = 2
  Retention = 4
  Renewals = {q1, q2}
  Horizon = 14
INVARIANTS TypesOK ProvisionedOnce PaidIsProvisioned
PROPERTIES VerifiedIsResolved PaidTerms
CHECK_DEADLOCK FALSE
