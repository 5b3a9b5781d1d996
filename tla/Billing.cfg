SPECIFICATION FairSpec
CONSTANTS
  Invoices = {i1, i2}
  Payouts = {p1}
  Requests = {q1, q2, q3}
INVARIANTS TypeOK PaymentsSound
PROPERTIES LedgerSpec EveryRequestEnds
CHECK_DEADLOCK FALSE
