SPECIFICATION Spec
CONSTANTS
  Regs = {r1}
  Orgs = {o1}
  Proposals = {a}
  Requests = {q1, q2}
INVARIANT ApprovedTenantHasProfile
CHECK_DEADLOCK FALSE
