SPECIFICATION Spec
CONSTANTS
  Ids = {s1, s2}
  Firsts = {s1}
  SiteReqs = {r1}
  Requests = {q1}
  None = None
INVARIANT OnePrimary
CHECK_DEADLOCK FALSE
