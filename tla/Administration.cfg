SPECIFICATION AdministrationSpec
CONSTANTS
  Regs = {r1}
  Orgs = {o1, o2}
  Proposals = {a, b}
  Requests = {q1, q2}
  Tokens = {t1, t2, t3}
  MaxLinks = 2
  MaxEpoch = 2
  NoToken = NoToken
  Ids = {s1, s2}
  Firsts = {s1, s2, None}
  SiteReqs = {r2}
  None = None
  Units = {u1, u2, u3}
  NoUnit = NoUnit
  Tiers = 3
  Raised = {c1, c2}
  NoRecord = NoRecord
SYMMETRY Symmetric
CONSTRAINT Followed
INVARIANTS TypesOK RequestsHaveTenants TenantStatus CredentialsSpent FindingSound
PROPERTIES DecisionStands ShutStaysShut SitesSettled TreeKept
CHECK_DEADLOCK FALSE
