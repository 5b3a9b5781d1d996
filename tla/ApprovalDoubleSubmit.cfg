SPECIFICATION Spec
CONSTANTS
  a = a
  b = b
  c = c
  Users = {a, b, c}
  Requests = {q1, q2}
  Schemes <- GatedOnly
  Pools <- OnePool
  SelfApproval = TRUE
  OneSubmit = FALSE
  Crashes = FALSE
CONSTRAINT EngineOnly
INVARIANT EveryGateSigned
