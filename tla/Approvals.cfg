SPECIFICATION AnsweringSpec
CONSTANTS
  a = a
  b = b
  c = c
  Users = {a, b}
  Requests = {q1, q2}
  Schemes <- BothSchemes
  Pools <- PairPools
  SelfApproval = FALSE
  OneSubmit = TRUE
  Crashes = TRUE
  InTurnUsers = {a, b, c}
  InTurnRequests = {q1}
  InTurnSchemes <- GatedOnly
  InTurnPools <- AllPools
  MaxSends = 2
  MaxTokens = 2
SYMMETRY Symmetric
CONSTRAINTS OrderFollowed RaceFollowed
INVARIANTS TypesOK RightSigners StatusInTurn SignerInTurn SupplierLink
PROPERTIES RunKept
