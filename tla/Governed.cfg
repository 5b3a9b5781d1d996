SPECIFICATION GovernedSpec
CONSTANTS
  Versions = {v1, v2, v3}
  Root = v1
  Requests = {q1, q2}
  PlainStatuses = {"Draft", "Archived"}
  OnePublish = TRUE
  Crashes = TRUE
  Drafts = {f1, f2}
  FirstDraft = f1
  Reviewers = {u1, u2}
  MaxForms = 1
  Decisions = {d1, d2}
  Plans = {p1, p2}
  MaxEdits = 2
  MaxCycle = 3
  NoRow = NoRow
  Nonconformities = {n1, n2}
  MaxId = 2
  Raised = {c1, c2}
  NoRecord = NoRecord
SYMMETRY Symmetric
CONSTRAINT Followed
INVARIANTS TypesOK LineageSafe SignoffsCounted ForecastFlagged CyclesClosed RoutedOnce
PROPERTIES ReviewSteps TreatmentKept CapDrives
CHECK_DEADLOCK FALSE
