SPECIFICATION Spec
CONSTANTS
  Root = v1
  Versions = {v1, v2}
  Requests = {q1}
  PlainStatuses = {"Review Due"}
  OnePublish = TRUE
  Crashes = FALSE
INVARIANT PublishedApproved
