SPECIFICATION Spec
CONSTANTS
  Versions = {v1, v2}
  Root = v1
  Reviewers = {u1}
  Requests = {q1}
  MaxForms = 1
INVARIANT FreshDraft
CHECK_DEADLOCK FALSE
