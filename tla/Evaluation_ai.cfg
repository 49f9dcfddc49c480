SPECIFICATION FairSpec
CONSTANTS
  p1 = p1
  j1 = j1
  j2 = j2
  q1 = q1
  Responses = {p1}
  FreeText = {p1}
  Jobs = {j1, j2}
  Frozen = FALSE
  Requests = {q1}
  MaxSwitches = 2
  MaxCrashes = 1
  MaxFailures = 1
INVARIANTS
  EvaluatedOnce
  ReviewHolds
  LabelIsTrue
PROPERTY
  QueuedIsAssessed
CHECK_DEADLOCK FALSE
