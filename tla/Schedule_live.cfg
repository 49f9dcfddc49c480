SPECIFICATION FairSpec
CONSTANTS
  a = a
  b = b
  NoInject = NoInject
  NoOffset = NoOffset
  Start = a
  Injects <- BranchInjects
  Leads <- BranchLeads
  InitialOffset <- BranchOffset
  Editable = {}
  NewOffsets = {}
  Requests = {r1}
  Jobs = {j1, j2}
  LateRoster = FALSE
  MaxTime = 3
  MaxEdits = 0
  MaxCrashes = 1
INVARIANT
  ArmedInTime
PROPERTIES
  DueIsReleased
  NeverEarly
CHECK_DEADLOCK FALSE
