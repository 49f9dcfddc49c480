SPECIFICATION Spec
CONSTANTS
  a = a
  b = b
  NoInject = NoInject
  NoOffset = NoOffset
  Start = a
  Injects <- BranchInjects
  Leads <- BranchLeads
  InitialOffset <- ManualOffset
  Editable = {b}
  NewOffsets <- EditedOffsets
  Requests = {r1, r2}
  Jobs = {j1, j2}
  LateRoster = FALSE
  MaxTime = 2
  MaxEdits = 1
  MaxCrashes = 0
SYMMETRY Symmetry
INVARIANTS
  NoStrandedSchedule
  NeverAhead
  StaleRowsAreSafe
CHECK_DEADLOCK FALSE
