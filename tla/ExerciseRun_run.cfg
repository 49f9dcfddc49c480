SPECIFICATION Spec
CONSTANTS
  u1 = u1
  u2 = u2
  g1 = g1
  n1 = n1
  n2 = n2
  i1 = i1
  i2 = i2
  x = x
  NoGroup = NoGroup
  NoNode = NoNode
  NoInject = NoInject
  Users = {u1, u2}
  Groups = {g1}
  Nodes <- BranchNodes
  StartNode = n1
  Successors <- BranchSuccessors
  Injects <- BranchInjects
  NodeOf <- BranchNodeOf
  Audience <- BranchAudience
  Seeded = {i1, i2}
  Scheduled = {i2}
  Requests = {r1, r2}
  MaxTransitions = 3
SYMMETRY Symmetry
INVARIANTS
  TypeOK
  HistoryIsContiguous
  ResolvedIffEveryPathResolved
  CursorFollowsOwnAnswer
  BranchWasReached
  SnapshotIsExact
  ResponsesKeepTheirContext
  AudienceIsFixed
  ChecksOutliveTheRead
PROPERTIES
  CursorMovesOncePerPath
  ImplementsContract
CHECK_DEADLOCK FALSE
