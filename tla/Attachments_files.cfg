SPECIFICATION Spec
CONSTANTS
  f1 = f1
  Files = {f1}
  Persist = TRUE
  Forward = TRUE
  Limit = 1
  Retention = TRUE
  Batch = 1
  MaxBatches = 2
  MaxEvents = 2
INVARIANTS
  FilesMatchRows
  DeletionIsTold
  EventIsStored
  PurgeIsTold
CHECK_DEADLOCK FALSE
