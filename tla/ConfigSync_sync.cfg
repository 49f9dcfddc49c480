SPECIFICATION FairSpec
CONSTANTS
  QueueMaxsize = 1
  r1 = r1
  q1 = q1
  q2 = q2
  Replicas = {r1}
  Elsewhere = elsewhere
  Scopes = {"proxy", "oidc"}
  Requests = {q1, q2}
  Patches <- MCPatches
  MaxSaves = 2
  MaxBreaks = 1
  MaxCrashes = 1
  Unloaded = unloaded
INVARIANTS
  StaleIsOwed
  ClientsFollowCache
PROPERTY
  Converges
CHECK_DEADLOCK FALSE
