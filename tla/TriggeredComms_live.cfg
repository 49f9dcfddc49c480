SPECIFICATION FairSpec
CONSTANTS
  teamA = teamA
  teamB = teamB
  msg = msg
  Injects = {teamA, teamB}
  Triggers = {msg}
  Fires <- TeamFires
  Delay <- TeamDelay
  Requests = {r1}
  Jobs = {j1, j2}
  MaxTime = 2
  MaxMoves = 3
  MaxCrashes = 1
INVARIANTS
  NoLostMessage
  ArmedByLastRelease
PROPERTIES
  MessageWaitsItsDelay
  OwedIsSent
CHECK_DEADLOCK FALSE
