SPECIFICATION FairSpec
CONSTANTS
  QueueMaxsize = 1
  NoGroup = "none"
  Users = {"u1", "u2"}
  Groups = {"red"}
  r1 = r1
  r2 = r2
  boss = boss
  player = player
  released = released
  edited = edited
  Replicas = {r1, r2}
  Clients = {player}
  Events = {released}
  Item <- MCItem
  Viewer <- MCViewer
  MaxDials = 2
  MaxFaults = 0
  MaxChanges = 1
PROPERTY
  StaleSocketsEnd
CHECK_DEADLOCK FALSE
