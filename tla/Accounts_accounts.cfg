SPECIFICATION Spec
CONSTANTS
  e1 = e1
  l1 = l1
  r1 = r1
  q1 = q1
  q2 = q2
  Emails = {e1}
  Invites = {l1}
  Resets = {r1}
  Requests = {q1, q2}
  Offered = {"local", "registration", "mail", "host"}
  MaxBegun = 4
  MaxAttempts = 2
  Window = 1
  MaxTime = 3
SYMMETRY RequestSymmetry
INVARIANTS
  InviteIsSpentOnAccount
  TemporaryIsFlagged
  OldSessionsEnd
  ThrottleHolds
CHECK_DEADLOCK FALSE
