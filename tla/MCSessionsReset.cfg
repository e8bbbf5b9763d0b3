SPECIFICATION Spec
CONSTANTS
  Users = {u1}
  SessionIds = {s1, s2}
  Requests = {q1, q2}
  MaxPassword = 3
  None = None
CHECK_DEADLOCK FALSE
INVARIANTS
  ResetEndsOldSessions
