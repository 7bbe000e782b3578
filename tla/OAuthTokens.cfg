SPECIFICATION Spec
CONSTANTS
  Code = {c1, c2, c3}
  Client = {k1, k2, k3}
  NoCode = NoCode
  MaxIssue = 3
  MaxClock = 2
  Life = 1
  Grace = 0
  MaxSessions = 2
INVARIANTS
  TypeOK
  OneLiveAccess
  SessionsBounded
  SessionSurvives
  RevokedIsGone
  CodeOnce
  ExpiryKept
CHECK_DEADLOCK FALSE
SYMMETRY Symmetry
