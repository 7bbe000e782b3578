SPECIFICATION MCSpec
CONSTANTS
  r1 = r1
  r2 = r2
  Req = {r1, r2}
  MaxConn = 2
  MaxEvents = 0
INVARIANT SubscribedBeforeSnapshot
CHECK_DEADLOCK FALSE
