SPECIFICATION MCSpec
CONSTANTS
  r1 = r1
  r2 = r2
  Req = {r1, r2}
  MaxConn = 2
  MaxEvents = 1
INVARIANTS
  TypeOK
  NobodyForgotten
  WaitsAreLive
  
PROPERTIES
  LossIsTold
CHECK_DEADLOCK FALSE
