SPECIFICATION Spec
CONSTANTS
  Wait = {x1, x2, x3}
  MaxConcurrent = 2
  MaxEvents = 1
  Flow = {x1, x2}
  Job = {x1, x2}
  JobKeep = 2
  MaxJobTime = 4
  Address = {x1, x2}
  Threshold = 2
  Window = 6
  Base = 1
  MaxLock = 4
  GlobalThreshold = 5
  LoginStart = 7
  MaxLoginTime = 17
  MaxFails = 7
  MaxEntries = 1
  CrashThreshold = 2
  CrashWindow = 3
  RingSize = 3
  MaxBootTime = 6
  MaxStarts = 4
  Ip = {i1, i2, i3, i4}
  MaxPerMinute = 2
  FailureWindow = 2
  MaxIps = 2
  MaxAuthTime = 3
  MaxRejections = 6
  Source = {x1, x2, x3}
  PublicMax = 2
  PublicWindow = 2
  PurgeInterval = 2
  MaxTracked = 1
  MaxPublicTime = 4
  MaxDispatches = 6
  Client = {x1, x2, x3}
  MaxClients = 2
  Writer = {x1, x2, x3}
  Path = {p1, p2}
  Edit = {x1, x2}
  MaxPerPath = 2
  MaxTotal = 2
  MaxSecond = 2
  MaxCalls = 3
SYMMETRY Alike
INVARIANTS
  TypeOK
  NothingStranded
  RestrictedAsks
  FilesSurvive
PROPERTIES
  LimitsHold
CHECK_DEADLOCK FALSE
