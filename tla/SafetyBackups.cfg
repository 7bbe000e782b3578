SPECIFICATION Spec
CONSTANTS
  Tool = {t1}
  Writer = {w1, w2}
  MinInterval = 1
  Window = 2
  PollTime = 1
  MaxClock = 5
INVARIANTS TypeOK Spaced
PROPERTIES WriteCovered PollEnds
CHECK_DEADLOCK FALSE
