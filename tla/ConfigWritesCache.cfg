SPECIFICATION Spec
CONSTANTS
  Writer = {w1, w2}
  Checker = {k1}
  MinInterval = 1
  MaxPerMinute = 2
  Window = 3
  MaxClock = 3
  MaxVersion = 3
  MaxSeq = 4
  Nobody = Nobody
INVARIANT CacheFresh
SYMMETRY Symmetry
CHECK_DEADLOCK FALSE
