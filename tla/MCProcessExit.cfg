CONSTANTS
  Task = {t1, t2, t3, t4}
  NONE = NONE
  MaxPid = 3
  MaxTid = 2
  JoinsFirst = FALSE
  ForksAfterThreads = FALSE
SPECIFICATION Spec
SYMMETRY Symmetry
INVARIANT ReturnsWithRes
