CONSTANTS
  Task = {t1, t2, t3, t4}
  NONE = NONE
  MaxPid = 3
  MaxTid = 3
  JoinsFirst = TRUE
  ForksAfterThreads = FALSE
SPECIFICATION LiveSpec
INVARIANTS ProcessTree WaitpidAssert ThreadTable NoPanic
PROPERTIES TidKeptUntilWait HeadReaped
