SPECIFICATION FairSpec
CONSTANTS
  NONE = NONE
  INITPROC = init
  Task = {init, t1, t2}
  BlockingMutex = {mb}
  SpinMutex = {ms}
  Semaphore = {s}
  Condvar = {c}
  ResCount = 0
  MaxCount = 0
  MaxTime = 2
  Disciplined = TRUE
PROPERTY ReadyRuns
PROPERTY SleeperRuns
