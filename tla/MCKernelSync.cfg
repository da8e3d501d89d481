SPECIFICATION Spec
CONSTANTS
  NONE = NONE
  INITPROC = init
  Task = {init, t1, t2, t3}
  BlockingMutex = {mb}
  SpinMutex = {ms}
  Semaphore = {s}
  Condvar = {c}
  ResCount = 1
  MaxCount = 1
  MaxTime = 2
  Disciplined = TRUE
SYMMETRY TaskSymmetry
INVARIANT OnePlace
INVARIANT MutualExclusion
INVARIANT SemaphoreCount
PROPERTY NoBarging
PROPERTY ImplementsLifecycle
