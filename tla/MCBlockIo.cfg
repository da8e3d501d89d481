SPECIFICATION FairSpec
CONSTANTS
  NONE = NONE
  INITPROC = init
  ProcessOf <- OneProgram
  Task = {init, t1, t2}
  INODE = inode
  Block = {d1, d2}
  BLOCK_CACHE_SIZE = 2
  MaxChars = 2
CHECK_DEADLOCK FALSE
INVARIANTS HandlersFindCellsFree SpinsOnlyBehindTransfer CacheCoherent SyncedIsOnDisk NoStrandedReader
PROPERTY CallReturnsUnlessSpin
