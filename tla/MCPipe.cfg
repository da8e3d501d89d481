SPECIFICATION FairSpec
CONSTANTS
  Proc = {p1, p2}
  Creator = p1
  NONE = NONE
  Byte = {0, 1}
  RING_BUFFER_SIZE = 3
  MaxLen = 2
  MaxFd = 2
  MaxSent = 4
CHECK_DEADLOCK FALSE
INVARIANT EofIsFinal
PROPERTY ImplementsChannel
PROPERTY ReaderReturns
