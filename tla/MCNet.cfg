SPECIFICATION NetFairSpec
CONSTANTS
  Pid = {init, p1}
  FIRST = init
  None = None
  Peer = {r1, r2}
  Port = {80}
  Data = {d}
  Empty = Empty
  MaxFd = 3
  MaxPort = 2
  MaxFile = 3
  MaxBuf = 2
INVARIANTS SocketsOwned DataDelivered
PROPERTY CallAnswered
CHECK_DEADLOCK FALSE
