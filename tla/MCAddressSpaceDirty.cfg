SPECIFICATION Spec
CONSTANTS
  FIRST = p1
  Pid = {p1, p2}
  Frames = 34
  Fanout = 2
  Elf = {0}
  Ustack = {2}
  TrapCx = 6
  Trampoline = 7
  MmapBase = 4
  MaxVpn = 5
  FilePages = 2
  MaxOps = 6
CHECK_DEADLOCK FALSE
PROPERTY DirtyPagesWritten
