SPECIFICATION Spec
CONSTANTS
  FIRST = p1
  Pid = {p1, p2}
  MaxInode = 2
  Name = {"a", "b"}
  Value = {v}
  Zero = zero
  MaxSize = 2
  LinkMod = 16
  Path <- SomePaths
  MaxFd = 2
  MaxOps = 5
CHECK_DEADLOCK FALSE
INVARIANTS OpenFilesOwned CwdResolves OffsetsInside
