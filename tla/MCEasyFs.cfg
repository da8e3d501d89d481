SPECIFICATION Spec
CONSTANTS
  INODE_DIRECT_COUNT = 1
  INODE_INDIRECT1_COUNT = 2
  BLOCK_SZ = 2
  MaxInode = 2
  DataBlocks = 14
  BitmapBits = 15
  Name = {a, b}
  Value = {v}
  Zero = Zero
  LinkMod = 16
  Extents <- SomeExtents
  MaxOps = 5
SYMMETRY NameSymmetry
CHECK_DEADLOCK FALSE
INVARIANTS BlocksConserved LinksCounted ImplementsTree
