SPECIFICATION BlocksSpec
CONSTANTS
  p1 = p1
  p2 = p2
  f1 = f1
  f2 = f2
  Writer = {p1, p2}
  Inum = {1, 2}
  File = {f1, f2}
  InodeOf <- OneEach
  Byte = {"0", "x"}
  Zero = "0"
  BSIZE = 2
  NDIRECT = 1
  NINDIRECT = 2
  NBLOCKS = 5
  MaxChunk = 3
  MaxBytes = 4
  MaxCalls = 4
SYMMETRY Symmetric
INVARIANTS
  BitmapExact
PROPERTIES
  IsFile
  ReadsNeverAllocate
CHECK_DEADLOCK FALSE
