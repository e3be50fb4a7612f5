SPECIFICATION Spec
CONSTANTS
  p1 = p1
  p2 = p2
  Zero = Zero
  A = A
  NoProc = NoProc
  Proc = {p1, p2}
  NBUF = 2
  DISK1_START_BLOCK = 2
  Pbn <- TwoHalves
  Data = {Zero, A}
  NoBlk <- NoBlock
  RefMod = 8
  Boots <- DegradedOrRecovered
SYMMETRY Symmetric
INVARIANTS
  OneBufferPerBlock
  RefcntExact
  FreshData
CHECK_DEADLOCK FALSE
