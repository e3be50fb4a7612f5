SPECIFICATION FairSpec
CONSTANTS
  p1 = p1
  p2 = p2
  p3 = p3
  b1 = b1
  b2 = b2
  b3 = b3
  Zero = Zero
  A = A
  NoVal = NoVal
  Proc = {p1, p2}
  Block = {b1}
  Value = {Zero, A}
  LOGSIZE = 2
  MAXOPBLOCKS = 1
  NLOG = 4
  OpBlocks = 1
  FailIds <- AnyDiskMayFail
  BadAddrs <- BadSlot
  Crashes = FALSE
  ReusesRecovered = TRUE
INVARIANTS
  SomeCopyCurrent
PROPERTIES
  SleeperWoken
