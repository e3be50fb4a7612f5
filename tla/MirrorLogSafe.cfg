SPECIFICATION Spec
CONSTANTS
  p1 = p1
  p2 = p2
  p3 = p3
  b1 = b1
  b2 = b2
  b3 = b3
  Zero = Zero
  A = A
  NoVal = NoVal
  Proc = {p1, p2}
  Block = {b1, b2, b3}
  Value = {Zero, A}
  LOGSIZE = 4
  MAXOPBLOCKS = 2
  NLOG = 4
  OpBlocks = 1
  FailIds <- NoFailure
  BadAddrs <- NoBadBlock
  Crashes = TRUE
  ReusesRecovered = FALSE
SYMMETRY Symmetric
INVARIANTS
  MirrorAgrees
  CommitIsQuiet
  NoPanic
PROPERTIES
  AtomicCommit
  DirtyBlockKept
