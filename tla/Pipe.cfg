SPECIFICATION FairSpec
CONSTANTS
  p1 = p1
  p2 = p2
  x = x
  y = y
  Proc = {p1, p2}
  NoProc = NoProc
  Byte = {x, y}
  PIPESIZE = 2
  U32 = 4
  MaxBytes = 3
INVARIANTS
  NoLostWakeup
PROPERTIES
  IsFifo
  ReaderSeesEnd
CHECK_DEADLOCK FALSE
