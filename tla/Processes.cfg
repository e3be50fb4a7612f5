SPECIFICATION FairSpec
CONSTANTS
  NPROC = 3
INVARIANTS
  FamilyTree
  NoExitMissed
PROPERTIES
  ExitEnds
  WaitReturns
CHECK_DEADLOCK FALSE
