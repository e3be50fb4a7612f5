SPECIFICATION FairSpec
CONSTANTS
  t1 = t1
  t2 = t2
  t3 = t3
  t4 = t4
  Thread = {t1, t2, t3}
  Root = t1
  Signal = {0}
  MaxYields = 1
INVARIANTS
  RingLinked
  ResumedWhereLeft
  SignalFirst
PROPERTIES
  FairTurns
CHECK_DEADLOCK FALSE
