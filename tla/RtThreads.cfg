SPECIFICATION BoundedSpec
CONSTANTS
  Thrd = {1, 2, 3}
  Scheduler = {"DEFAULT", "HRRN", "PRIORITY_RR", "DM"}
  Tasks <- SmallTasks
  TIME_QUANTUM = 2
  MaxTime = 27
INVARIANTS
  QueuesExact
  MissesAsAnalysed
PROPERTIES
  NotOvertaken
CHECK_DEADLOCK FALSE
