----------------------------- MODULE MCRtThreads -----------------------------
(* An instance of RtThreads for TLC: the tasks of each build, those of the   *)
(* assignment's programs and a few that the build's scheduler passes over.   *)
EXTENDS RtThreads

CONSTANT MaxTime   \* the bound of the clock, which runs on while a thread is passed over

Task(real, bursts, periods, cycles, arrivals, priorities) ==
  [is_real_time : {real}, processing_time : bursts, period : periods, n : cycles,
   arrival : arrivals, priority : priorities]

SmallTasks(s) ==
  CASE s = "DM"          -> Task(TRUE, {1, 2}, {3, 4, 5}, {1, 2}, {0, 1}, {100})
                              \union Task(FALSE, {1}, {-1, 3}, {1}, {0}, {100})
    [] s = "HRRN"        -> Task(FALSE, {1, 2, 4}, {-1}, {1, 2}, {0, 1, 2}, {100})
                              \union Task(TRUE, {2}, {6}, {1}, {0}, {100})
    [] s = "PRIORITY_RR" -> Task(FALSE, {1, 3, 5}, {-1}, {1}, {0, 2}, {1, 2})
                              \union Task(FALSE, {2}, {-1}, {1}, {0}, {5, 100})
                              \union Task(TRUE, {2}, {6}, {1}, {0}, {1})
    [] s = "DEFAULT"     -> Task(FALSE, {1, 2}, {-1}, {1, 2}, {0, 2}, {100})
                              \union Task(TRUE, {2}, {3}, {2}, {0}, {100})

BoundedNext == lib.time < MaxTime /\ RtNext
BoundedSpec == RtInit /\ [][BoundedNext]_rt_vars
=============================================================================
