SPECIFICATION FairSpec
CONSTANTS
  Principals = {"p"}
  Contents = {"gone", "off", "on"}
  Schedulers = {s1, s2}
  MaxTasks = 2
  Capacity = 1
  Interval = 1
  MaxPublications = 3
  MaxClock = 1
  MaxFaults = 1
INVARIANTS OneTaskPerSlot StoppedWorkStops
PROPERTIES DueOccurrencesRun
\* operators and Tasks need not act
CHECK_DEADLOCK FALSE
