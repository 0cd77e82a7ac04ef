\* One request thread and the timer task, with a step that fails.
CONSTANTS
  Stampers = {s1}
  Daemons = {d1}
  NoDaemon = none
  MaxTick = 3
  MaxFaults = 1
SPECIFICATION FairSpec
INVARIANTS
  StampsCountedOnce
  SequentialSound
PROPERTIES
  CalendarAppendOnly
  RefinesTickLog
  CallsReturn
