\* One thread, killed between write and rename, then a dormant restart.
CONSTANTS
  Stampers = {t1}
  Finishers = {}
  MaxTicks = 3
  MaxFaults = 0
SPECIFICATION Spec
INVARIANTS
  LeftoverRecovered
