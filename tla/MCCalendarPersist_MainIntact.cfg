\* Two threads that save at the same time.
CONSTANTS
  Stampers = {t1, t2}
  Finishers = {}
  MaxTicks = 3
  MaxFaults = 0
SPECIFICATION Spec
INVARIANTS
  MainIntact
