\* Two request threads, no failures: IssuedStampVerifies does not hold.
CONSTANTS
  Stampers = {s1, s2}
  Daemons = {}
  NoDaemon = none
  MaxTick = 3
  MaxFaults = 0
SPECIFICATION Spec
INVARIANT IssuedStampVerifies
