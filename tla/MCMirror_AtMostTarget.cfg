\* Two workers searching at the same time.
CONSTANTS
  Workers = {w1, w2}
  Peers = {p1, p2}
  NoPeer = none
  NoWorker = nobody
  MinMirrors = 1
  TargetMirrors = 1
  MaxHealthFailures = 3
  MaxTicks = 1
  MaxPosted = 2
  MaxClients = 0
  MaxFaults = 0
SPECIFICATION Spec
INVARIANTS
  AtMostTarget
CHECK_DEADLOCK FALSE
