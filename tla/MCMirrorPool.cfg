\* Two workers searching, probing and expiring, every call eventually answered.
CONSTANTS
  Workers = {w1, w2}
  Peers = {p1, p2, p3}
  NoPeer = none
  NoWorker = nobody
  MinMirrors = 1
  TargetMirrors = 1
  MaxHealthFailures = 2
  MaxTicks = 0
  MaxPosted = 4
  MaxClients = 0
  MaxFaults = 0
SPECIFICATION FairSpec
INVARIANTS
  BoundedOvershoot
PROPERTIES
  OnlyFailingExpire
  ExpiryRefills
CHECK_DEADLOCK FALSE
