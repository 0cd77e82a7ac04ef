\* Two workers and two peers: dumps that meet each other, other senders, a
\* timeout or a restart, and mirrors that expire and enrol again.
CONSTANTS
  Workers = {w1, w2}
  Peers = {p1, p2}
  NoPeer = none
  NoWorker = nobody
  MinMirrors = 1
  TargetMirrors = 1
  MaxHealthFailures = 2
  MaxTicks = 2
  MaxPosted = 3
  MaxClients = 1
  MaxFaults = 1
SPECIFICATION Spec
SYMMETRY PoolSymmetry
INVARIANTS
  MirrorHoldsPrefix
  CompleteDumpArrived
  OneDumpGetsThrough
CHECK_DEADLOCK FALSE
