CONSTANTS
  Candidates <- MCCandidates
  BackoffCap = 3
  Unhealthy = 2
  MaxNow = 4
  MaxFailures = 2
  Priorities = {0, 1, 2}
  MaxCommands = 3
  MaxTurns = 3
  Target = target
  Stranger = stranger
  NoKey = 0
  Broken = broken
  Malformed = malformed
  Records <- MCRecords
  Foretises <- MCForetises
  Proofs <- MCProofs
  MaxSlice = 3
  Contents = {c1, c2}
SPECIFICATION MCSpec
INVARIANTS NeverStranded ServedInOrder AcceptedIsAuthentic
PROPERTIES DeadPeerNoticed CallersReleasedAtEnd
CHECK_DEADLOCK FALSE
