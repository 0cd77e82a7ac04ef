\* Two request threads and one timer task, every interleaving, no failures.
CONSTANTS
  Stampers = {s1, s2}
  Daemons = {d1}
  NoDaemon = none
  MaxTick = 3
  MaxFaults = 0
SPECIFICATION Spec
SYMMETRY StamperSymmetry
INVARIANTS
  TypeOK
  TicksDistinct
  CalendarOrdered
  NewestKeysRetained
  BackdateProof
  LinksPointBackwards
