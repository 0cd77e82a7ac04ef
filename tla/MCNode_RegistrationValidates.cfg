CONSTANTS
  T1 = t1
  T2 = t2
  Tbids = {t1, t2}
  Callers = {c1, c2}
  Dht <- MCDht
  MaxCalls = 3
  MaxLines = 4
  Nodes = {n1}
  Calls = {q1, q2}
  MaxCommands = 3
  Processes = {p1, p2}
  NonceWindow = 2
  MaxDelay = 1
  MaxBeats = 3
  Peers = {a, b}
  Values <- MCValues
  Hot = 1
  Valley = 2
  Ancient = 3
  MaxSkew = 1
  MaxReports = 2
  MaxNow = 2
  MaxIngested = 3
  Appenders = {a1, a2}
  Runs <- MCRuns
  MaxAppends = 3
  TickModulus = 8
  Calendars = {k1, k2}
  CacheThreads = {w1, w2}
  Sizes = {1, 2}
  Budget = 1
  LruModulus = 4
  StaleThreshold = 0
  MaxClock = 1
  Contents = {"x", "y"}
  MaxClientCalls <- MCMaxClientCalls
  MaxRecords = 2
SPECIFICATION MCSpec
INVARIANT RegistrationValidates
CHECK_DEADLOCK FALSE
