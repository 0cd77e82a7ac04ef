\* The file: three request threads and the main thread, killed and restarted
\* anywhere, two I/O errors.  The other parts as far as their bounds say.
CONSTANTS
  Stampers = {t1, t2, t3}
  Finishers = {m}
  MaxTicks = 4
  MaxFaults = 2
  Conns = {c1, c2}
  Requests = {"stamp", "failing", "unknown"}
  MaxSourceTicks = 3
  MaxForks = 1
  MaxBatches = 2
  OwnTicks = 2
  MaxCalendarSliceCount = 3
  MaxIntegrityRecords = 10000
  Workers = {w1, w2}
  MaxTasks = 2
  MaxVerifyRecords = 100
SPECIFICATION MCSpec
INVARIANTS
  TmpNotOlder SavedSurvives MainSettles DormantServesSaved
  SessionAgrees ReconcileMeans AttestationPaired
PROPERTIES
  MainNeverRegresses
