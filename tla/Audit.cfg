SPECIFICATION ASpec
CONSTANTS
  Data = {d1, d2}
  Writers = {w1, own}
  Own = own
  Signers = {task}
  Task = task
  MaxBatch = 1
  MaxSeq = 3
  MaxFailures = 1
  MaxCrashes = 1
  MaxLosses = 1
  DemoEntries = 2
  PageSize = 1
  MaxErrors = 1
  MaxFaults = 2
VIEW AuditView
SYMMETRY DataSymmetry
CONSTRAINT InSession
CHECK_DEADLOCK FALSE
INVARIANTS NoFalseAlarm ListingIsCommitted WatcherMissesNothing AcceptedGrowthIsGrowth
