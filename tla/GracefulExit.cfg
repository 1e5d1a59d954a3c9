SPECIFICATION FairSpec
CONSTANTS
  Appenders = {a1, a2}
  Watchers = {v1}
  MaxSize = 3
  MaxFailures = 1
CHECK_DEADLOCK FALSE
INVARIANTS FinalHeadCoversLog
PROPERTIES ShutdownCompletes
