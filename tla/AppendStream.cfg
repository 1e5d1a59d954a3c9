SPECIFICATION SSpec
CONSTANTS
  Rate = 2
  Ticks = 3
  MaxBatch = 3
  MaxTime = 6
  MaxEntries = 5
  BatchSize = 3
  MaxLost = 1
CHECK_DEADLOCK FALSE
INVARIANTS WindowIsBounded InFlightBounded YieldsInOrder
