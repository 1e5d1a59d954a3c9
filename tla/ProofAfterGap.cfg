SPECIFICATION PSpec
CONSTANTS
  Data = {d1}
  Writers = {w1}
  Signers = {task}
  Task = task
  MaxBatch = 2
  MaxSeq = 4
  MaxFailures = 1
  MaxCrashes = 0
  MaxLosses = 0
CHECK_DEADLOCK FALSE
INVARIANTS ProofVerifiesAgainstSth
