SPECIFICATION PSpec
CONSTANTS
  Data = {d1, d2}
  Writers = {w1}
  Signers = {task}
  Task = task
  MaxBatch = 2
  MaxSeq = 3
  MaxFailures = 1
  MaxCrashes = 1
  MaxLosses = 0
CHECK_DEADLOCK FALSE
INVARIANTS InclusionAnswerVerifies ConsistencyAnswerVerifies CoveredIsAnswered
