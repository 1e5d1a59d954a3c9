SPECIFICATION Spec
CONSTANTS
  Data = {d1, d2}
  Writers = {w1, w2}
  Signers = {task, force}
  Task = task
  MaxBatch = 2
  MaxSeq = 3
  MaxFailures = 1
  MaxCrashes = 1
  MaxLosses = 1
VIEW ServerView
SYMMETRY HandlerSymmetry
CHECK_DEADLOCK FALSE
INVARIANTS TypeOK HeadsArePrefixes TreeMatchesLog SeqsIncrease SeqIsLeafIndex AckedIsStored
PROPERTIES AppendOnly ForcedHeadCovers
