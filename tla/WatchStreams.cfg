SPECIFICATION FairSpec
CONSTANTS
  Writers = {w1, w2}
  MaxBatch = 2
  MaxSeq = 5
  ChannelCap = 2
  PipeCap = 1
  PageSize = 2
  FromSeqs = {0, 1, 2}
  MaxConnects = 2
CHECK_DEADLOCK FALSE
INVARIANTS ReplayIsComplete NoGap ReconnectMissesNothing
PROPERTIES EventuallyDelivered
