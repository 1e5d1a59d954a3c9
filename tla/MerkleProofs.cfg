SPECIFICATION Spec
CONSTANTS
  Data = {1, 2}
  MaxLeaves = 8
  TreeLeaves = 4
  MaxRebuilds = 2
  MaxWrites = 1
  MaxFailures = 1
  MaxCrashes = 1
  MaxProof = 3
  SoundLeaves = 5
CHECK_DEADLOCK FALSE
INVARIANTS RootIsTreeHash InclusionComplete ConsistencyComplete NodesAreSubtrees InclusionSound ConsistencySound
PROPERTIES RebuildRestores
