SPECIFICATION Spec
CONSTANTS
  Rotators = {r1, r2}
  Signers = {task}
  MaxKeys = 3
  MaxSize = 2
  MaxCrashes = 1
  MaxFailures = 1
SYMMETRY HandlerSymmetry
VIEW KeyView
CHECK_DEADLOCK FALSE
INVARIANTS UntornHeadVerifies SignerMatchesChain ActivationBoundsHeads
