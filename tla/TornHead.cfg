SPECIFICATION Spec
CONSTANTS
  Rotators = {r1}
  Signers = {task}
  MaxKeys = 2
  MaxSize = 1
  MaxCrashes = 0
  MaxFailures = 0
CHECK_DEADLOCK FALSE
INVARIANT HeadsVerifyWithChain
