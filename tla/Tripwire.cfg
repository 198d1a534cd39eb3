CONSTANTS
  Pids = {p, q}
  Files = {f, g}
  Payloads <- MCPayloads
  Window = 3
  Slots = 2
  FileThreshold = 2
  MaxSkew = 2
  MaxTime = 6
  MaxOps = 3
SPECIFICATION Spec
SYMMETRY MCSymmetry
INVARIANTS
  WindowIsComplete
  SuspensionNeedsBurst
  BucketsPartition
CHECK_DEADLOCK FALSE
