SPECIFICATION Spec
CONSTANTS
  Swaps = {s1}
  Prepay = {s1}
  Timeout <- MCTimeout
  MaxHeight = 3
  MaxLockups = 2
  MaxPending = 1
  MaxRestarts = 0
  MaxFaults = 0
  Failures = {}
  TimelyBlocks = TRUE
  LateClaims = TRUE
INVARIANTS OneLockupPerLife

CHECK_DEADLOCK FALSE
