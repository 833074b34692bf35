SPECIFICATION Spec
CONSTANTS
  Swaps = {s1}
  Prepay = {}
  Timeout <- MCTimeout
  MaxHeight = 3
  MaxLockups = 1
  MaxPending = 1
  MaxRestarts = 0
  MaxFaults = 0
  Failures = {}
  TimelyBlocks = FALSE
  LateClaims = TRUE
INVARIANTS CoinsOnRecord

CHECK_DEADLOCK FALSE
