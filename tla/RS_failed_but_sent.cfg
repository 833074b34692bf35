SPECIFICATION Spec
CONSTANTS
  Swaps = {s1}
  Prepay = {}
  Timeout <- MCTimeout
  MaxHeight = 3
  MaxLockups = 1
  MaxPending = 1
  MaxRestarts = 0
  MaxFaults = 1
  Failures = {"send"}
  TimelyBlocks = TRUE
  LateClaims = TRUE
INVARIANTS FailedMeansNotSent

CHECK_DEADLOCK FALSE
