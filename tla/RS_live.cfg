SPECIFICATION FairSpec
CONSTANTS
  Swaps = {s1}
  Prepay = {s1}
  Timeout <- MCTimeout
  MaxHeight = 3
  MaxLockups = 2
  MaxPending = 2
  MaxRestarts = 0
  MaxFaults = 0
  Failures = {}
  TimelyBlocks = TRUE
  LateClaims = FALSE

PROPERTIES CoinsResolved PaymentResolved ClaimSettles
CHECK_DEADLOCK FALSE
