SPECIFICATION Spec
CONSTANTS
  Swaps = {s1}
  Prepay = {s1}
  Timeout <- MCTimeoutNext
  MaxHeight = 1
  MaxLockups = 3
  MaxPending = 1
  MaxRestarts = 1
  MaxFaults = 1
  Failures = {"send", "settle", "news"}
  TimelyBlocks = FALSE
  LateClaims = TRUE
INVARIANTS TypeOK SettledImpliesClaimed RefundedRowHasRefund PayoutsBounded
INVARIANTS EarlyClaimNotCancelled CoinsTracked
PROPERTIES KeepsPromise SentWhileHeld
CHECK_DEADLOCK FALSE
