SPECIFICATION FairSpec
CONSTANTS
  Swaps = {s1, s2}
  InvoiceFirst = {s1, s2}
  Timeout <- MCTimeout
  MaxHeight = 2
  MaxPending = 1
  MaxRestarts = 0
  MaxFaults = 1
  Failures = {"payment"}
  Timely = TRUE
INVARIANTS ZeroConfOnlyIfAccepted PaidIsPursued
PROPERTIES LockupSettled PaidIsClaimed
CHECK_DEADLOCK FALSE
