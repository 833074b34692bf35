SPECIFICATION Spec
CONSTANTS
  Swaps = {s1}
  InvoiceFirst = {}
  Timeout <- MCTimeout
  MaxHeight = 2
  MaxPending = 1
  MaxRestarts = 0
  MaxFaults = 0
  Failures = {}
  Timely = TRUE
INVARIANTS ZeroConfOnlyIfAccepted
CHECK_DEADLOCK FALSE
