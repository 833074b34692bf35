SPECIFICATION Spec
CONSTANTS
  Swaps = {s1}
  InvoiceFirst = {s1}
  Timeout <- MCTimeout
  MaxHeight = 2
  MaxPending = 1
  MaxRestarts = 0
  MaxFaults = 1
  Failures = {"claim"}
  Timely = TRUE
INVARIANTS PaidIsPursued
CHECK_DEADLOCK FALSE
