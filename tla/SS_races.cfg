SPECIFICATION Spec
CONSTANTS
  Swaps = {s1}
  InvoiceFirst = {}
  Timeout <- MCTimeout
  MaxHeight = 1
  MaxPending = 1
  MaxRestarts = 1
  MaxFaults = 1
  Failures = {"claim"}
  Timely = FALSE
INVARIANTS TypeOK PaidOnlySufficient RowIsRight
PROPERTY KeepsBargain
CHECK_DEADLOCK FALSE
