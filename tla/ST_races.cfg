SPECIFICATION StacksSpec
CONSTANTS
  Outgoing = {r1}
  Incoming = {n1}
  Timeout <- MCStacksTimeout
  MaxHeight = 1
  MaxNonce = 2
  MaxPending = 1
  MaxLoad = 2
INVARIANTS StacksTypeOK TakenOnlyForClaim PaysOnlyGoodLockups SerialCallsAccepted RowExplained
PROPERTIES GivenBackForRefund
CHECK_DEADLOCK FALSE
