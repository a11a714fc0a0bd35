SPECIFICATION MCSpec
CONSTANTS
  r1 = r1
  r2 = r2
  server = server
  Nobody = Nobody
  Calls <- MCCalls
  Op <- MCOp
  Version <- MCVersion
  Given <- MCGiven
  BadKeys <- MCBadKeys
  Foreign <- MCForeign
  Receipts = {r1, r2}
  Owners = {server}
  RetryAttempts = 2
  MaxReceipts = 1
  MaxPreserved = 2
  MaxBytes = 4
  MaxForeign = 1
  MaxCalls = 2
INVARIANTS
  StoreIsTrue
PROPERTIES
  CarriedForward
CHECK_DEADLOCK FALSE
