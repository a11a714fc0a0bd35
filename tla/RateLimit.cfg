SPECIFICATION MCSpec
CONSTANTS
  tokens = tokens
  fixed = fixed
  Buckets <- MCBuckets
  Strategy <- MCStrategy
  Max <- MCMax
  Window <- MCWindow
  Never = Never
  Ms = 2
  MaxTime = 9
  MaxCalls = 4
CHECK_DEADLOCK FALSE
INVARIANTS
  ConformingIsAdmitted
  RetryAfterSuffices
PROPERTIES
  BudgetSpec
