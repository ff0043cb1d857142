CONSTANTS
  m1 = m1
  m2 = m2
  Messages = {m1, m2}
  Requests <- OneRequest
  RetryBound = 3
  Causes = {}
  MaxRedeliveries = 0
  MaxLosses = 0
SPECIFICATION Spec
INVARIANT FailureIsSwept
CHECK_DEADLOCK FALSE
