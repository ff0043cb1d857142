CONSTANTS
  m1 = m1
  m2 = m2
  m3 = m3
  Messages = {m1, m2, m3}
  Requests <- OneRequest
  RetryBound = 1
  Causes = {"worker_lost", "visibility_timeout"}
  MaxRedeliveries = 1
  MaxLosses = 0
SPECIFICATION Spec
SYMMETRY Slots
INVARIANTS
  PassHasReport
CHECK_DEADLOCK FALSE
