CONSTANTS
  m1 = m1
  m2 = m2
  Messages = {m1, m2}
  Requests <- AllRequests
  RetryBound = 3
  Causes = {}
  MaxRedeliveries = 0
  MaxLosses = 1
SPECIFICATION FairSpec
INVARIANTS
  TypeOK
  SingleToken
  PassIsEarned
  PassMeansOver
  ReportDecides
  NoResurrection
PROPERTIES
  VerdictFrozen
  Refines
  FeedsStream
  Settles
CHECK_DEADLOCK FALSE
