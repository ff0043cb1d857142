SPECIFICATION Spec
CONSTANTS
  Requests = {{"driver"}, {"cuda"}}
  RetryBound = 0
  MaxLosses = 0
INVARIANT RequestedSurvives
