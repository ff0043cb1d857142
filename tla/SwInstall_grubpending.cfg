CONSTANTS
  Jobs <- AccountOnly
  RetryBound = 1
  MaxDrops = 0
SPECIFICATION Spec
INVARIANT ParametersAreLive
CHECK_DEADLOCK FALSE
