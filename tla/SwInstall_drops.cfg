CONSTANTS
  Jobs <- SomeJobs
  RetryBound = 1
  MaxDrops = 1
SPECIFICATION FairSpec
INVARIANTS
  TypeOK
  SkipHasCause
  FailureNeverForwarded
  StackIsVerified
  OneReboot
  ItemsAccountedFor
PROPERTIES
  IsPipelineTask
  StackAfterReboot
  Ends
CHECK_DEADLOCK FALSE
