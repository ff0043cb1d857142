SPECIFICATION FairSpec
CONSTANTS
  Profiles <- SomeProfiles
  Specs <- SomeSpecs
  Findings <- SomeFindings
  Files <- SomeFiles
  Answers <- SomeAnswers
  RetryBound = 1
  Restarts = 1
INVARIANTS
  TypeOK
  PassMeetsCriteria
  FailHasReason
  JudgedInFull
  CollectIsNeutral
PROPERTIES
  FailStands
  Ends
CHECK_DEADLOCK FALSE
