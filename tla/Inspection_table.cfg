SPECIFICATION Spec
CONSTANTS
  Profiles <- ZoneProfile
  Specs <- NoSpecs
  Findings <- SomeFindings
  Files <- SomeFiles
  Answers <- SomeAnswers
  RetryBound = 0
  Restarts = 0
INVARIANT TableIsHeeded
CHECK_DEADLOCK FALSE
