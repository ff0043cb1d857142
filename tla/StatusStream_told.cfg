CONSTANT MaxUnread = 2
SPECIFICATION FairSpec
INVARIANTS
  TypeOK
  UpToDate
  PassShownIsEarned
PROPERTY StreamCloses
CHECK_DEADLOCK FALSE
