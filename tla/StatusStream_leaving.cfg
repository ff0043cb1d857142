CONSTANT MaxUnread = 1
SPECIFICATION FairSpec
PROPERTY LeavingEnds
CHECK_DEADLOCK FALSE
