CONSTANT Requests <- SomeRequests
SPECIFICATION Spec
INVARIANTS
  TypeOK
  UnlistedPairsAsked
  SwInstallStartsHere
CHECK_DEADLOCK FALSE
