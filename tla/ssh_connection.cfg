SPECIFICATION FairSpec
CONSTANTS
  Callers = {j1, j2}
  Defaulting = {j2}
  Branches = {main, dev}
  NoRef = NoRef
  Nobody = Nobody
  ProxyJump = TRUE
  MaxTroubles = 2
INVARIANTS
  TypeOK
  LinkIsKept
  OneFaultIsForgiven
  ChecksOutItsOwn
PROPERTIES
  CallsEnd
\* Calls come to an end.
CHECK_DEADLOCK FALSE
