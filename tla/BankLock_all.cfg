SPECIFICATION LockFairSpec
CONSTANTS
  Proc = {p1, p2, p3}
  LockAge = 0
  MaxTries = 1
  MaxTime = 2
INVARIANTS LockTypeOK MutualExclusion
PROPERTY LockCallsEnd
CHECK_DEADLOCK FALSE
