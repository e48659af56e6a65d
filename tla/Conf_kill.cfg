SPECIFICATION Spec
CONSTANTS
  Proc = {p1, p2}
  NoProc = NoProc
  Confs = {c1}
  NoName = NoName
  MaxItem = 1
  MaxNode = 1
  MaxResp = 2
  MaxClock = 2
  MaxCalls = 4
  EditFrozen = TRUE
INVARIANT KilledIsDead
CHECK_DEADLOCK FALSE
SYMMETRY Symmetry
