SPECIFICATION Spec
CONSTANTS
  Proc = {p1, p2, p3}
  NoProc = NoProc
  Confs = {c1}
  NoName = NoName
  MaxItem = 2
  MaxNode = 2
  MaxResp = 2
  MaxClock = 2
  MaxCalls = 4
  EditFrozen = TRUE
INVARIANTS ConfTypeOK CountsAgree FlagsAgree AuthorKillsUnanswered
CHECK_DEADLOCK FALSE
SYMMETRY Symmetry
