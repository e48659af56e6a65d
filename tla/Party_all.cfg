SPECIFICATION PartyFairSpec
CONSTANTS
  p1 = p1  p2 = p2  p3 = p3
  None = None
  Proc = {p1, p2}
  User <- TwoUsers
  Users = {1, 2}
  Channels = {"party", "den"}
  Keep = {"party"}
  MayClose = {"den"}
  Unlisted = {}
  Killable = {p1}
  KnockWait = 1
  MaxCmds = 3
INVARIANTS PartyTypeOK OneLogUnlessRaced OptionsMatch
PROPERTY JoinsEnd
CHECK_DEADLOCK FALSE
