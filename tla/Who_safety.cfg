SPECIFICATION WhoSpec
CONSTANTS
  p1 = p1  p2 = p2  p3 = p3   t1 = t1  t2 = t2
  None = None
  Proc = {p1, p2, p3}
  Line <- OneAndTwo
  User <- AnnAndTwoBobs
  Tty = {t1, t2}
  Users = {"ann", "bob"}
  Names = {"ann", "bob"}
  LogName <- Whole
  Channels = {"party", "den"}
  NSub = 2
  Capacity = 2
  Killable = {p2}
  MaxLogin = 2
INVARIANTS WhoTypeOK ListedUnlessShared ShownAreIn EmptyIsEmpty
CHECK_DEADLOCK FALSE
