SPECIFICATION NamesSpec
CONSTANTS
  p1 = p1  p2 = p2  p3 = p3
  Proc = {p1, p2, p3}
  Entries = 2
  Entry <- Three
  Sub <- FirstAndSecond
  Words = {"ann", "bob", "x"}
  Login <- AnnBob
  Alias <- AliasX
  Typed <- AnyCase
  Channels = {c, d}
  None = None
  UniqueName = {c}
  AskName = {c}
  MapName = {d}
  RandName = {}
  Rename = {c, d}
INVARIANTS NamesTypeOK UniqueUnlessExcused UniqAgrees
CHECK_DEADLOCK FALSE
