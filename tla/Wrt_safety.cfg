SPECIFICATION Spec
CONSTANTS
  p1 = p1
  p2 = p2
  p3 = p3
  a = a
  b = b
  Proc = {p1, p2, p3}
  NoProc = NoProc
  Line = {a, b}
  NoLine = NoLine
  Tty <- MCTty
  User = {u1}
  NoUser = NoUser
  Command = Command
  Invoked <- MCInvoked
  MaxLogins <- MCMaxLogins
INVARIANTS
  WrtTypeOK
  OneEntryUnlessRaced
  ShownIsTrue
  
CHECK_DEADLOCK FALSE
SYMMETRY Symmetry
CONSTRAINT NoAccident
