SPECIFICATION Spec
CONSTANTS
  Proc = {p1, p2}
  Sids = {s1, s2}
  Users = {u1, u2}
  NoSid = NoSid
  NoCookie = NoCookie
  NoUser = NoUser
  Pending = Pending
  NoProc = NoProc
  Expire = 1
  Lifetime = 1
  MaxRetry = 1
  Slots = 2
  MaxClock = 2
INVARIANTS SessTypeOK UniqueIds TimeHonest
PROPERTIES KilledIsGone StoreSpec
CHECK_DEADLOCK FALSE
SYMMETRY Symmetry
CONSTRAINT LoginFirst
