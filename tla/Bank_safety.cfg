SPECIFICATION BankSpec
CONSTANTS
  p1 = p1  p2 = p2  p3 = p3
  Proc = {p1, p2}
  Uid <- TwoUsers
  Banker = {2}
  Uids = {1, 2, 3}
  Passwd = {1, 2}
  Commands <- AnyCommand
  Amounts = {1}
  Slots = 2
  MaxLoop = 1
  InitRaw <- OneAndThree
  InitTrans <- NoNotice
  MaxTime = 2
  LockAge = 0
  MaxTries = 0
  InitBalance = 1
  OpenDelay = 2
INVARIANTS BankTypeOK LedgerExact
PROPERTIES PostKeepsNotices OverdrawnOnlyIfStale LockSpec
CHECK_DEADLOCK FALSE
