SPECIFICATION BankSpec
CONSTANTS
  p1 = p1  p2 = p2  p3 = p3
  Proc = {p1, p2}
  Uid <- TwoUsers
  Banker = {}
  Uids = {1, 2}
  Passwd = {1, 2}
  Commands <- Transfers
  Amounts = {1}
  Slots = 2
  MaxLoop = 0
  InitRaw <- OneAndTwo
  InitTrans <- NoNotice
  MaxTime = 1
  LockAge = 1
  MaxTries = 1
  InitBalance = 1
  OpenDelay = 2
INVARIANT DebitIsCredited
CHECK_DEADLOCK FALSE
