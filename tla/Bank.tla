-------------------------------- MODULE Bank --------------------------------
(***************************************************************************)
(* The bank program, soft/apps/bank/bank.c: any number of invocations, run *)
(* by customers and bankers at the same time on one balance file and one   *)
(* transaction file.                                                       *)
(*                                                                         *)
(* A process is one invocation.  A step is one read or write of a shared   *)
(* file, one answer of the user, or one system call of the lock protocol   *)
(* (module BankLock), together with the code up to the next such point.    *)
(* pc[p] is the place in the session; while lpc[p] says that the process   *)
(* is inside setlock() or unlock(), only that protocol moves it.           *)
(***************************************************************************)
EXTENDS BankLock

CONSTANTS Uids,         \* slots of the balance file
          Uid,          \* Uid[p]: the user who runs invocation p
          Banker,       \* the users listed in the bankers file
          Passwd,       \* the users that have a passwd entry
          Commands,     \* Commands[p]: the ways p may be invoked
          Amounts,      \* the amounts that users type
          Slots,        \* bound: 1 .. Slots are the entries of the transaction file
          MaxLoop,      \* bound: the commands of one banker's session
          InitBalance,  \* INITBALANCE
          OpenDelay,    \* OPENDELAY, in units of the clock
          InitRaw,      \* the balance file to begin with
          InitTrans     \* the transaction file to begin with: who has a notice

AllCommands == {"menu", "r", "t", "b", "f", "o", "c", "w"}

ASSUME UserAssumption ==
  /\ Uids \subseteq Nat \ {0}
  /\ Uid \in [Proc -> Uids]
  /\ Banker \subseteq Uids
  /\ Passwd \subseteq Uids

ASSUME InputAssumption ==
  /\ Commands \in [Proc -> SUBSET AllCommands]
  /\ Amounts \subseteq Nat \ {0}

ASSUME NumberAssumption ==
  /\ Slots \in Nat \ {0}
  /\ MaxLoop \in Nat
  /\ InitBalance \in Nat
  /\ OpenDelay \in Nat

ASSUME FileAssumption ==
  /\ InitRaw \in [Uids -> Nat]
  /\ InitTrans \in [1 .. Slots -> Uids \cup {0}]

VARIABLES raw,      \* the balance file: one long per uid
          trans,    \* the transaction file: Empty stands for TR_NONE and for EOF
          pc,       \* per process: where it is in its session
          ses,      \* per process: its arguments and global variables
          add,      \* per process: the arguments of addbalance(), where it returns
          old,      \* per process: addbalance()'s oldbal
          scan,     \* per process: scantrans()'s uid, entry, where it returns
          ledger,   \* history: what each open account was opened with and given since
          excused,  \* history: accounts whose balance was put at risk, see Excuse
          posted    \* history: number of notices written

bankVars == <<raw, trans, pc, ses, add, old, scan, ledger, excused, posted>>
vars == <<bankVars, lockVars>>

Empty == [to |-> 0, id |-> 0]

-----------------------------------------------------------------------------
(* The encoding of an account in one long.                                 *)

\* C's integer division by 2, which rounds towards zero.
Half(n) == IF n >= 0 THEN n \div 2 ELSE -((-n) \div 2)

\* balance()'s three answers: 1, no account; 2, waiting for a date; 0, open.
Status(n) == IF n % 2 # 0 THEN 0 ELSE IF n = 0 THEN 1 ELSE 2

IsOpen(u) == Status(raw[u]) = 0

Encode(b) == b * 2 + 1

\* addbalance()'s idea of the old balance.
OldBalance(n) == IF n % 2 = 0 THEN InitBalance ELSE Half(n)

\* openaccount(): the opening date, made even.
OpenDate(t) == LET d == t + OpenDelay IN IF d % 2 = 1 THEN d - 1 ELSE d

-----------------------------------------------------------------------------
IsBanker(p) == Uid[p] \in Banker /\ ses[p].cmd # "r"

Goto(p, l) == pc' = [pc EXCEPT ![p] = l]

\* Call addbalance(u, d) and continue at l.
CallAdd(p, u, d, l) ==
  /\ add' = [add EXCEPT ![p] = [uid |-> u, delta |-> d, next |-> l]]
  /\ Goto(p, "add")

\* Call scantrans(u) and continue at l.
CallScan(p, u, l) ==
  /\ scan' = [scan EXCEPT ![p] = [uid |-> u, slot |-> 1, read |-> Empty, next |-> l]]
  /\ Goto(p, "scan")

\* Accounts that a step may leave with a balance other than the ledger's: a
\* debt, which Half() rounds; an update in progress when a lock-free write hits.
Excuse(u, b) == IF b < 0 THEN {u} ELSE {}
Raced(u) ==
  {v \in {u} : \E q \in Proc : pc[q] = "write" /\ lpc[q] = "held" /\ add[q].uid = u}

\* writebalance() without the lock, as openaccount() and closeaccount() do.
WriteUnlocked(u, n) ==
  /\ raw' = [raw EXCEPT ![u] = n]
  /\ excused' = excused \cup Raced(u)

BankInit ==
  /\ LockInit
  /\ raw = InitRaw
  /\ trans = [i \in 1 .. Slots |-> [to |-> InitTrans[i], id |-> 0]]
  /\ pc = [p \in Proc |-> "start"]
  /\ ses = [p \in Proc |-> [cmd |-> "menu", him |-> Uid[p], amt |-> 0,
                            mybal |-> 0, tm |-> 0, loop |-> 0]]
  /\ add = [p \in Proc |-> [uid |-> Uid[p], delta |-> 0, next |-> "done"]]
  /\ old = [p \in Proc |-> 0]
  /\ scan = [p \in Proc |-> [uid |-> Uid[p], slot |-> 1,
                             read |-> Empty, next |-> "done"]]
  /\ ledger = [u \in Uids |-> Half(InitRaw[u])]
  /\ excused = {}
  /\ posted = 0

-----------------------------------------------------------------------------
(* main(): the command line.                                               *)

\* The invocation: arguments are looked up in the passwd file, and the clock
\* is read once.
Invoke(p) ==
  /\ pc[p] = "start" /\ lpc[p] = "none"
  /\ \E c \in Commands[p], h \in Passwd, a \in Amounts :
       /\ ses' = [ses EXCEPT ![p] = [cmd |-> c, him |-> h, amt |-> a,
                                     mybal |-> 0, tm |-> now, loop |-> 0]]
       /\ Goto(p, CASE c \in {"menu", "r"} -> "checkme"
                    [] c = "w" -> "sweep"
                    [] OTHER -> "args")
  /\ UNCHANGED <<raw, trans, add, old, scan, ledger, excused, posted, lockVars>>

\* "You're not a banker!", or arguments that are refused: a wrong number of
\* them, an unknown user, a bad amount.
Refuse(p) ==
  /\ pc[p] = "args" /\ lpc[p] = "none"
  /\ Goto(p, "done")
  /\ UNCHANGED <<raw, trans, ses, add, old, scan, ledger, excused, posted, lockVars>>

\* bank -t|-b|-f him amt: parsetrans() up to its call of checkme().
ParseTrans(p) ==
  /\ pc[p] = "args" /\ lpc[p] = "none"
  /\ ses[p].cmd = "t" \/ (ses[p].cmd \in {"b", "f"} /\ IsBanker(p))
  /\ Goto(p, "checkme")
  /\ UNCHANGED <<raw, trans, ses, add, old, scan, ledger, excused, posted, lockVars>>

\* bank -o him.
ParseOpen(p) ==
  /\ pc[p] = "args" /\ lpc[p] = "none"
  /\ ses[p].cmd = "o" /\ IsBanker(p)
  /\ CallAdd(p, ses[p].him, 0, "done")
  /\ UNCHANGED <<raw, trans, ses, old, scan, ledger, excused, posted, lockVars>>

\* bank -c him.
ParseClose(p) ==
  /\ pc[p] = "args" /\ lpc[p] = "none"
  /\ ses[p].cmd = "c" /\ IsBanker(p)
  /\ WriteUnlocked(ses[p].him, 0)
  /\ CallScan(p, ses[p].him, "done")
  /\ UNCHANGED <<trans, ses, add, old, ledger, posted, lockVars>>

\* bank -a: close the accounts whose owners have left the passwd file.  bank -w
\* does so for the ten richest: for all of them if there are at most ten.
Sweep(p) ==
  /\ pc[p] = "sweep" /\ lpc[p] = "none"
  /\ \/ /\ \A u \in Uids \ Passwd : ~IsOpen(u)
        /\ Goto(p, "done")
        /\ UNCHANGED <<raw, scan, excused>>
     \/ \E u \in Uids \ Passwd :
        /\ IsOpen(u)
        /\ WriteUnlocked(u, 0)
        /\ CallScan(p, u, "sweep")
  /\ UNCHANGED <<trans, ses, add, old, ledger, posted, lockVars>>

-----------------------------------------------------------------------------
(* checkme(): register the user.                                           *)

\* The account is read without the lock.
CheckMe(p) ==
  LET me == Uid[p]
      n == raw[me]
      bal(b) == ses' = [ses EXCEPT ![p].mybal = b] IN
  /\ pc[p] = "checkme" /\ lpc[p] = "none"
  /\ \/ /\ Status(n) = 0
        /\ bal(Half(n)) /\ Goto(p, "checked") /\ UNCHANGED add
     \/ /\ Status(n) = 1 /\ IsBanker(p)
        /\ bal(InitBalance) /\ CallAdd(p, me, 0, "checked")
     \/ /\ Status(n) = 1 /\ ~IsBanker(p)
        /\ Goto(p, IF ses[p].cmd = "r" THEN "done" ELSE "apply")
        /\ UNCHANGED <<ses, add>>
     \/ /\ Status(n) = 2 /\ n > ses[p].tm /\ ~IsBanker(p)
        /\ Goto(p, "done") /\ UNCHANGED <<ses, add>>
     \/ /\ Status(n) = 2 /\ (n <= ses[p].tm \/ IsBanker(p))
        /\ bal(InitBalance) /\ CallAdd(p, me, 0, "checked")
  /\ UNCHANGED <<raw, trans, old, scan, ledger, excused, posted, lockVars>>

\* "Would you like to open an account?"  At end of file getchar() is called
\* forever.
Apply(p) ==
  /\ pc[p] = "apply" /\ lpc[p] = "none"
  /\ \/ /\ Goto(p, "done")
        /\ UNCHANGED <<raw, excused>>
     \/ /\ WriteUnlocked(Uid[p], OpenDate(now))
        /\ Goto(p, "done")
     \/ /\ Goto(p, "spin")
        /\ UNCHANGED <<raw, excused>>
  /\ UNCHANGED <<trans, ses, add, old, scan, ledger, posted, lockVars>>

\* Mutant of Checked: the amount is not compared with mybal.
CheckedNotCompared(p) ==
  /\ pc[p] = "checked" /\ lpc[p] = "none"
  /\ \/ /\ ses[p].cmd \in {"t", "b", "f"}
        /\ Goto(p, IF ses[p].him = Uid[p] THEN "done" ELSE "dotrans")
        /\ UNCHANGED scan
     \/ /\ ses[p].cmd \in {"menu", "r"}
        /\ CallScan(p, Uid[p], "served")
  /\ UNCHANGED <<raw, trans, ses, add, old, ledger, excused, posted, lockVars>>

\* After checkme(): the rest of parsetrans(), or main()'s report.
Checked(p) ==
  /\ pc[p] = "checked" /\ lpc[p] = "none"
  /\ \/ /\ ses[p].cmd \in {"t", "b", "f"}
        /\ \/ ses[p].cmd = "t" /\ ses[p].amt > ses[p].mybal
           \/ ses[p].him = Uid[p]
        /\ Goto(p, "done")
        /\ UNCHANGED scan
     \/ /\ ses[p].cmd \in {"t", "b", "f"}
        /\ ~(ses[p].cmd = "t" /\ ses[p].amt > ses[p].mybal)
        /\ ses[p].him # Uid[p]
        /\ Goto(p, "dotrans")
        /\ UNCHANGED scan
     \/ /\ ses[p].cmd \in {"menu", "r"}
        /\ CallScan(p, Uid[p], "served")
  /\ UNCHANGED <<raw, trans, ses, add, old, ledger, excused, posted, lockVars>>

\* After the report: leave, the banker's secretary, or the offer of a transfer.
Served(p) ==
  /\ pc[p] = "served" /\ lpc[p] = "none"
  /\ \/ /\ ses[p].cmd = "menu" /\ IsBanker(p)
        /\ Goto(p, "dobank") /\ UNCHANGED ses
     \/ /\ ses[p].cmd = "menu" /\ ~IsBanker(p) /\ ses[p].mybal > 0
        /\ \E h \in Passwd : ses' = [ses EXCEPT ![p].cmd = "t", ![p].him = h]
        /\ Goto(p, "asktrans")
     \/ /\ ~(ses[p].cmd = "menu" /\ IsBanker(p))
        /\ Goto(p, "done") /\ UNCHANGED ses
  /\ UNCHANGED <<raw, trans, add, old, scan, ledger, excused, posted, lockVars>>

(* dobank(): one command of the banker.                                    *)

DoBankTrans(p) ==
  /\ pc[p] = "dobank" /\ lpc[p] = "none" /\ ses[p].loop < MaxLoop
  /\ \E h \in Passwd, c \in {"t", "b", "f"} :
       ses' = [ses EXCEPT ![p].cmd = c, ![p].him = h, ![p].loop = @ + 1]
  /\ Goto(p, "asktrans")
  /\ UNCHANGED <<raw, trans, add, old, scan, ledger, excused, posted, lockVars>>

DoBankOpen(p) ==
  /\ pc[p] = "dobank" /\ lpc[p] = "none" /\ ses[p].loop < MaxLoop
  /\ ses' = [ses EXCEPT ![p].loop = @ + 1]
  /\ \E h \in Passwd : CallAdd(p, h, 0, "dobank")
  /\ UNCHANGED <<raw, trans, old, scan, ledger, excused, posted, lockVars>>

DoBankClose(p) ==
  /\ pc[p] = "dobank" /\ lpc[p] = "none" /\ ses[p].loop < MaxLoop
  /\ ses' = [ses EXCEPT ![p].loop = @ + 1]
  /\ \E h \in Passwd : WriteUnlocked(h, 0) /\ CallScan(p, h, "dobank")
  /\ UNCHANGED <<trans, add, old, ledger, posted, lockVars>>

DoBankQuit(p) ==
  /\ pc[p] = "dobank" /\ lpc[p] = "none"
  /\ Goto(p, "done")
  /\ UNCHANGED <<raw, trans, ses, add, old, scan, ledger, excused, posted, lockVars>>

-----------------------------------------------------------------------------
(* asktrans().                                                             *)

\* Where asktrans() and parsetrans() return to.
AfterTrans(p) == IF ses[p].loop > 0 THEN "dobank" ELSE "done"

\* asktrans() up to its first question: the other account, read without the
\* lock.  A date that has passed turns the customer away.
AskTrans(p) ==
  LET him == ses[p].him
      n == raw[him] IN
  /\ pc[p] = "asktrans" /\ lpc[p] = "none"
  /\ \/ /\ him = Uid[p]
        /\ Goto(p, AfterTrans(p)) /\ UNCHANGED <<raw, add, excused>>
     \/ /\ him # Uid[p] /\ Status(n) = 1 /\ ~IsBanker(p)
        /\ WriteUnlocked(him, OpenDate(now))
        /\ Goto(p, AfterTrans(p)) /\ UNCHANGED add
     \/ /\ him # Uid[p] /\ Status(n) = 2 /\ ~IsBanker(p) /\ n < ses[p].tm
        /\ Goto(p, AfterTrans(p)) /\ UNCHANGED <<raw, add, excused>>
     \/ /\ him # Uid[p]
        /\ \/ Status(n) = 1 /\ IsBanker(p)
           \/ Status(n) = 2 /\ (IsBanker(p) \/ n >= ses[p].tm)
        /\ CallAdd(p, him, 0, "howmany") /\ UNCHANGED <<raw, excused>>
     \/ /\ him # Uid[p] /\ Status(n) = 0
        /\ Goto(p, "howmany") /\ UNCHANGED <<raw, add, excused>>
  /\ UNCHANGED <<trans, ses, old, scan, ledger, posted, lockVars>>

\* Mutant of HowMany: the amount may be negative.
HowManySigned(p) ==
  /\ pc[p] = "howmany" /\ lpc[p] = "none"
  /\ \E a \in Amounts \cup {-1, 0} :
       /\ ses' = [ses EXCEPT ![p].amt = a]
       /\ Goto(p, IF ses[p].cmd = "t" /\ a > ses[p].mybal
                  THEN AfterTrans(p) ELSE "dotrans")
  /\ UNCHANGED <<raw, trans, add, old, scan, ledger, excused, posted, lockVars>>

\* "How many?", then "What for?", where input that ends in the middle of a line
\* leaves the program calling getchar() forever.
HowMany(p) ==
  /\ pc[p] = "howmany" /\ lpc[p] = "none"
  /\ \E a \in Amounts \cup {-1, 0}, l \in {"dotrans", "spin"} :
       /\ ses' = [ses EXCEPT ![p].amt = a]
       /\ Goto(p, IF a <= 0 \/ (ses[p].cmd = "t" /\ a > ses[p].mybal)
                  THEN AfterTrans(p) ELSE l)
  /\ UNCHANGED <<raw, trans, add, old, scan, ledger, excused, posted, lockVars>>

-----------------------------------------------------------------------------
(* dotrans(), addbalance() and transaction().                              *)

\* dotrans(): a transfer first takes the money from the customer.
DoTrans(p) ==
  /\ pc[p] = "dotrans" /\ lpc[p] = "none"
  /\ IF ses[p].cmd = "t" THEN CallAdd(p, Uid[p], -ses[p].amt, "credit")
                         ELSE Goto(p, "credit") /\ UNCHANGED add
  /\ UNCHANGED <<raw, trans, ses, old, scan, ledger, excused, posted, lockVars>>

Credit(p) ==
  /\ pc[p] = "credit" /\ lpc[p] = "none"
  /\ CallAdd(p, ses[p].him,
             IF ses[p].cmd = "f" THEN -ses[p].amt ELSE ses[p].amt, "post")
  /\ UNCHANGED <<raw, trans, ses, old, scan, ledger, excused, posted, lockVars>>

\* Mutant of AddLock: addbalance() without setlock(0).
AddNoLock(p) ==
  /\ pc[p] = "add" /\ lpc[p] = "none"
  /\ lpc' = [lpc EXCEPT ![p] = "held"]
  /\ Goto(p, "read")
  /\ UNCHANGED <<raw, trans, ses, add, old, scan, ledger, excused, posted>>
  /\ UNCHANGED <<now, lockfile, fclock, which, trys, blasted>>

\* addbalance(): setlock(0), ...
AddLock(p) ==
  /\ pc[p] = "add"
  /\ SetLock(p, "bank")
  /\ Goto(p, "read")
  /\ UNCHANGED <<raw, trans, ses, add, old, scan, ledger, excused, posted>>

\* ... read the old balance, ...
AddRead(p) ==
  /\ pc[p] = "read" /\ lpc[p] = "held"
  /\ old' = [old EXCEPT ![p] = OldBalance(raw[add[p].uid])]
  /\ Goto(p, "write")
  /\ UNCHANGED <<raw, trans, ses, add, scan, ledger, excused, posted, lockVars>>

\* ... write the new one and call unlock(0).
AddWrite(p) ==
  LET u == add[p].uid
      b == add[p].delta + old[p] IN
  /\ pc[p] = "write"
  /\ raw' = [raw EXCEPT ![u] = Encode(b)]
  /\ Unlock(p, "bank")
  /\ Goto(p, add[p].next)
  /\ ledger' = [ledger EXCEPT ![u] =
                  (IF IsOpen(u) THEN @ ELSE InitBalance) + add[p].delta]
  /\ excused' = excused \cup Excuse(u, b)
  /\ UNCHANGED <<trans, ses, add, old, scan, posted>>

\* Mutant of PostLock: transaction() without setlock(1).
PostNoLock(p) ==
  /\ pc[p] = "post" /\ lpc[p] = "none"
  /\ lpc' = [lpc EXCEPT ![p] = "held"]
  /\ scan' = [scan EXCEPT ![p] = [uid |-> ses[p].him, slot |-> 1,
                                  read |-> Empty, next |-> AfterTrans(p)]]
  /\ Goto(p, "probe")
  /\ UNCHANGED <<raw, trans, ses, add, old, ledger, excused, posted>>
  /\ UNCHANGED <<now, lockfile, fclock, which, trys, blasted>>

\* transaction(): setlock(1), ...
PostLock(p) ==
  /\ pc[p] = "post"
  /\ SetLock(p, "trans")
  /\ scan' = [scan EXCEPT ![p] = [uid |-> ses[p].him, slot |-> 1,
                                  read |-> Empty, next |-> AfterTrans(p)]]
  /\ Goto(p, "probe")
  /\ UNCHANGED <<raw, trans, ses, add, old, ledger, excused, posted>>

\* ... look for a null entry, ...
PostProbe(p) ==
  LET i == scan[p].slot IN
  /\ pc[p] = "probe" /\ lpc[p] = "held"
  /\ \/ /\ trans[i] = Empty
        /\ Goto(p, "put") /\ UNCHANGED scan
     \/ /\ trans[i] # Empty /\ i < Slots
        /\ scan' = [scan EXCEPT ![p].slot = @ + 1] /\ UNCHANGED pc
  /\ UNCHANGED <<raw, trans, ses, add, old, ledger, excused, posted, lockVars>>

\* ... overwrite it and call unlock(1).
PostPut(p) ==
  /\ pc[p] = "put"
  /\ trans' = [trans EXCEPT ![scan[p].slot] =
                 [to |-> scan[p].uid, id |-> posted + 1]]
  /\ posted' = posted + 1
  /\ Unlock(p, "trans")
  /\ Goto(p, scan[p].next)
  /\ UNCHANGED <<raw, ses, add, old, scan, ledger, excused>>

-----------------------------------------------------------------------------
(* scantrans(), without a lock.                                            *)

\* Read one entry; print it if it is for this user.
ScanRead(p) ==
  LET i == scan[p].slot IN
  /\ pc[p] = "scan" /\ lpc[p] = "none"
  /\ \/ /\ i > Slots
        /\ Goto(p, scan[p].next) /\ UNCHANGED scan
     \/ /\ i <= Slots /\ trans[i] # Empty /\ trans[i].to = scan[p].uid
        /\ scan' = [scan EXCEPT ![p].read = trans[i]]
        /\ Goto(p, "null")
     \/ /\ i <= Slots /\ (trans[i] = Empty \/ trans[i].to # scan[p].uid)
        /\ scan' = [scan EXCEPT ![p].slot = @ + 1] /\ UNCHANGED pc
  /\ UNCHANGED <<raw, trans, ses, add, old, ledger, excused, posted, lockVars>>

\* Set it to null.
ScanNull(p) ==
  LET i == scan[p].slot IN
  /\ pc[p] = "null" /\ lpc[p] = "none"
  /\ trans' = [trans EXCEPT ![i] = Empty]
  /\ scan' = [scan EXCEPT ![p].slot = @ + 1]
  /\ Goto(p, "scan")
  /\ UNCHANGED <<raw, ses, add, old, ledger, excused, posted, lockVars>>

-----------------------------------------------------------------------------
\* A step of the protocol of module BankLock.
InLock(p) == LockStep(p) /\ UNCHANGED bankVars

BankKill(p) == pc[p] # "done" /\ Kill(p) /\ UNCHANGED bankVars

BankTick == Tick /\ UNCHANGED bankVars

Session(p) ==
  \/ Refuse(p) \/ ParseTrans(p) \/ ParseOpen(p) \/ ParseClose(p) \/ Sweep(p)
  \/ CheckMe(p) \/ Apply(p) \/ Checked(p) \/ Served(p)
  \/ DoBankTrans(p) \/ DoBankOpen(p) \/ DoBankClose(p) \/ DoBankQuit(p)
  \/ AskTrans(p) \/ HowMany(p)
  \/ DoTrans(p) \/ Credit(p) \/ AddLock(p) \/ AddRead(p) \/ AddWrite(p)
  \/ PostLock(p) \/ PostProbe(p) \/ PostPut(p) \/ ScanRead(p) \/ ScanNull(p)
  \/ InLock(p)

BankNext ==
  \/ BankTick
  \/ \E p \in Proc : Invoke(p) \/ Session(p) \/ BankKill(p)

BankSpec == BankInit /\ [][BankNext]_vars

\* A running process keeps running, and its user answers or hangs up.
BankFairSpec == BankSpec /\ \A p \in Proc : WF_vars(Session(p))

-----------------------------------------------------------------------------
(* Properties.                                                             *)

Labels == {"start", "args", "sweep", "checkme", "apply", "spin", "checked",
           "served", "dobank", "asktrans", "howmany", "dotrans", "credit", "add",
           "read", "write", "post", "probe", "put", "scan", "null", "done"}

\* Where addbalance() and scantrans() return to.
AddReturns == {"checked", "dobank", "howmany", "credit", "post", "done"}
ScanReturns == {"served", "dobank", "sweep", "done"}

Notices == [to : Uids \cup {0}, id : Nat]

\* The session's amount has been accepted, or comes from the command line and
\* was not asked for again.
AmountDue(p) ==
  \/ pc[p] \in {"args", "checkme", "checked", "dotrans", "credit"}
  \/ pc[p] \in {"add", "read", "write"} /\ add[p].next \in {"checked", "credit"}

\* The types of the shared files and of the sessions; an amount on its way to
\* dotrans() is one that parsetrans() and asktrans() accept.
BankTypeOK ==
  /\ LockTypeOK
  /\ raw \in [Uids -> Int]
  /\ trans \in [1 .. Slots -> Notices]
  /\ pc \in [Proc -> Labels]
  /\ ses \in [Proc -> [cmd : AllCommands, him : Uids, amt : Int, mybal : Int,
                       tm : Nat, loop : 0 .. MaxLoop]]
  /\ add \in [Proc -> [uid : Uids, delta : Int, next : AddReturns]]
  /\ old \in [Proc -> Int]
  /\ scan \in [Proc -> [uid : Uids, slot : Nat \ {0},
                        read : Notices, next : ScanReturns]]
  /\ ledger \in [Uids -> Int]
  /\ excused \subseteq Uids
  /\ posted \in Nat
  /\ \A p \in Proc : AmountDue(p) => ses[p].amt > 0

\* No update of addbalance() is lost: the balance in the file is what the
\* account was opened with and every amount added since, as long as b.lock was
\* not blasted, no lock-free write hit the account during an update, and it was
\* never in debt.
LedgerExact ==
  "bank" \notin blasted =>
    \A u \in Uids \ excused : IsOpen(u) => Half(raw[u]) = ledger[u]

\* transaction() never overwrites a notice, as long as t.lock was not blasted.
PostKeepsNotices ==
  [][\A p \in Proc :
       pc[p] = "put" /\ pc'[p] # "put" /\ "trans" \notin blasted
         => trans[scan[p].slot] = Empty]_vars

\* A transfer takes the sender's account below zero only if its balance is not
\* the one any more that checkme() read and the amount was compared with.
OverdrawnOnlyIfStale ==
  [][\A p \in Proc :
       (pc[p] = "write" /\ pc'[p] = "credit" /\ old[p] = ses[p].mybal)
         => raw'[Uid[p]] >= 0]_vars

\* Every invocation ends, or is killed, or reads on at the end of its input.
SessionsEnd ==
  \A p \in Proc :
    pc[p] # "start" ~> \/ pc[p] \in {"done", "spin"}
                       \/ lpc[p] \in {"exited", "killed"}

-----------------------------------------------------------------------------
(* Statements of the source that the program does not keep.                *)

\* dotrans() records a transaction: a process that was not killed has not left
\* between taking the money of a transfer and giving it.
DebitIsCredited ==
  \A p \in Proc :
    lpc[p] = "exited" => ~(ses[p].cmd = "t" /\ pc[p] = "read" /\ add[p].next = "post")
=============================================================================
