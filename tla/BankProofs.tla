----------------------------- MODULE BankProofs -----------------------------
(***************************************************************************)
(* Proofs about the bank program: for any users, any number of invocations *)
(* and any commands, the sessions use the lock files as module BankLock    *)
(* says, no update of a balance is lost and no notice is overwritten,      *)
(* except through the causes that LedgerExact and PostKeepsNotices name,   *)
(* and no transfer takes more than the balance it was compared with.       *)
(***************************************************************************)
EXTENDS Bank, TLAPS

-----------------------------------------------------------------------------
(* The lock files, for any set of processes, any age limit and any number of *)
(* naps.                                                                    *)

USE DEF LockLabels, Which

\* The initial values have their types.
LEMMA LockTypeInit == LockInit => LockTypeOK
BY BankLockConstants DEF LockInit, LockTypeOK, Files, NoFile

\* A step of the lock protocol keeps the type of every variable.
LEMMA LockTypeStep == LockTypeOK /\ [LockNext]_lockVars => LockTypeOK'
<1> SUFFICES ASSUME LockTypeOK, [LockNext]_lockVars PROVE LockTypeOK'
  OBVIOUS
<1> USE DEF LockTypeOK
<1>1. CASE Tick
  BY <1>1 DEF Tick
<1>2. ASSUME NEW p \in Proc, OpenExcl(p) PROVE LockTypeOK'
  <2>1. [by |-> p, ctime |-> now] \in Files
    BY DEF Files
  <2> QED BY <1>2, <2>1 DEF OpenExcl
<1>3. ASSUME NEW p \in Proc, StatLock(p) PROVE LockTypeOK'
  BY <1>3, BankLockConstants DEF StatLock
<1>4. ASSUME NEW p \in Proc, BlastLock(p) PROVE LockTypeOK'
  BY ZenonT(30), <1>4 DEF BlastLock, Files
<1>5. ASSUME NEW p \in Proc, UnlockStat(p) PROVE LockTypeOK'
  BY <1>5 DEF UnlockStat
<1>6. ASSUME NEW p \in Proc, UnlockUnlink(p) PROVE LockTypeOK'
  BY <1>6 DEF UnlockUnlink, Files
<1>7. ASSUME NEW p \in Proc, NEW w \in Which, SetLock(p, w) PROVE LockTypeOK'
  BY <1>7, BankLockConstants DEF SetLock
<1>8. ASSUME NEW p \in Proc, LockReturn(p) PROVE LockTypeOK'
  BY <1>8 DEF LockReturn, Unlock
<1>9. ASSUME NEW p \in Proc, Kill(p) PROVE LockTypeOK'
  BY <1>9 DEF Kill
<1>10. CASE UNCHANGED lockVars
  BY <1>10 DEF lockVars
<1> QED
  BY <1>1, <1>2, <1>3, <1>4, <1>5, <1>6, <1>7, <1>8, <1>9, <1>10
     DEF LockNext, LockStep, LockCall

\* Every variable of the lock protocol keeps its type; in particular setlock()
\* never naps more than MaxTries times.
THEOREM LockTypeCorrect == LockSpec => []LockTypeOK
BY LockTypeInit, LockTypeStep, PTL DEF LockSpec

-----------------------------------------------------------------------------
\* The owner of a lock that was never blasted has its own file in place, and
\* only an owner gets to the system calls of unlock().
OwnFile ==
  /\ \A w \in Which : \A p \in Proc :
       w \notin blasted /\ fclock[p][w] # 0
         => lockfile[w] # NoFile /\ lockfile[w].by = p
  /\ \A p \in Proc : lpc[p] \in {"ustat", "unlink"} => fclock[p][which[p]] # 0

\* MutualExclusion follows from OwnFile: the file names one owner only.
LEMMA OwnFileExcludes == OwnFile => MutualExclusion
BY DEF OwnFile, MutualExclusion, Holders

\* setlock() and unlock() keep OwnFile: a file is created only where there is
\* none, and removed only by its owner or by a blast.
LEMMA OwnFileStep ==
  LockTypeOK /\ OwnFile /\ [LockNext]_lockVars => OwnFile'
<1> SUFFICES ASSUME LockTypeOK, OwnFile, [LockNext]_lockVars PROVE OwnFile'
  OBVIOUS
<1> USE DEF LockTypeOK, OwnFile
<1>1. CASE Tick
  BY <1>1 DEF Tick
<1>2. ASSUME NEW p \in Proc, OpenExcl(p) PROVE OwnFile'
  <2>1. CASE lockfile[which[p]] = NoFile
    <3>1. [by |-> p, ctime |-> now] # NoFile
      BY DEF NoFile
    <3> QED BY <1>2, <2>1, <3>1 DEF OpenExcl
  <2>2. CASE lockfile[which[p]] # NoFile
    BY <1>2, <2>2 DEF OpenExcl
  <2> QED BY <2>1, <2>2
<1>3. ASSUME NEW p \in Proc, StatLock(p) PROVE OwnFile'
  BY <1>3 DEF StatLock
<1>4. ASSUME NEW p \in Proc, BlastLock(p) PROVE OwnFile'
  BY <1>4 DEF BlastLock
<1>5. ASSUME NEW p \in Proc, UnlockStat(p) PROVE OwnFile'
  BY <1>5 DEF UnlockStat
<1>6. ASSUME NEW p \in Proc, UnlockUnlink(p) PROVE OwnFile'
  BY <1>6 DEF UnlockUnlink
<1>7. ASSUME NEW p \in Proc, NEW w \in Which, SetLock(p, w) PROVE OwnFile'
  BY <1>7 DEF SetLock
<1>8. ASSUME NEW p \in Proc, LockReturn(p) PROVE OwnFile'
  BY <1>8 DEF LockReturn, Unlock
<1>9. ASSUME NEW p \in Proc, Kill(p) PROVE OwnFile'
  BY <1>9 DEF Kill
<1>10. CASE UNCHANGED lockVars
  BY <1>10 DEF lockVars
<1> QED
  BY <1>1, <1>2, <1>3, <1>4, <1>5, <1>6, <1>7, <1>8, <1>9, <1>10
     DEF LockNext, LockStep, LockCall

\* Two processes never own the same lock, unless its file was blasted.
THEOREM LockMutualExclusion == LockSpec => []MutualExclusion
<1>1. LockInit => OwnFile
  BY DEF LockInit, OwnFile
<1> QED
  BY <1>1, LockTypeCorrect, OwnFileStep, OwnFileExcludes, PTL DEF LockSpec

HIDE DEF LockLabels, Which

-----------------------------------------------------------------------------
(* The balances and the notices.                                            *)

\* Where the session is in addbalance() or transaction(), setlock() was called
\* for that file's lock, and its return made the process an owner.  A process
\* about to write has not called unlock() yet.
LockUse ==
  \A p \in Proc :
    /\ pc[p] \in {"read", "write"} =>
         which[p] = "bank" /\ (lpc[p] = "held" => fclock[p]["bank"] # 0)
    /\ pc[p] \in {"probe", "put"} =>
         which[p] = "trans" /\ (lpc[p] = "held" => fclock[p]["trans"] # 0)
    /\ pc[p] \in {"write", "put"} => lpc[p] \in {"held", "killed"}

\* Every step of a session is a step of the lock protocol, or none.
LEMMA BankLockStep == LockUse /\ [BankNext]_vars => [LockNext]_lockVars
<1> SUFFICES ASSUME LockUse, [BankNext]_vars PROVE [LockNext]_lockVars
  OBVIOUS
<1>1. CASE BankTick
  BY <1>1 DEF BankTick, LockNext
<1>2. CASE UNCHANGED vars
  BY <1>2 DEF vars, lockVars
<1>3. ASSUME NEW p \in Proc, Invoke(p) \/ Session(p) \/ BankKill(p)
      PROVE [LockNext]_lockVars
  <2>1. CASE AddLock(p)
    BY <2>1 DEF AddLock, LockNext, LockCall, Which
  <2>2. CASE AddWrite(p)
    BY <2>2 DEF AddWrite, LockNext, LockReturn, LockUse
  <2>3. CASE PostLock(p)
    BY <2>3 DEF PostLock, LockNext, LockCall, Which
  <2>4. CASE PostPut(p)
    BY <2>4 DEF PostPut, LockNext, LockReturn, LockUse
  <2>5. CASE InLock(p)
    BY <2>5 DEF InLock, LockNext
  <2>6. CASE BankKill(p)
    BY <2>6 DEF BankKill, LockNext
  <2>7. CASE \/ Invoke(p) \/ Refuse(p) \/ ParseTrans(p) \/ ParseOpen(p)
             \/ ParseClose(p) \/ Sweep(p) \/ CheckMe(p) \/ Apply(p)
             \/ Checked(p) \/ Served(p) \/ DoBankTrans(p) \/ DoBankOpen(p)
             \/ DoBankClose(p) \/ DoBankQuit(p) \/ AskTrans(p) \/ HowMany(p)
             \/ DoTrans(p) \/ Credit(p) \/ AddRead(p) \/ PostProbe(p)
             \/ ScanRead(p) \/ ScanNull(p)
    <3>1. UNCHANGED lockVars
      BY <2>7 DEF Invoke, Refuse, ParseTrans, ParseOpen, ParseClose, Sweep,
                  CheckMe, Apply, Checked, Served, DoBankTrans, DoBankOpen,
                  DoBankClose, DoBankQuit, AskTrans, HowMany, DoTrans, Credit,
                  AddRead, PostProbe, ScanRead, ScanNull
    <3> QED BY <3>1
  <2> QED
    BY <1>3, <2>1, <2>2, <2>3, <2>4, <2>5, <2>6, <2>7 DEF Session
<1> QED BY <1>1, <1>2, <1>3 DEF BankNext

-----------------------------------------------------------------------------
(* Types: the conjuncts of BankTypeOK one by one.  Each lemma has a step   *)
(* for every action that changes the variable, and one for all the others. *)

RawType == raw \in [Uids -> Int]
TransType == trans \in [1 .. Slots -> Notices]
SesType ==
  ses \in [Proc -> [cmd : AllCommands, him : Uids, amt : Int, mybal : Int,
                     tm : Nat, loop : 0 .. MaxLoop]]
AddType == add \in [Proc -> [uid : Uids, delta : Int, next : AddReturns]]
OldType == old \in [Proc -> Int]
ScanType ==
  scan \in [Proc -> [uid : Uids, slot : Nat \ {0},
                      read : Notices, next : ScanReturns]]
LedgerType == ledger \in [Uids -> Int]
ExcusedType == excused \subseteq Uids
PostedType == posted \in Nat

SessionTypes ==
  /\ RawType /\ TransType /\ SesType /\ AddType /\ OldType
  /\ ScanType /\ LedgerType /\ ExcusedType /\ PostedType

\* C's halving and the encoding of a balance stay among the integers.
LEMMA Arithmetic ==
  /\ \A n \in Int : Half(n) \in Int
  /\ \A n \in Int : OldBalance(n) \in Int
  /\ \A n \in Int : Encode(n) \in Int
  /\ \A t \in Nat : OpenDate(t) \in Int
BY NumberAssumption DEF Half, OldBalance, Encode, OpenDate

\* A balance that is not negative is read back from the file as it was written.
LEMMA RoundTrip ==
  \A b \in Nat : Half(Encode(b)) = b /\ Status(Encode(b)) = 0
BY DEF Half, Encode, Status

\* The initial files and sessions have their types.
LEMMA SessionTypesInit == BankInit => SessionTypes
<1> SUFFICES ASSUME BankInit PROVE SessionTypes
  OBVIOUS
<1> USE UserAssumption, NumberAssumption, FileAssumption DEF BankInit
<1>1. RawType /\ TransType /\ OldType
  BY DEF RawType, TransType, OldType, Notices
<1>2. SesType
  BY DEF SesType, AllCommands
<1>3. AddType
  BY DEF AddType, AddReturns
<1>4. ScanType
  BY DEF ScanType, ScanReturns, Notices, Empty
<1>5. LedgerType /\ ExcusedType /\ PostedType
  BY Arithmetic DEF LedgerType, ExcusedType, PostedType
<1> QED BY <1>1, <1>2, <1>3, <1>4, <1>5 DEF SessionTypes

\* The balance file holds integers.
LEMMA RawTypeStep ==
  LockTypeOK /\ SesType /\ AddType /\ OldType /\ RawType /\ [BankNext]_vars => RawType'
<1> SUFFICES ASSUME LockTypeOK, SesType, AddType, OldType, RawType, [BankNext]_vars
             PROVE  RawType'
  OBVIOUS
<1>1. ASSUME NEW p \in Proc, ParseClose(p) PROVE RawType'
  BY <1>1 DEF ParseClose, WriteUnlocked, SesType, RawType
<1>2. ASSUME NEW p \in Proc, Sweep(p) PROVE RawType'
  BY <1>2 DEF Sweep, WriteUnlocked, RawType
<1>3. ASSUME NEW p \in Proc, Apply(p) PROVE RawType'
  BY <1>3, Arithmetic, UserAssumption DEF Apply, WriteUnlocked, LockTypeOK,
         RawType
<1>4. ASSUME NEW p \in Proc, DoBankClose(p) PROVE RawType'
  <2>1. PICK h \in Passwd : WriteUnlocked(h, 0)
    BY <1>4 DEF DoBankClose
  <2> QED BY <2>1, UserAssumption DEF WriteUnlocked, RawType
<1>5. ASSUME NEW p \in Proc, AskTrans(p) PROVE RawType'
  BY <1>5, Arithmetic DEF AskTrans, WriteUnlocked, LockTypeOK, SesType,
         RawType
<1>6. ASSUME NEW p \in Proc, AddWrite(p) PROVE RawType'
  BY <1>6, Arithmetic DEF AddWrite, AddType, OldType, RawType
<1>7. ASSUME NEW p \in Proc,
             \/ Invoke(p) \/ Refuse(p) \/ ParseTrans(p) \/ ParseOpen(p)
             \/ CheckMe(p) \/ Checked(p) \/ Served(p) \/ DoBankTrans(p)
             \/ DoBankOpen(p) \/ DoBankQuit(p) \/ HowMany(p) \/ DoTrans(p)
             \/ Credit(p) \/ AddLock(p) \/ AddRead(p) \/ PostLock(p)
             \/ PostProbe(p) \/ PostPut(p) \/ ScanRead(p) \/ ScanNull(p)
             \/ InLock(p) \/ BankKill(p)
      PROVE  RawType'
  <2>1. UNCHANGED raw
    BY <1>7 DEF Invoke, Refuse, ParseTrans, ParseOpen, CheckMe, Checked,
              Served, DoBankTrans, DoBankOpen, DoBankQuit, HowMany, DoTrans,
              Credit, AddLock, AddRead, PostLock, PostProbe, PostPut,
              ScanRead, ScanNull, InLock, BankKill, bankVars
  <2> QED BY <2>1 DEF RawType
<1>8. CASE BankTick \/ UNCHANGED vars
  BY <1>8 DEF BankTick, vars, bankVars, RawType
<1> QED BY <1>1, <1>2, <1>3, <1>4, <1>5, <1>6, <1>7, <1>8 DEF BankNext, Session

\* The transaction file holds notices.
LEMMA TransTypeStep ==
  ScanType /\ PostedType /\ TransType /\ [BankNext]_vars => TransType'
<1> SUFFICES ASSUME ScanType, PostedType, TransType, [BankNext]_vars
             PROVE  TransType'
  OBVIOUS
<1>1. ASSUME NEW p \in Proc, PostPut(p) PROVE TransType'
  <2>1. [to |-> scan[p].uid, id |-> posted + 1] \in Notices
    BY DEF ScanType, PostedType, Notices
  <2>2. trans' = [trans EXCEPT ![scan[p].slot] =
                    [to |-> scan[p].uid, id |-> posted + 1]]
    BY <1>1 DEF PostPut
  <2> QED BY <2>1, <2>2 DEF TransType
<1>2. ASSUME NEW p \in Proc, ScanNull(p) PROVE TransType'
  BY <1>2 DEF ScanNull, Notices, Empty, TransType
<1>3. ASSUME NEW p \in Proc,
             \/ Invoke(p) \/ Refuse(p) \/ ParseTrans(p) \/ ParseOpen(p)
             \/ ParseClose(p) \/ Sweep(p) \/ CheckMe(p) \/ Apply(p)
             \/ Checked(p) \/ Served(p) \/ DoBankTrans(p) \/ DoBankOpen(p)
             \/ DoBankClose(p) \/ DoBankQuit(p) \/ AskTrans(p)
             \/ HowMany(p) \/ DoTrans(p) \/ Credit(p) \/ AddLock(p)
             \/ AddRead(p) \/ AddWrite(p) \/ PostLock(p) \/ PostProbe(p)
             \/ ScanRead(p) \/ InLock(p) \/ BankKill(p)
      PROVE  TransType'
  <2>1. UNCHANGED trans
    BY <1>3 DEF Invoke, Refuse, ParseTrans, ParseOpen, ParseClose, Sweep,
              CheckMe, Apply, Checked, Served, DoBankTrans, DoBankOpen,
              DoBankClose, DoBankQuit, AskTrans, HowMany, DoTrans, Credit,
              AddLock, AddRead, AddWrite, PostLock, PostProbe, ScanRead,
              InLock, BankKill, bankVars
  <2> QED BY <2>1 DEF TransType
<1>4. CASE BankTick \/ UNCHANGED vars
  BY <1>4 DEF BankTick, vars, bankVars, TransType
<1> QED BY <1>1, <1>2, <1>3, <1>4 DEF BankNext, Session

\* The arguments and variables of a session have their types.
LEMMA SesTypeStep ==
  LockTypeOK /\ RawType /\ SesType /\ [BankNext]_vars => SesType'
<1> SUFFICES ASSUME LockTypeOK, RawType, SesType, [BankNext]_vars
             PROVE  SesType'
  OBVIOUS
<1>1. ASSUME NEW p \in Proc, Invoke(p) PROVE SesType'
  <2>1. PICK c \in Commands[p], h \in Passwd, a \in Amounts :
          ses' = [ses EXCEPT ![p] = [cmd |-> c, him |-> h, amt |-> a,
                                     mybal |-> 0, tm |-> now, loop |-> 0]]
    BY <1>1 DEF Invoke
  <2>2. /\ c \in AllCommands
        /\ h \in Uids
        /\ a \in Int
        /\ now \in Nat
        /\ 0 \in 0 .. MaxLoop
    BY InputAssumption, UserAssumption, NumberAssumption DEF LockTypeOK
  <2> QED BY <2>1, <2>2 DEF SesType
<1>2. ASSUME NEW p \in Proc, CheckMe(p) PROVE SesType'
  BY <1>2, Arithmetic, UserAssumption, NumberAssumption DEF CheckMe, RawType,
         SesType
<1>3. ASSUME NEW p \in Proc, Served(p) PROVE SesType'
  BY <1>3, UserAssumption DEF Served, AllCommands, SesType
<1>4. ASSUME NEW p \in Proc, DoBankTrans(p) PROVE SesType'
  BY <1>4, UserAssumption, NumberAssumption DEF DoBankTrans, AllCommands,
         SesType
<1>5. ASSUME NEW p \in Proc, DoBankOpen(p) PROVE SesType'
  BY <1>5, NumberAssumption DEF DoBankOpen, SesType
<1>6. ASSUME NEW p \in Proc, DoBankClose(p) PROVE SesType'
  BY <1>6, NumberAssumption DEF DoBankClose, SesType
<1>7. ASSUME NEW p \in Proc, HowMany(p) PROVE SesType'
  BY <1>7, InputAssumption DEF HowMany, SesType
<1>8. ASSUME NEW p \in Proc,
             \/ Refuse(p) \/ ParseTrans(p) \/ ParseOpen(p)
             \/ ParseClose(p) \/ Sweep(p) \/ Apply(p) \/ Checked(p)
             \/ DoBankQuit(p) \/ AskTrans(p) \/ DoTrans(p) \/ Credit(p)
             \/ AddLock(p) \/ AddRead(p) \/ AddWrite(p) \/ PostLock(p)
             \/ PostProbe(p) \/ PostPut(p) \/ ScanRead(p) \/ ScanNull(p)
             \/ InLock(p) \/ BankKill(p)
      PROVE  SesType'
  <2>1. UNCHANGED ses
    BY <1>8 DEF Refuse, ParseTrans, ParseOpen, ParseClose, Sweep, Apply,
              Checked, DoBankQuit, AskTrans, DoTrans, Credit, AddLock,
              AddRead, AddWrite, PostLock, PostProbe, PostPut, ScanRead,
              ScanNull, InLock, BankKill, bankVars
  <2> QED BY <2>1 DEF SesType
<1>9. CASE BankTick \/ UNCHANGED vars
  BY <1>9 DEF BankTick, vars, bankVars, SesType
<1> QED BY <1>1, <1>2, <1>3, <1>4, <1>5, <1>6, <1>7, <1>8, <1>9 DEF BankNext, Session

\* Addbalance() is called with a uid and an integer.
LEMMA AddTypeStep ==
  SesType /\ AddType /\ [BankNext]_vars => AddType'
<1> SUFFICES ASSUME SesType, AddType, [BankNext]_vars
             PROVE  AddType'
  OBVIOUS
<1>1. ASSUME NEW p \in Proc, ParseOpen(p) PROVE AddType'
  BY <1>1 DEF ParseOpen, CallAdd, AddReturns, SesType, AddType
<1>2. ASSUME NEW p \in Proc, CheckMe(p) PROVE AddType'
  BY <1>2, UserAssumption DEF CheckMe, CallAdd, AddReturns, AddType
<1>3. ASSUME NEW p \in Proc, DoBankOpen(p) PROVE AddType'
  BY <1>3, UserAssumption DEF DoBankOpen, CallAdd, AddReturns, AddType
<1>4. ASSUME NEW p \in Proc, AskTrans(p) PROVE AddType'
  BY <1>4 DEF AskTrans, CallAdd, AddReturns, SesType, AddType
<1>5. ASSUME NEW p \in Proc, DoTrans(p) PROVE AddType'
  BY <1>5, UserAssumption DEF DoTrans, CallAdd, AddReturns, SesType, AddType
<1>6. ASSUME NEW p \in Proc, Credit(p) PROVE AddType'
  BY <1>6 DEF Credit, CallAdd, AddReturns, SesType, AddType
<1>7. ASSUME NEW p \in Proc,
             \/ Invoke(p) \/ Refuse(p) \/ ParseTrans(p) \/ ParseClose(p)
             \/ Sweep(p) \/ Apply(p) \/ Checked(p) \/ Served(p)
             \/ DoBankTrans(p) \/ DoBankClose(p) \/ DoBankQuit(p)
             \/ HowMany(p) \/ AddLock(p) \/ AddRead(p) \/ AddWrite(p)
             \/ PostLock(p) \/ PostProbe(p) \/ PostPut(p) \/ ScanRead(p)
             \/ ScanNull(p) \/ InLock(p) \/ BankKill(p)
      PROVE  AddType'
  <2>1. UNCHANGED add
    BY <1>7 DEF Invoke, Refuse, ParseTrans, ParseClose, Sweep, Apply,
              Checked, Served, DoBankTrans, DoBankClose, DoBankQuit, HowMany,
              AddLock, AddRead, AddWrite, PostLock, PostProbe, PostPut,
              ScanRead, ScanNull, InLock, BankKill, bankVars
  <2> QED BY <2>1 DEF AddType
<1>8. CASE BankTick \/ UNCHANGED vars
  BY <1>8 DEF BankTick, vars, bankVars, AddType
<1> QED BY <1>1, <1>2, <1>3, <1>4, <1>5, <1>6, <1>7, <1>8 DEF BankNext, Session

\* The balance that addbalance() reads is an integer.
LEMMA OldTypeStep ==
  RawType /\ AddType /\ OldType /\ [BankNext]_vars => OldType'
<1> SUFFICES ASSUME RawType, AddType, OldType, [BankNext]_vars
             PROVE  OldType'
  OBVIOUS
<1>1. ASSUME NEW p \in Proc, AddRead(p) PROVE OldType'
  BY <1>1, Arithmetic DEF AddRead, RawType, AddType, OldType
<1>2. ASSUME NEW p \in Proc,
             \/ Invoke(p) \/ Refuse(p) \/ ParseTrans(p) \/ ParseOpen(p)
             \/ ParseClose(p) \/ Sweep(p) \/ CheckMe(p) \/ Apply(p)
             \/ Checked(p) \/ Served(p) \/ DoBankTrans(p) \/ DoBankOpen(p)
             \/ DoBankClose(p) \/ DoBankQuit(p) \/ AskTrans(p)
             \/ HowMany(p) \/ DoTrans(p) \/ Credit(p) \/ AddLock(p)
             \/ AddWrite(p) \/ PostLock(p) \/ PostProbe(p) \/ PostPut(p)
             \/ ScanRead(p) \/ ScanNull(p) \/ InLock(p) \/ BankKill(p)
      PROVE  OldType'
  <2>1. UNCHANGED old
    BY <1>2 DEF Invoke, Refuse, ParseTrans, ParseOpen, ParseClose, Sweep,
              CheckMe, Apply, Checked, Served, DoBankTrans, DoBankOpen,
              DoBankClose, DoBankQuit, AskTrans, HowMany, DoTrans, Credit,
              AddLock, AddWrite, PostLock, PostProbe, PostPut, ScanRead,
              ScanNull, InLock, BankKill, bankVars
  <2> QED BY <2>1 DEF OldType
<1>3. CASE BankTick \/ UNCHANGED vars
  BY <1>3 DEF BankTick, vars, bankVars, OldType
<1> QED BY <1>1, <1>2, <1>3 DEF BankNext, Session

\* Scantrans() is called with a uid and reads notices.
LEMMA ScanTypeStep ==
  SesType /\ TransType /\ ScanType /\ [BankNext]_vars => ScanType'
<1> SUFFICES ASSUME SesType, TransType, ScanType, [BankNext]_vars
             PROVE  ScanType'
  OBVIOUS
<1>1. ASSUME NEW p \in Proc, ParseClose(p) PROVE ScanType'
  BY <1>1 DEF ParseClose, CallScan, Notices, Empty, ScanReturns, SesType,
         ScanType
<1>2. ASSUME NEW p \in Proc, Sweep(p) PROVE ScanType'
  BY <1>2 DEF Sweep, CallScan, Notices, Empty, ScanReturns, ScanType
<1>3. ASSUME NEW p \in Proc, Checked(p) PROVE ScanType'
  BY <1>3, UserAssumption DEF Checked, CallScan, Notices, Empty, ScanReturns,
         ScanType
<1>4. ASSUME NEW p \in Proc, DoBankClose(p) PROVE ScanType'
  BY <1>4, UserAssumption DEF DoBankClose, CallScan, Notices, Empty,
         ScanReturns, ScanType
<1>5. ASSUME NEW p \in Proc, PostLock(p) PROVE ScanType'
  BY <1>5 DEF PostLock, AfterTrans, Notices, Empty, ScanReturns, SesType,
         ScanType
<1>6. ASSUME NEW p \in Proc, PostProbe(p) PROVE ScanType'
  BY <1>6 DEF PostProbe, ScanType
<1>7. ASSUME NEW p \in Proc, ScanRead(p) PROVE ScanType'
  <2>1. scan[p].slot <= Slots => trans[scan[p].slot] \in Notices
    BY NumberAssumption DEF ScanType, TransType
  <2>2. \/ UNCHANGED scan
        \/ /\ scan[p].slot <= Slots
           /\ scan' = [scan EXCEPT ![p].read = trans[scan[p].slot]]
        \/ scan' = [scan EXCEPT ![p].slot = @ + 1]
    BY <1>7 DEF ScanRead
  <2> QED BY <2>1, <2>2 DEF ScanType
<1>8. ASSUME NEW p \in Proc, ScanNull(p) PROVE ScanType'
  BY <1>8 DEF ScanNull, ScanType
<1>9. ASSUME NEW p \in Proc,
             \/ Invoke(p) \/ Refuse(p) \/ ParseTrans(p) \/ ParseOpen(p)
             \/ CheckMe(p) \/ Apply(p) \/ Served(p) \/ DoBankTrans(p)
             \/ DoBankOpen(p) \/ DoBankQuit(p) \/ AskTrans(p) \/ HowMany(p)
             \/ DoTrans(p) \/ Credit(p) \/ AddLock(p) \/ AddRead(p)
             \/ AddWrite(p) \/ PostPut(p) \/ InLock(p) \/ BankKill(p)
      PROVE  ScanType'
  <2>1. UNCHANGED scan
    BY <1>9 DEF Invoke, Refuse, ParseTrans, ParseOpen, CheckMe, Apply,
              Served, DoBankTrans, DoBankOpen, DoBankQuit, AskTrans, HowMany,
              DoTrans, Credit, AddLock, AddRead, AddWrite, PostPut, InLock,
              BankKill, bankVars
  <2> QED BY <2>1 DEF ScanType
<1>10. CASE BankTick \/ UNCHANGED vars
  BY <1>10 DEF BankTick, vars, bankVars, ScanType
<1> QED BY <1>1, <1>2, <1>3, <1>4, <1>5, <1>6, <1>7, <1>8, <1>9, <1>10 DEF BankNext, Session

\* The ledger holds integers.
LEMMA LedgerTypeStep ==
  AddType /\ LedgerType /\ [BankNext]_vars => LedgerType'
<1> SUFFICES ASSUME AddType, LedgerType, [BankNext]_vars
             PROVE  LedgerType'
  OBVIOUS
<1>1. ASSUME NEW p \in Proc, AddWrite(p) PROVE LedgerType'
  BY <1>1, NumberAssumption DEF AddWrite, AddType, LedgerType
<1>2. ASSUME NEW p \in Proc,
             \/ Invoke(p) \/ Refuse(p) \/ ParseTrans(p) \/ ParseOpen(p)
             \/ ParseClose(p) \/ Sweep(p) \/ CheckMe(p) \/ Apply(p)
             \/ Checked(p) \/ Served(p) \/ DoBankTrans(p) \/ DoBankOpen(p)
             \/ DoBankClose(p) \/ DoBankQuit(p) \/ AskTrans(p)
             \/ HowMany(p) \/ DoTrans(p) \/ Credit(p) \/ AddLock(p)
             \/ AddRead(p) \/ PostLock(p) \/ PostProbe(p) \/ PostPut(p)
             \/ ScanRead(p) \/ ScanNull(p) \/ InLock(p) \/ BankKill(p)
      PROVE  LedgerType'
  <2>1. UNCHANGED ledger
    BY <1>2 DEF Invoke, Refuse, ParseTrans, ParseOpen, ParseClose, Sweep,
              CheckMe, Apply, Checked, Served, DoBankTrans, DoBankOpen,
              DoBankClose, DoBankQuit, AskTrans, HowMany, DoTrans, Credit,
              AddLock, AddRead, PostLock, PostProbe, PostPut, ScanRead,
              ScanNull, InLock, BankKill, bankVars
  <2> QED BY <2>1 DEF LedgerType
<1>3. CASE BankTick \/ UNCHANGED vars
  BY <1>3 DEF BankTick, vars, bankVars, LedgerType
<1> QED BY <1>1, <1>2, <1>3 DEF BankNext, Session

\* Excused accounts are accounts.
LEMMA ExcusedTypeStep ==
  SesType /\ AddType /\ ExcusedType /\ [BankNext]_vars => ExcusedType'
<1> SUFFICES ASSUME SesType, AddType, ExcusedType, [BankNext]_vars
             PROVE  ExcusedType'
  OBVIOUS
<1>1. ASSUME NEW p \in Proc, ParseClose(p) PROVE ExcusedType'
  BY <1>1 DEF ParseClose, WriteUnlocked, SesType, Raced, ExcusedType
<1>2. ASSUME NEW p \in Proc, Sweep(p) PROVE ExcusedType'
  BY <1>2 DEF Sweep, WriteUnlocked, Raced, ExcusedType
<1>3. ASSUME NEW p \in Proc, Apply(p) PROVE ExcusedType'
  BY <1>3, UserAssumption DEF Apply, WriteUnlocked, Raced, ExcusedType
<1>4. ASSUME NEW p \in Proc, DoBankClose(p) PROVE ExcusedType'
  BY <1>4, UserAssumption DEF DoBankClose, WriteUnlocked, Raced, ExcusedType
<1>5. ASSUME NEW p \in Proc, AskTrans(p) PROVE ExcusedType'
  BY <1>5 DEF AskTrans, WriteUnlocked, SesType, Raced, ExcusedType
<1>6. ASSUME NEW p \in Proc, AddWrite(p) PROVE ExcusedType'
  BY <1>6 DEF AddWrite, AddType, Excuse, ExcusedType
<1>7. ASSUME NEW p \in Proc,
             \/ Invoke(p) \/ Refuse(p) \/ ParseTrans(p) \/ ParseOpen(p)
             \/ CheckMe(p) \/ Checked(p) \/ Served(p) \/ DoBankTrans(p)
             \/ DoBankOpen(p) \/ DoBankQuit(p) \/ HowMany(p) \/ DoTrans(p)
             \/ Credit(p) \/ AddLock(p) \/ AddRead(p) \/ PostLock(p)
             \/ PostProbe(p) \/ PostPut(p) \/ ScanRead(p) \/ ScanNull(p)
             \/ InLock(p) \/ BankKill(p)
      PROVE  ExcusedType'
  <2>1. UNCHANGED excused
    BY <1>7 DEF Invoke, Refuse, ParseTrans, ParseOpen, CheckMe, Checked,
              Served, DoBankTrans, DoBankOpen, DoBankQuit, HowMany, DoTrans,
              Credit, AddLock, AddRead, PostLock, PostProbe, PostPut,
              ScanRead, ScanNull, InLock, BankKill, bankVars
  <2> QED BY <2>1 DEF ExcusedType
<1>8. CASE BankTick \/ UNCHANGED vars
  BY <1>8 DEF BankTick, vars, bankVars, ExcusedType
<1> QED BY <1>1, <1>2, <1>3, <1>4, <1>5, <1>6, <1>7, <1>8 DEF BankNext, Session

\* Notices are counted.
LEMMA PostedTypeStep ==
  PostedType /\ [BankNext]_vars => PostedType'
<1> SUFFICES ASSUME PostedType, [BankNext]_vars
             PROVE  PostedType'
  OBVIOUS
<1>1. ASSUME NEW p \in Proc, PostPut(p) PROVE PostedType'
  BY <1>1 DEF PostPut, PostedType
<1>2. ASSUME NEW p \in Proc,
             \/ Invoke(p) \/ Refuse(p) \/ ParseTrans(p) \/ ParseOpen(p)
             \/ ParseClose(p) \/ Sweep(p) \/ CheckMe(p) \/ Apply(p)
             \/ Checked(p) \/ Served(p) \/ DoBankTrans(p) \/ DoBankOpen(p)
             \/ DoBankClose(p) \/ DoBankQuit(p) \/ AskTrans(p)
             \/ HowMany(p) \/ DoTrans(p) \/ Credit(p) \/ AddLock(p)
             \/ AddRead(p) \/ AddWrite(p) \/ PostLock(p) \/ PostProbe(p)
             \/ ScanRead(p) \/ ScanNull(p) \/ InLock(p) \/ BankKill(p)
      PROVE  PostedType'
  <2>1. UNCHANGED posted
    BY <1>2 DEF Invoke, Refuse, ParseTrans, ParseOpen, ParseClose, Sweep,
              CheckMe, Apply, Checked, Served, DoBankTrans, DoBankOpen,
              DoBankClose, DoBankQuit, AskTrans, HowMany, DoTrans, Credit,
              AddLock, AddRead, AddWrite, PostLock, PostProbe, ScanRead,
              ScanNull, InLock, BankKill, bankVars
  <2> QED BY <2>1 DEF PostedType
<1>3. CASE BankTick \/ UNCHANGED vars
  BY <1>3 DEF BankTick, vars, bankVars, PostedType
<1> QED BY <1>1, <1>2, <1>3 DEF BankNext, Session
-----------------------------------------------------------------------------
(* Control: labels, amounts, and the use of the locks.                     *)

PcType == pc \in [Proc -> Labels]

\* Every action goes to a place of the program.
LEMMA PcTypeStep ==
  SesType /\ AddType /\ ScanType /\ PcType /\ [BankNext]_vars => PcType'
<1> SUFFICES ASSUME SesType, AddType, ScanType, PcType, [BankNext]_vars
             PROVE  PcType'
  OBVIOUS
<1> USE DEF PcType, Labels, Goto
<1>1. ASSUME NEW p \in Proc,
             \/ Invoke(p) \/ Refuse(p) \/ ParseTrans(p) \/ ParseOpen(p)
             \/ ParseClose(p) \/ Sweep(p)
      PROVE  PcType'
  BY <1>1 DEF Invoke, Refuse, ParseTrans, ParseOpen, ParseClose, Sweep,
              CallAdd, CallScan
<1>2. ASSUME NEW p \in Proc,
             \/ CheckMe(p) \/ Apply(p) \/ Checked(p) \/ Served(p) \/ DoBankTrans(p)
             \/ DoBankOpen(p) \/ DoBankClose(p) \/ DoBankQuit(p)
      PROVE  PcType'
  BY <1>2 DEF CheckMe, Apply, Checked, Served, DoBankTrans, DoBankOpen,
              DoBankClose, DoBankQuit, CallAdd, CallScan
<1>3. ASSUME NEW p \in Proc,
             AskTrans(p) \/ HowMany(p) \/ DoTrans(p) \/ Credit(p)
      PROVE  PcType'
  BY <1>3 DEF AskTrans, HowMany, DoTrans, Credit, CallAdd, AfterTrans
<1>4. ASSUME NEW p \in Proc,
             \/ AddLock(p) \/ AddRead(p) \/ PostLock(p) \/ PostProbe(p) \/ ScanNull(p)
      PROVE  PcType'
  BY <1>4 DEF AddLock, AddRead, PostLock, PostProbe, ScanNull
<1>5. ASSUME NEW p \in Proc, AddWrite(p) PROVE PcType'
  BY <1>5 DEF AddWrite, AddType, AddReturns
<1>6. ASSUME NEW p \in Proc, PostPut(p) \/ ScanRead(p) PROVE PcType'
  BY <1>6 DEF PostPut, ScanRead, ScanType, ScanReturns
<1>7. ASSUME NEW p \in Proc, InLock(p) \/ BankKill(p) PROVE PcType'
  BY <1>7 DEF InLock, BankKill, bankVars
<1>8. CASE BankTick \/ UNCHANGED vars
  BY <1>8 DEF BankTick, vars, bankVars
<1> QED BY <1>1, <1>2, <1>3, <1>4, <1>5, <1>6, <1>7, <1>8 DEF BankNext, Session

AmountsPositive == \A p \in Proc : AmountDue(p) => ses[p].amt > 0

\* Only a positive amount gets to dotrans(): parsetrans() and asktrans() have
\* turned the others away.
LEMMA AmountsPositiveStep ==
  /\ SesType /\ AddType /\ ScanType /\ PcType /\ AmountsPositive
  /\ [BankNext]_vars
  => AmountsPositive'
<1> SUFFICES ASSUME SesType, AddType, ScanType, PcType, AmountsPositive,
                    [BankNext]_vars, NEW q \in Proc, AmountDue(q)'
             PROVE  ses'[q].amt > 0
  BY DEF AmountsPositive
<1> USE DEF AmountsPositive, AmountDue, Goto, PcType
<1>1. ASSUME NEW p \in Proc, Invoke(p) PROVE ses'[q].amt > 0
  BY <1>1, InputAssumption DEF Invoke, SesType
<1>2. ASSUME NEW p \in Proc,
             \/ Refuse(p) \/ ParseTrans(p) \/ ParseOpen(p) \/ ParseClose(p)
             \/ Sweep(p) \/ Apply(p) \/ Checked(p)
      PROVE  ses'[q].amt > 0
  BY <1>2 DEF Refuse, ParseTrans, ParseOpen, ParseClose, Sweep, Apply, Checked,
              CallAdd, CallScan, AddType
<1>3. ASSUME NEW p \in Proc, CheckMe(p) PROVE ses'[q].amt > 0
  BY <1>3 DEF CheckMe, CallAdd, SesType, AddType
<1>4. ASSUME NEW p \in Proc,
             \/ Served(p) \/ DoBankTrans(p) \/ DoBankOpen(p) \/ DoBankClose(p)
             \/ DoBankQuit(p)
      PROVE  ses'[q].amt > 0
  <2>1. CASE Served(p) \/ DoBankTrans(p)
    BY <2>1 DEF Served, DoBankTrans, SesType
  <2>2. CASE DoBankOpen(p)
    BY <2>2 DEF DoBankOpen, CallAdd, SesType, AddType
  <2>3. CASE DoBankClose(p)
    BY <2>3 DEF DoBankClose, CallScan, SesType
  <2>4. CASE DoBankQuit(p)
    BY <2>4 DEF DoBankQuit
  <2> QED BY <1>4, <2>1, <2>2, <2>3, <2>4
<1>5. ASSUME NEW p \in Proc, AskTrans(p) PROVE ses'[q].amt > 0
  BY <1>5 DEF AskTrans, AfterTrans, CallAdd, AddType
<1>6. ASSUME NEW p \in Proc, HowMany(p) PROVE ses'[q].amt > 0
  BY <1>6, InputAssumption DEF HowMany, AfterTrans, SesType
<1>7. ASSUME NEW p \in Proc, DoTrans(p) \/ Credit(p) PROVE ses'[q].amt > 0
  BY <1>7 DEF DoTrans, Credit, CallAdd, AddType
<1>8. ASSUME NEW p \in Proc, AddLock(p) \/ AddRead(p) PROVE ses'[q].amt > 0
  BY <1>8 DEF AddLock, AddRead
<1>9. ASSUME NEW p \in Proc, AddWrite(p) PROVE ses'[q].amt > 0
  BY <1>9 DEF AddWrite, AddType, AddReturns
<1>10. ASSUME NEW p \in Proc, PostLock(p) \/ PostProbe(p) \/ ScanNull(p)
       PROVE  ses'[q].amt > 0
  BY <1>10 DEF PostLock, PostProbe, ScanNull
<1>11. ASSUME NEW p \in Proc, PostPut(p) \/ ScanRead(p) PROVE ses'[q].amt > 0
  BY <1>11 DEF PostPut, ScanRead, ScanType, ScanReturns
<1>12. ASSUME NEW p \in Proc, InLock(p) \/ BankKill(p) PROVE ses'[q].amt > 0
  BY <1>12 DEF InLock, BankKill, bankVars
<1>13. CASE BankTick \/ UNCHANGED vars
  BY <1>13 DEF BankTick, vars, bankVars
<1> QED
  BY <1>1, <1>2, <1>3, <1>4, <1>5, <1>6, <1>7, <1>8, <1>9, <1>10, <1>11, <1>12,
     <1>13
     DEF BankNext, Session
\* Sessions enter and leave the lock protocol at the right places.
LEMMA LockUseStep ==
  /\ LockTypeOK /\ AddType /\ ScanType /\ PcType /\ LockUse
  /\ [BankNext]_vars
  => LockUse'
<1> SUFFICES ASSUME LockTypeOK, AddType, ScanType, PcType, LockUse, [BankNext]_vars
             PROVE  LockUse'
  OBVIOUS
<1> USE DEF LockUse, PcType, Goto
<1>1. ASSUME NEW p \in Proc,
             \/ Invoke(p) \/ Refuse(p) \/ ParseTrans(p) \/ ParseOpen(p)
             \/ ParseClose(p) \/ Sweep(p) \/ CheckMe(p) \/ Apply(p) \/ Checked(p)
             \/ Served(p) \/ DoBankTrans(p) \/ DoBankOpen(p) \/ DoBankClose(p)
             \/ DoBankQuit(p) \/ AskTrans(p) \/ HowMany(p) \/ DoTrans(p) \/ Credit(p)
             \/ ScanNull(p)
      PROVE  LockUse'
  <2>1. UNCHANGED <<which, lpc, fclock>>
    BY <1>1 DEF Invoke, Refuse, ParseTrans, ParseOpen, ParseClose, Sweep,
                CheckMe, Apply, Checked, Served, DoBankTrans, DoBankOpen,
                DoBankClose, DoBankQuit, AskTrans, HowMany, DoTrans, Credit,
                ScanNull, lockVars
  <2>2. \E l \in Labels \ {"read", "write", "probe", "put"} :
          pc' = [pc EXCEPT ![p] = l]
    <3>1. CASE \/ Invoke(p) \/ Refuse(p) \/ ParseTrans(p) \/ ParseOpen(p)
               \/ ParseClose(p) \/ Sweep(p) \/ CheckMe(p) \/ Apply(p)
      BY <3>1 DEF Invoke, Refuse, ParseTrans, ParseOpen, ParseClose, Sweep,
                  CheckMe, Apply, CallAdd, CallScan, Labels
    <3>2. CASE \/ Checked(p) \/ Served(p) \/ DoBankTrans(p) \/ DoBankOpen(p)
               \/ DoBankClose(p) \/ DoBankQuit(p)
      BY <3>2 DEF Checked, Served, DoBankTrans, DoBankOpen, DoBankClose,
                  DoBankQuit, CallAdd, CallScan, Labels
    <3>3. CASE \/ AskTrans(p) \/ HowMany(p) \/ DoTrans(p) \/ Credit(p)
               \/ ScanNull(p)
      BY <3>3 DEF AskTrans, HowMany, DoTrans, Credit, ScanNull, CallAdd,
                  AfterTrans, Labels
    <3> QED BY <1>1, <3>1, <3>2, <3>3
  <2> QED BY <2>1, <2>2
<1>2. ASSUME NEW p \in Proc, AddLock(p) PROVE LockUse'
  BY <1>2 DEF AddLock, SetLock, LockTypeOK, Which
<1>3. ASSUME NEW p \in Proc, AddRead(p) \/ PostProbe(p) PROVE LockUse'
  BY <1>3 DEF AddRead, PostProbe, lockVars
<1>4. ASSUME NEW p \in Proc, AddWrite(p) PROVE LockUse'
  BY <1>4 DEF AddWrite, Unlock, LockTypeOK, AddType, AddReturns
<1>5. ASSUME NEW p \in Proc, PostLock(p) PROVE LockUse'
  BY <1>5 DEF PostLock, SetLock, LockTypeOK, Which
<1>6. ASSUME NEW p \in Proc, PostPut(p) PROVE LockUse'
  BY <1>6 DEF PostPut, Unlock, LockTypeOK, ScanType, ScanReturns
<1>7. ASSUME NEW p \in Proc, ScanRead(p) PROVE LockUse'
  BY <1>7 DEF ScanRead, ScanType, ScanReturns, lockVars
<1>8. ASSUME NEW p \in Proc, InLock(p) PROVE LockUse'
  <2>1. UNCHANGED <<pc, which>>
    BY <1>8 DEF InLock, bankVars, LockStep, OpenExcl, StatLock, BlastLock,
                UnlockStat, UnlockUnlink
  <2>2. CASE OpenExcl(p)
    BY <2>1, <2>2 DEF OpenExcl, LockTypeOK, Which
  <2>3. CASE StatLock(p) \/ BlastLock(p)
    BY <2>1, <2>3 DEF StatLock, BlastLock, LockTypeOK
  <2>4. CASE UnlockStat(p) \/ UnlockUnlink(p)
    BY <2>1, <2>4 DEF UnlockStat, UnlockUnlink, LockTypeOK
  <2> QED BY <1>8, <2>2, <2>3, <2>4 DEF InLock, LockStep
<1>9. ASSUME NEW p \in Proc, BankKill(p) PROVE LockUse'
  BY <1>9 DEF BankKill, Kill, bankVars, LockTypeOK
<1>10. CASE BankTick \/ UNCHANGED vars
  BY <1>10 DEF BankTick, Tick, vars, bankVars, lockVars
<1> QED
  BY <1>1, <1>2, <1>3, <1>4, <1>5, <1>6, <1>7, <1>8, <1>9, <1>10
     DEF BankNext, Session

\* The invariant of the control: types, amounts, and owners of locks.
ControlInv ==
  /\ LockTypeOK /\ SessionTypes /\ PcType /\ AmountsPositive
  /\ LockUse /\ OwnFile

\* Every session starts outside the lock protocol.
LEMMA ControlInvInit == BankInit => ControlInv
<1> SUFFICES ASSUME BankInit PROVE ControlInv
  OBVIOUS
<1>1. LockTypeOK /\ SessionTypes
  BY LockTypeInit, SessionTypesInit DEF BankInit
<1>2. PcType /\ AmountsPositive /\ LockUse
  BY DEF BankInit, PcType, Labels, AmountsPositive, AmountDue, LockUse
<1>3. OwnFile
  BY DEF BankInit, LockInit, OwnFile
<1> QED BY <1>1, <1>2, <1>3 DEF ControlInv

\* Every step of the program keeps ControlInv.
LEMMA ControlInvStep == ControlInv /\ [BankNext]_vars => ControlInv'
<1> SUFFICES ASSUME ControlInv, [BankNext]_vars PROVE ControlInv'
  OBVIOUS
<1>1. [LockNext]_lockVars
  BY BankLockStep DEF ControlInv
<1>2. LockTypeOK' /\ OwnFile'
  BY <1>1, LockTypeStep, OwnFileStep DEF ControlInv
<1>3. SessionTypes'
  BY RawTypeStep, TransTypeStep, SesTypeStep, AddTypeStep, OldTypeStep,
     ScanTypeStep, LedgerTypeStep, ExcusedTypeStep, PostedTypeStep
     DEF ControlInv, SessionTypes
<1>4. PcType' /\ AmountsPositive' /\ LockUse'
  BY PcTypeStep, AmountsPositiveStep, LockUseStep DEF ControlInv, SessionTypes
<1> QED BY <1>2, <1>3, <1>4 DEF ControlInv

\* The files, the sessions and the lock protocol keep their types, and dotrans()
\* only ever moves positive amounts.
THEOREM BankTypeCorrect == BankSpec => []BankTypeOK
<1>1. ControlInv => BankTypeOK
  BY DEF ControlInv, BankTypeOK, SessionTypes, RawType, TransType, SesType,
         AddType, OldType, ScanType, LedgerType, ExcusedType, PostedType, PcType,
         AmountsPositive
<1> QED BY <1>1, ControlInvInit, ControlInvStep, PTL DEF BankSpec

\* The bank program implements the lock protocol: whatever its sessions do to
\* b.lock and t.lock is a behaviour of module BankLock.
THEOREM BankImplementsLock == BankSpec => LockSpec
<1>1. BankInit => LockInit
  BY DEF BankInit
<1>2. ControlInv /\ [BankNext]_vars => [LockNext]_lockVars
  BY BankLockStep DEF ControlInv
<1> QED BY <1>1, <1>2, ControlInvInit, ControlInvStep, PTL DEF BankSpec, LockSpec
-----------------------------------------------------------------------------
(* No update of a balance is lost.                                         *)

\* What a process about to write has read is still what the file says.
ReadCurrent ==
  "bank" \notin blasted =>
    \A p \in Proc :
      pc[p] = "write" /\ lpc[p] = "held" /\ add[p].uid \notin excused
        => old[p] = OldBalance(raw[add[p].uid])

LedgerInv == ReadCurrent /\ LedgerExact

\* A lock-free write of an account puts in the excused set whoever is writing it.
LEMMA UnlockedWrite ==
  ASSUME ControlInv, LedgerInv, NEW u \in Uids, NEW n \in Int,
         WriteUnlocked(u, n), n % 2 = 0,
         UNCHANGED <<add, old, ledger, lockVars>>,
         NEW p \in Proc, pc[p] # "write",
         NEW l \in Labels, l # "write", pc' = [pc EXCEPT ![p] = l]
  PROVE  LedgerInv'
<1> USE DEF ControlInv, SessionTypes, PcType, RawType, AddType
<1>2. \A v \in Uids : v # u => raw'[v] = raw[v]
  BY DEF WriteUnlocked
<1>3. raw'[u] = n /\ excused \subseteq excused'
  BY DEF WriteUnlocked
<1>4. ReadCurrent'
  <2> SUFFICES ASSUME "bank" \notin blasted', NEW q \in Proc, pc'[q] = "write",
                      lpc'[q] = "held", add'[q].uid \notin excused'
               PROVE  old'[q] = OldBalance(raw'[add'[q].uid])
    BY DEF ReadCurrent
  <2>1. pc[q] = "write" /\ lpc[q] = "held" /\ add[q].uid \notin excused
    BY <1>3 DEF lockVars
  <2>2. add[q].uid # u
    BY <2>1 DEF WriteUnlocked, Raced
  <2> QED BY <1>2, <2>1, <2>2 DEF LedgerInv, ReadCurrent, lockVars
<1>5. LedgerExact'
  <2> SUFFICES ASSUME "bank" \notin blasted', NEW v \in Uids \ excused', IsOpen(v)'
               PROVE  Half(raw'[v]) = ledger'[v]
    BY DEF LedgerExact
  <2>1. Status(n) # 0
    BY DEF Status
  <2>2. v # u
    BY <1>3, <2>1 DEF IsOpen
  <2> QED BY <1>2, <1>3, <2>2 DEF LedgerInv, LedgerExact, IsOpen, lockVars
<1> QED BY <1>4, <1>5 DEF LedgerInv

\* closeaccount() is such a write.
LEMMA UnlockedClose ==
  ASSUME ControlInv, LedgerInv, NEW u \in Uids, WriteUnlocked(u, 0),
         UNCHANGED <<add, old, ledger, lockVars>>,
         NEW p \in Proc, pc[p] # "write", pc' = [pc EXCEPT ![p] = "scan"]
  PROVE  LedgerInv'
<1>1. 0 \in Int /\ 0 % 2 = 0
  OBVIOUS
<1>2. "scan" \in Labels /\ "scan" # "write"
  BY DEF Labels
<1> QED BY <1>1, <1>2, UnlockedWrite

\* The opening date is even.
LEMMA DateEven == \A t \in Nat : OpenDate(t) \in Int /\ OpenDate(t) % 2 = 0
BY NumberAssumption DEF OpenDate
\* The file is exact to begin with.
LEMMA LedgerInvInit == BankInit => LedgerInv
BY FileAssumption
   DEF BankInit, LedgerInv, ReadCurrent, LedgerExact

\* addbalance() writes what it read plus its argument; the lock has kept every
\* other update out since the read.
LEMMA LedgerInvWrite ==
  ASSUME ControlInv, LedgerInv, NEW p \in Proc, AddWrite(p) PROVE LedgerInv'
<1> DEFINE u == add[p].uid
           b == add[p].delta + old[p]
<1> USE DEF ControlInv, SessionTypes, PcType, Goto
<1>1. /\ pc[p] = "write" /\ lpc[p] = "held" /\ fclock[p]["bank"] # 0
      /\ u \in Uids /\ b \in Int /\ ledger[u] \in Int /\ InitBalance \in Int
      /\ add[p].delta \in Int /\ old[p] \in Int
      /\ pc'[p] # "write" /\ \A q \in Proc \ {p} : pc'[q] = pc[q] /\ lpc'[q] = lpc[q]
  <2>1. pc[p] = "write" /\ lpc[p] = "held" /\ fclock[p]["bank"] # 0
    BY DEF AddWrite, Unlock, LockUse
  <2>2. u \in Uids /\ add[p].delta \in Int /\ add[p].next # "write"
    BY DEF AddType, AddReturns
  <2>3. old[p] \in Int /\ ledger[u] \in Int /\ InitBalance \in Int
    BY <2>2, NumberAssumption DEF OldType, LedgerType
  <2>4. b \in Int
    BY <2>2, <2>3
  <2>5. pc'[p] # "write" /\ \A q \in Proc \ {p} : pc'[q] = pc[q] /\ lpc'[q] = lpc[q]
    BY <2>2 DEF AddWrite, Unlock, LockTypeOK
  <2> QED BY <2>1, <2>2, <2>3, <2>4, <2>5
<1>2. /\ blasted' = blasted /\ old' = old /\ add' = add
      /\ raw' = [raw EXCEPT ![u] = Encode(b)]
      /\ ledger' = [ledger EXCEPT ![u] =
                      (IF IsOpen(u) THEN ledger[u] ELSE InitBalance) + add[p].delta]
      /\ excused' = excused \cup Excuse(u, b)
  BY DEF AddWrite, Unlock
<1> HIDE DEF u, b
<1>4. ReadCurrent'
  <2> SUFFICES ASSUME "bank" \notin blasted, NEW q \in Proc, pc'[q] = "write",
                      lpc'[q] = "held"
               PROVE  FALSE
    BY <1>2 DEF ReadCurrent
  <2>1. q # p /\ pc[q] = "write" /\ lpc[q] = "held"
    BY <1>1
  <2>2. fclock[q]["bank"] # 0
    BY <2>1 DEF LockUse
  <2> QED BY <1>1, <2>1, <2>2 DEF OwnFile, Which
<1>5. LedgerExact'
  <2> SUFFICES ASSUME "bank" \notin blasted, NEW v \in Uids, v \notin excused',
                      IsOpen(v)'
               PROVE  Half(raw'[v]) = ledger'[v]
    BY <1>2 DEF LedgerExact
  <2>1. v \notin excused
    BY <1>2
  <2>2. CASE v # u
    <3>1. raw'[v] = raw[v] /\ ledger'[v] = ledger[v]
      BY <1>2, <2>2 DEF RawType, LedgerType
    <3> QED BY <2>1, <3>1 DEF LedgerInv, LedgerExact, IsOpen
  <2>3. CASE v = u
    <3>1. b >= 0
      BY <1>1, <1>2, <2>3 DEF Excuse
    <3>2. raw'[v] = Encode(b) /\ Half(Encode(b)) = b
      BY <1>1, <1>2, <2>3, <3>1, RoundTrip DEF RawType
    <3>3. old[p] = OldBalance(raw[u])
      BY <1>1, <2>1, <2>3 DEF LedgerInv, ReadCurrent, u
    <3>4. OldBalance(raw[u]) = IF IsOpen(u) THEN ledger[u] ELSE InitBalance
      <4>1. IsOpen(u) => Half(raw[u]) = ledger[u]
        BY <1>1, <2>1, <2>3 DEF LedgerInv, LedgerExact
      <4>2. IsOpen(u) <=> raw[u] % 2 # 0
        BY DEF IsOpen, Status
      <4> QED BY <4>1, <4>2 DEF OldBalance
    <3>5. ledger'[v] = OldBalance(raw[u]) + add[p].delta
      BY <1>1, <1>2, <2>3, <3>4 DEF LedgerType
    <3> QED BY <1>1, <3>2, <3>3, <3>5 DEF b
  <2> QED BY <2>2, <2>3
<1> QED BY <1>4, <1>5 DEF LedgerInv
\* A step that leaves the balance file and the updates in progress alone, and
\* starts no write, keeps LedgerInv.
LEMMA LedgerInvFrame ==
  ASSUME ControlInv, LedgerInv, UNCHANGED <<raw, old, ledger, excused, blasted>>,
         \A q \in Proc : pc'[q] = "write" =>
           /\ pc[q] = "write" /\ add'[q] = add[q]
           /\ lpc'[q] = lpc[q] \/ lpc'[q] = "killed"
  PROVE  LedgerInv'
BY DEF LedgerInv, ReadCurrent, LedgerExact, IsOpen

\* Every step of the program keeps LedgerInv.
LEMMA LedgerInvStep == ControlInv /\ LedgerInv /\ [BankNext]_vars => LedgerInv'
<1> SUFFICES ASSUME ControlInv, LedgerInv, [BankNext]_vars PROVE LedgerInv'
  OBVIOUS
<1> USE DEF Goto
<1>0. PcType /\ SesType /\ AddType /\ ScanType /\ LockTypeOK
  BY DEF ControlInv, SessionTypes
<1>1. ASSUME NEW p \in Proc,
             \/ Invoke(p) \/ Refuse(p) \/ ParseTrans(p) \/ ParseOpen(p)
             \/ CheckMe(p) \/ Checked(p) \/ Served(p)
      PROVE  LedgerInv'
  <2>1. UNCHANGED <<raw, old, ledger, excused, blasted, lpc>>
    BY <1>1 DEF Invoke, Refuse, ParseTrans, ParseOpen, CheckMe, Checked,
                Served, lockVars
  <2>2. \A q \in Proc : pc'[q] = "write" => pc[q] = "write" /\ add'[q] = add[q]
    BY <1>0, <1>1 DEF Invoke, Refuse, ParseTrans, ParseOpen, CheckMe, Checked,
                      Served, CallAdd, CallScan, PcType, AddType
  <2> QED BY <2>1, <2>2, LedgerInvFrame
<1>2. ASSUME NEW p \in Proc,
             \/ DoBankTrans(p) \/ DoBankOpen(p) \/ DoBankQuit(p) \/ HowMany(p)
             \/ DoTrans(p) \/ Credit(p) \/ AddLock(p)
      PROVE  LedgerInv'
  <2>1. UNCHANGED <<raw, old, ledger, excused, blasted>>
    BY <1>2 DEF DoBankTrans, DoBankOpen, DoBankQuit, HowMany, DoTrans, Credit,
                AddLock, SetLock, lockVars
  <2>2. \A q \in Proc : pc'[q] = "write" =>
          pc[q] = "write" /\ add'[q] = add[q] /\ lpc'[q] = lpc[q]
    BY <1>0, <1>2 DEF DoBankTrans, DoBankOpen, DoBankQuit, HowMany, DoTrans, Credit,
                      AddLock, SetLock, AfterTrans, CallAdd, PcType, AddType,
                      LockTypeOK, lockVars
  <2> QED BY <2>1, <2>2, LedgerInvFrame
<1>3. ASSUME NEW p \in Proc,
             PostLock(p) \/ PostProbe(p) \/ PostPut(p) \/ ScanRead(p) \/ ScanNull(p)
      PROVE  LedgerInv'
  <2>1. UNCHANGED <<raw, old, add, ledger, excused, blasted>>
    BY <1>3 DEF PostLock, SetLock, PostProbe, PostPut, Unlock, ScanRead, ScanNull,
                lockVars
  <2>2. \A q \in Proc : pc'[q] = "write" => pc[q] = "write" /\ lpc'[q] = lpc[q]
    BY ZenonT(30), <1>0, <1>3 DEF PostLock, SetLock, PostProbe, PostPut, Unlock, ScanRead,
                      ScanNull, PcType, ScanType, ScanReturns, LockTypeOK, lockVars
  <2> QED BY <2>1, <2>2, LedgerInvFrame
<1>4. ASSUME NEW p \in Proc, InLock(p) PROVE LedgerInv'
  <2>1. CASE BlastLock(p)
    <3>1. UNCHANGED bankVars /\ pc[p] # "write"
      BY <1>4, <2>1 DEF InLock, BlastLock, ControlInv, LockUse
    <3>2. lpc' = [lpc EXCEPT ![p] = lpc'[p]] /\ blasted \subseteq blasted'
      BY <1>0, <2>1 DEF BlastLock, LockTypeOK
    <3> QED BY <1>0, <3>1, <3>2
            DEF LedgerInv, ReadCurrent, LedgerExact, IsOpen, bankVars,
                LockTypeOK
  <2>2. CASE OpenExcl(p) \/ StatLock(p) \/ UnlockStat(p) \/ UnlockUnlink(p)
    <3>1. UNCHANGED <<raw, old, ledger, excused, blasted, pc, add>>
      BY <1>4, <2>2 DEF InLock, bankVars, OpenExcl, StatLock, UnlockStat,
                        UnlockUnlink
    <3>2. lpc[p] \notin {"held", "killed"} /\ \A q \in Proc \ {p} : lpc'[q] = lpc[q]
      BY <1>0, <2>2 DEF OpenExcl, StatLock, UnlockStat, UnlockUnlink, LockTypeOK
    <3>3. pc[p] # "write"
      BY <3>2 DEF ControlInv, LockUse
    <3> QED BY <3>1, <3>2, <3>3, LedgerInvFrame
  <2> QED BY <1>4, <2>1, <2>2 DEF InLock, LockStep
<1>5. ASSUME NEW p \in Proc, BankKill(p) PROVE LedgerInv'
  <2>1. UNCHANGED <<raw, old, ledger, excused, blasted, pc, add>>
    BY <1>5 DEF BankKill, Kill, bankVars
  <2>2. \A q \in Proc : lpc'[q] = lpc[q] \/ lpc'[q] = "killed"
    BY <1>0, <1>5 DEF BankKill, Kill, LockTypeOK
  <2> QED BY <2>1, <2>2, LedgerInvFrame
<1>6. CASE BankTick \/ UNCHANGED vars
  BY <1>6, LedgerInvFrame DEF BankTick, Tick, vars, bankVars, lockVars
<1>7. ASSUME NEW p \in Proc, AddRead(p) PROVE LedgerInv'
  <2>1. /\ UNCHANGED <<raw, add, ledger, excused, blasted, lpc>>
        /\ lpc[p] = "held"
        /\ pc' = [pc EXCEPT ![p] = "write"]
        /\ old' = [old EXCEPT ![p] = OldBalance(raw[add[p].uid])]
    BY <1>7 DEF AddRead, lockVars
  <2>2. OldType
    BY DEF ControlInv, SessionTypes
  <2>3. LedgerExact'
    BY <1>0, <2>1 DEF LedgerInv, LedgerExact, IsOpen, PcType
  <2>4. ReadCurrent'
    BY <1>0, <2>1, <2>2 DEF LedgerInv, ReadCurrent, PcType, OldType
  <2> QED BY <2>3, <2>4 DEF LedgerInv
<1>8. ASSUME NEW p \in Proc, AddWrite(p) PROVE LedgerInv'
  BY <1>8, LedgerInvWrite
<1>9. ASSUME NEW p \in Proc, ParseClose(p) PROVE LedgerInv'
  BY <1>0, <1>9, UnlockedClose DEF ParseClose, CallScan, SesType
<1>10. ASSUME NEW p \in Proc, Sweep(p) PROVE LedgerInv'
  <2>1. CASE UNCHANGED <<raw, excused>> /\ pc' = [pc EXCEPT ![p] = "done"]
    <3>1. UNCHANGED <<old, add, ledger, blasted, lpc>>
      BY <1>10 DEF Sweep, lockVars
    <3> QED BY <1>0, <2>1, <3>1, LedgerInvFrame DEF PcType
  <2>2. CASE \E u \in Uids : WriteUnlocked(u, 0) /\ pc' = [pc EXCEPT ![p] = "scan"]
    BY <1>10, <2>2, UnlockedClose DEF Sweep
  <2> QED BY <1>10, <2>1, <2>2 DEF Sweep, CallScan
<1>11. ASSUME NEW p \in Proc, Apply(p) PROVE LedgerInv'
  <2>1. CASE UNCHANGED <<raw, excused>> /\ (pc' = [pc EXCEPT ![p] = "done"]
                                           \/ pc' = [pc EXCEPT ![p] = "spin"])
    <3>1. UNCHANGED <<old, add, ledger, blasted, lpc>>
      BY <1>11 DEF Apply, lockVars
    <3> QED BY <1>0, <2>1, <3>1, LedgerInvFrame DEF PcType
  <2>2. CASE /\ WriteUnlocked(Uid[p], OpenDate(now))
             /\ pc' = [pc EXCEPT ![p] = "done"]
    <3>1. Uid[p] \in Uids /\ OpenDate(now) \in Int /\ OpenDate(now) % 2 = 0
      BY <1>0, DateEven, UserAssumption DEF LockTypeOK
    <3> QED BY <1>11, <2>2, <3>1, UnlockedWrite DEF Apply, Labels
  <2> QED BY <1>11, <2>1, <2>2 DEF Apply
<1>12. ASSUME NEW p \in Proc, DoBankClose(p) PROVE LedgerInv'
  <2>1. PICK h \in Passwd : WriteUnlocked(h, 0) /\ CallScan(p, h, "dobank")
    BY <1>12 DEF DoBankClose
  <2> QED
    BY <1>12, <2>1, UserAssumption, UnlockedClose DEF DoBankClose, CallScan
<1>13. ASSUME NEW p \in Proc, AskTrans(p) PROVE LedgerInv'
  <2>1. CASE UNCHANGED <<raw, excused>>
    <3>1. UNCHANGED <<old, ledger, blasted, lpc>>
      BY <1>13 DEF AskTrans, lockVars
    <3>2. \A q \in Proc : pc'[q] = "write" => pc[q] = "write" /\ add'[q] = add[q]
      BY <1>0, <1>13 DEF AskTrans, AfterTrans, CallAdd, PcType, AddType
    <3> QED BY <2>1, <3>1, <3>2, LedgerInvFrame
  <2>2. CASE /\ WriteUnlocked(ses[p].him, OpenDate(now)) /\ UNCHANGED add
             /\ pc' = [pc EXCEPT ![p] = AfterTrans(p)]
    <3>1. ses[p].him \in Uids /\ OpenDate(now) \in Int /\ OpenDate(now) % 2 = 0
      BY <1>0, DateEven DEF LockTypeOK, SesType
    <3>2. AfterTrans(p) \in Labels /\ AfterTrans(p) # "write"
      BY DEF AfterTrans, Labels
    <3> QED BY <1>13, <2>2, <3>1, <3>2, UnlockedWrite DEF AskTrans
  <2> QED BY <1>13, <2>1, <2>2 DEF AskTrans
<1> QED
  BY <1>1, <1>2, <1>3, <1>4, <1>5, <1>6, <1>7, <1>8, <1>9, <1>10, <1>11, <1>12,
     <1>13
     DEF BankNext, Session

\* No update of addbalance() is lost, for any number of sessions: see LedgerExact.
THEOREM BankLedgerExact == BankSpec => []LedgerExact
<1>1. LedgerInv => LedgerExact
  BY DEF LedgerInv
<1> QED
  BY <1>1, ControlInvInit, ControlInvStep, LedgerInvInit, LedgerInvStep, PTL
     DEF BankSpec
-----------------------------------------------------------------------------
(* No notice is overwritten.                                               *)

\* The entry that transaction() has found free is still free.
FreeEntry ==
  "trans" \notin blasted =>
    \A p \in Proc : pc[p] = "put" /\ lpc[p] = "held" => trans[scan[p].slot] = Empty

\* Every step of the program keeps FreeEntry: t.lock keeps other writers out, and
\* scantrans(), which takes no lock, only empties entries.
LEMMA FreeEntryStep == ControlInv /\ FreeEntry /\ [BankNext]_vars => FreeEntry'
<1> SUFFICES ASSUME ControlInv, FreeEntry, [BankNext]_vars,
                    "trans" \notin blasted', NEW q \in Proc,
                    pc'[q] = "put", lpc'[q] = "held"
             PROVE  trans'[scan'[q].slot] = Empty
  BY DEF FreeEntry
<1> USE DEF Goto
<1>0. PcType /\ AddType /\ ScanType /\ TransType /\ LockTypeOK /\ LockUse /\ OwnFile
  BY DEF ControlInv, SessionTypes
<1>1. "trans" \notin blasted
  <2>1. [LockNext]_lockVars
    BY <1>0, BankLockStep
  <2> QED BY <1>0, <2>1
          DEF LockTypeOK, LockNext, Tick, LockStep, OpenExcl, StatLock, BlastLock,
              UnlockStat, UnlockUnlink, LockCall, SetLock, LockReturn, Unlock, Kill,
              lockVars
<1> DEFINE Same == /\ pc[q] = "put" /\ lpc[q] = "held" /\ scan'[q] = scan[q]
<1>2. Same /\ trans' = trans => trans'[scan'[q].slot] = Empty
  BY <1>1 DEF FreeEntry
<1>3. ASSUME NEW p \in Proc,
             \/ Invoke(p) \/ Refuse(p) \/ ParseTrans(p) \/ ParseOpen(p)
             \/ ParseClose(p) \/ Sweep(p) \/ CheckMe(p) \/ Apply(p) \/ Checked(p)
      PROVE  trans'[scan'[q].slot] = Empty
  <2>1. Same /\ trans' = trans
    BY <1>0, <1>3 DEF Invoke, Refuse, ParseTrans, ParseOpen, ParseClose, Sweep,
                      CheckMe, Apply, Checked, CallAdd, CallScan, PcType, ScanType,
                      lockVars
  <2> QED BY <1>2, <2>1
<1>4. ASSUME NEW p \in Proc,
             \/ Served(p) \/ DoBankTrans(p) \/ DoBankOpen(p) \/ DoBankClose(p)
             \/ DoBankQuit(p) \/ AskTrans(p) \/ HowMany(p) \/ DoTrans(p) \/ Credit(p)
      PROVE  trans'[scan'[q].slot] = Empty
  <2>1. Same /\ trans' = trans
    BY <1>0, <1>4 DEF Served, DoBankTrans, DoBankOpen, DoBankClose, DoBankQuit,
                      AskTrans, HowMany, DoTrans, Credit, CallAdd, CallScan,
                      AfterTrans, PcType, ScanType, lockVars
  <2> QED BY <1>2, <2>1
<1>5. ASSUME NEW p \in Proc, AddLock(p) \/ AddRead(p) \/ AddWrite(p) \/ PostLock(p)
      PROVE  trans'[scan'[q].slot] = Empty
  <2>1. Same /\ trans' = trans
    BY <1>0, <1>5 DEF AddLock, SetLock, AddRead, AddWrite, Unlock, PostLock, AddType,
                      AddReturns, PcType, ScanType, LockTypeOK, lockVars
  <2> QED BY <1>2, <2>1
<1>6. ASSUME NEW p \in Proc, PostProbe(p) PROVE trans'[scan'[q].slot] = Empty
  <2>1. trans' = trans /\ lpc' = lpc
    BY <1>6 DEF PostProbe, lockVars
  <2>2. CASE q # p
    BY <1>0, <1>2, <1>6, <2>1, <2>2 DEF PostProbe, PcType, ScanType
  <2>3. CASE q = p
    BY <1>0, <1>6, <2>1, <2>3 DEF PostProbe, PcType
  <2> QED BY <2>2, <2>3
<1>7. ASSUME NEW p \in Proc, PostPut(p) PROVE trans'[scan'[q].slot] = Empty
  <2>1. q # p
    BY <1>0, <1>7 DEF PostPut, PcType, ScanType, ScanReturns
  <2>2. pc[q] = "put" /\ lpc[q] = "held"
    BY <1>0, <1>7, <2>1 DEF PostPut, Unlock, PcType, LockTypeOK
  <2>3. fclock[q]["trans"] # 0 /\ fclock[p]["trans"] # 0
    BY <1>0, <1>7, <2>2 DEF LockUse, PostPut, Unlock
  <2> QED BY <1>0, <1>1, <2>1, <2>3 DEF OwnFile, Which
<1>8. ASSUME NEW p \in Proc, ScanRead(p) PROVE trans'[scan'[q].slot] = Empty
  <2>1. Same /\ trans' = trans
    BY <1>0, <1>8 DEF ScanRead, ScanReturns, PcType, ScanType, lockVars
  <2> QED BY <1>2, <2>1
<1>9. ASSUME NEW p \in Proc, ScanNull(p) PROVE trans'[scan'[q].slot] = Empty
  <2>1. Same
    BY <1>0, <1>9 DEF ScanNull, PcType, ScanType, lockVars
  <2>2. trans[scan[q].slot] = Empty
    BY <1>1, <2>1 DEF FreeEntry
  <2>3. trans' = [trans EXCEPT ![scan[p].slot] = Empty]
    BY <1>9 DEF ScanNull
  <2>4. CASE scan[p].slot \in 1 .. Slots
    BY <1>0, <2>1, <2>2, <2>3, <2>4 DEF TransType
  <2>5. CASE scan[p].slot \notin 1 .. Slots
    BY <1>0, <2>1, <2>2, <2>3, <2>5 DEF TransType
  <2> QED BY <2>4, <2>5
<1>10. ASSUME NEW p \in Proc, InLock(p) PROVE trans'[scan'[q].slot] = Empty
  <2>1. UNCHANGED <<pc, scan, trans>>
    BY <1>10 DEF InLock, bankVars
  <2>2. lpc[p] \notin {"held", "killed"} /\ \A r \in Proc \ {p} : lpc'[r] = lpc[r]
    BY <1>0, <1>10 DEF InLock, LockStep, OpenExcl, StatLock, BlastLock, UnlockStat,
                       UnlockUnlink, LockTypeOK
  <2>3. q # p
    BY <1>0, <2>1, <2>2 DEF LockUse
  <2> QED BY <1>2, <2>1, <2>2, <2>3
<1>11. ASSUME NEW p \in Proc, BankKill(p) PROVE trans'[scan'[q].slot] = Empty
  BY <1>0, <1>2, <1>11 DEF BankKill, Kill, bankVars, LockTypeOK
<1>12. CASE BankTick \/ UNCHANGED vars
  BY <1>2, <1>12 DEF BankTick, Tick, vars, bankVars, lockVars
<1> QED
  BY <1>3, <1>4, <1>5, <1>6, <1>7, <1>8, <1>9, <1>10, <1>11, <1>12
     DEF BankNext, Session

\* transaction() never overwrites a notice, for any number of sessions: see
\* PostKeepsNotices.
THEOREM BankPostKeepsNotices == BankSpec => PostKeepsNotices
<1>1. BankInit => FreeEntry
  BY DEF BankInit, FreeEntry
<1>2. ControlInv /\ FreeEntry /\ [BankNext]_vars
        => [\A p \in Proc :
              pc[p] = "put" /\ pc'[p] # "put" /\ "trans" \notin blasted
                => trans[scan[p].slot] = Empty]_vars
  <2> SUFFICES ASSUME ControlInv, FreeEntry, BankNext, NEW q \in Proc,
                      pc[q] = "put", pc'[q] # "put", "trans" \notin blasted
               PROVE  lpc[q] = "held"
    BY DEF FreeEntry
  <2>1. PcType /\ LockUse
    BY DEF ControlInv
  <2>2. lpc[q] # "killed"
    <3> SUFFICES ASSUME lpc[q] = "killed", NEW p \in Proc,
                        Invoke(p) \/ Session(p) \/ BankKill(p)
                 PROVE  pc'[q] = pc[q]
      BY DEF BankNext, BankTick, bankVars
    <3> USE <2>1 DEF PcType, Goto
    <3>1. CASE \/ Invoke(p) \/ Refuse(p) \/ ParseTrans(p) \/ ParseOpen(p)
               \/ ParseClose(p) \/ Sweep(p) \/ CheckMe(p) \/ Apply(p) \/ Checked(p)
      BY <3>1 DEF Invoke, Refuse, ParseTrans, ParseOpen, ParseClose, Sweep,
                  CheckMe, Apply, Checked, CallAdd, CallScan
    <3>2. CASE \/ Served(p) \/ DoBankTrans(p) \/ DoBankOpen(p) \/ DoBankClose(p)
               \/ DoBankQuit(p) \/ AskTrans(p) \/ HowMany(p) \/ DoTrans(p)
               \/ Credit(p)
      BY <3>2 DEF Served, DoBankTrans, DoBankOpen, DoBankClose, DoBankQuit,
                  AskTrans, HowMany, DoTrans, Credit, CallAdd, CallScan
    <3>3. CASE \/ AddLock(p) \/ AddRead(p) \/ AddWrite(p) \/ PostLock(p)
               \/ PostProbe(p) \/ PostPut(p) \/ ScanRead(p) \/ ScanNull(p)
      BY <3>3 DEF AddLock, SetLock, AddRead, AddWrite, Unlock, PostLock, PostProbe,
                  PostPut, ScanRead, ScanNull
    <3>4. CASE InLock(p) \/ BankKill(p)
      BY <3>4 DEF InLock, BankKill, bankVars
    <3> QED BY <3>1, <3>2, <3>3, <3>4 DEF Session
  <2> QED BY <2>1, <2>2 DEF LockUse
<1> QED
  BY <1>1, <1>2, ControlInvInit, ControlInvStep, FreeEntryStep, PTL
     DEF BankSpec, PostKeepsNotices
-----------------------------------------------------------------------------
(* Nobody overdraws the account that checkme() has read.                   *)

\* A transfer that dotrans() is about to make, or is making, takes from the user's
\* own account no more than the balance checkme() has read.
Debiting(p) == pc[p] \in {"add", "read", "write"} /\ add[p].next = "credit"
TransferCovered ==
  \A p \in Proc :
    /\ pc[p] = "dotrans" /\ ses[p].cmd = "t" => ses[p].amt <= ses[p].mybal
    /\ Debiting(p) => /\ add[p].uid = Uid[p] /\ add[p].delta = -ses[p].amt
                      /\ ses[p].amt <= ses[p].mybal

\* Every step keeps TransferCovered: parsetrans() and asktrans() compare the amount
\* with the balance, and nothing changes either of them before addbalance() returns.
LEMMA TransferCoveredStep ==
  ControlInv /\ TransferCovered /\ [BankNext]_vars => TransferCovered'
<1> SUFFICES ASSUME ControlInv, TransferCovered, [BankNext]_vars, NEW q \in Proc
             PROVE  /\ (pc[q] = "dotrans" /\ ses[q].cmd = "t"
                         => ses[q].amt <= ses[q].mybal)'
                    /\ (Debiting(q) => /\ add[q].uid = Uid[q] /\ add[q].delta = -ses[q].amt
                                       /\ ses[q].amt <= ses[q].mybal)'
  BY DEF TransferCovered
<1>0. SesType /\ AddType /\ ScanType /\ PcType
  BY DEF ControlInv, SessionTypes
<1> DEFINE Kept == /\ (pc[q] = "dotrans" /\ ses[q].cmd = "t"
                         => ses[q].amt <= ses[q].mybal)'
                   /\ (Debiting(q) => /\ add[q].uid = Uid[q] /\ add[q].delta = -ses[q].amt
                                      /\ ses[q].amt <= ses[q].mybal)'
<1> USE DEF TransferCovered, Debiting, Goto, PcType
<1>1. ASSUME NEW p \in Proc,
             \/ Refuse(p) \/ ParseTrans(p) \/ ParseOpen(p) \/ ParseClose(p)
             \/ Sweep(p) \/ Apply(p)
      PROVE  Kept
  BY <1>0, <1>1 DEF Refuse, ParseTrans, ParseOpen, ParseClose, Sweep, Apply,
                    CallAdd, CallScan, AddType
<1>2. ASSUME NEW p \in Proc, Invoke(p) PROVE Kept
  BY <1>0, <1>2 DEF Invoke, SesType
<1>3. ASSUME NEW p \in Proc, CheckMe(p) PROVE Kept
  BY <1>0, <1>3 DEF CheckMe, CallAdd, SesType, AddType
<1>4. ASSUME NEW p \in Proc, Checked(p) PROVE Kept
  BY <1>0, <1>4 DEF Checked, CallScan, SesType
<1>5. ASSUME NEW p \in Proc, Served(p) \/ DoBankTrans(p) PROVE Kept
  BY <1>0, <1>5 DEF Served, DoBankTrans, SesType
<1>6. ASSUME NEW p \in Proc, DoBankOpen(p) PROVE Kept
  BY <1>0, <1>6 DEF DoBankOpen, CallAdd, SesType, AddType
<1>7. ASSUME NEW p \in Proc, DoBankClose(p) \/ DoBankQuit(p) PROVE Kept
  BY <1>0, <1>7 DEF DoBankClose, DoBankQuit, CallScan, SesType
<1>8. ASSUME NEW p \in Proc, AskTrans(p) PROVE Kept
  BY <1>0, <1>8 DEF AskTrans, AfterTrans, CallAdd, AddType
<1>9. ASSUME NEW p \in Proc, HowMany(p) PROVE Kept
  BY <1>0, <1>9, InputAssumption DEF HowMany, AfterTrans, SesType
<1>10. ASSUME NEW p \in Proc, DoTrans(p) PROVE Kept
  BY <1>0, <1>10 DEF DoTrans, CallAdd, SesType, AddType
<1>11. ASSUME NEW p \in Proc, Credit(p) PROVE Kept
  BY <1>0, <1>11 DEF Credit, CallAdd, SesType, AddType
<1>12. ASSUME NEW p \in Proc, AddLock(p) \/ AddRead(p) \/ PostLock(p) \/ PostProbe(p)
       PROVE  Kept
  BY <1>0, <1>12 DEF AddLock, AddRead, PostLock, PostProbe
<1>13. ASSUME NEW p \in Proc, AddWrite(p) PROVE Kept
  BY <1>0, <1>13 DEF AddWrite, AddType, AddReturns
<1>14. ASSUME NEW p \in Proc, PostPut(p) \/ ScanRead(p) \/ ScanNull(p) PROVE Kept
  BY <1>0, <1>14 DEF PostPut, ScanRead, ScanNull, ScanType, ScanReturns
<1>15. ASSUME NEW p \in Proc, InLock(p) \/ BankKill(p) PROVE Kept
  BY <1>15 DEF InLock, BankKill, bankVars
<1>16. CASE BankTick \/ UNCHANGED vars
  BY <1>16 DEF BankTick, vars, bankVars
<1> QED
  BY <1>1, <1>2, <1>3, <1>4, <1>5, <1>6, <1>7, <1>8, <1>9, <1>10, <1>11, <1>12,
     <1>13, <1>14, <1>15, <1>16
     DEF BankNext, Session

\* Only addbalance() itself goes from its write to what comes after it.
LEMMA WriteEnds ==
  ASSUME ControlInv, BankNext, NEW q \in Proc, pc[q] = "write", pc'[q] # "write"
  PROVE  AddWrite(q)
<1>0. PcType /\ ScanType
  BY DEF ControlInv, SessionTypes
<1>1. PICK p \in Proc : Invoke(p) \/ Session(p) \/ BankKill(p)
  BY DEF BankNext, BankTick, bankVars
<1> USE DEF Goto, PcType
<1>2. \/ ~(InLock(p) \/ BankKill(p)) /\ p = q
      \/ AddWrite(q)
  BY <1>0, <1>1 DEF Session, InLock, BankKill, bankVars, Invoke, Refuse, ParseTrans,
     ParseOpen, ParseClose, Sweep, CheckMe, Apply, Checked, Served, DoBankTrans,
     DoBankOpen, DoBankClose, DoBankQuit, AskTrans, HowMany, DoTrans, Credit, AddLock,
     AddRead, AddWrite, PostLock, PostProbe, PostPut, ScanRead, ScanNull, CallAdd,
     CallScan
<1> QED
  BY <1>1, <1>2 DEF Session, Invoke, Refuse, ParseTrans,
     ParseOpen, ParseClose, Sweep, CheckMe, Apply, Checked, Served, DoBankTrans,
     DoBankOpen, DoBankClose, DoBankQuit, AskTrans, HowMany, DoTrans, Credit, AddLock,
     AddRead, PostLock, PostProbe, PostPut, ScanRead, ScanNull

\* A transfer leaves the account in debt only when its balance has changed since
\* checkme() read it, for any number of sessions: see OverdrawnOnlyIfStale.
THEOREM BankOverdrawnOnlyIfStale == BankSpec => OverdrawnOnlyIfStale
<1>1. BankInit => TransferCovered
  BY DEF BankInit, TransferCovered, Debiting
<1>2. ControlInv /\ TransferCovered /\ [BankNext]_vars
        => [\A p \in Proc :
              (pc[p] = "write" /\ pc'[p] = "credit" /\ old[p] = ses[p].mybal)
                => raw'[Uid[p]] >= 0]_vars
  <2> SUFFICES ASSUME ControlInv, TransferCovered, BankNext, NEW q \in Proc,
                      pc[q] = "write", pc'[q] = "credit", old[q] = ses[q].mybal
               PROVE  raw'[Uid[q]] >= 0
    OBVIOUS
  <2>1. RawType /\ SesType /\ AddType /\ OldType /\ PcType
    BY DEF ControlInv, SessionTypes
  <2>2. AddWrite(q)
    BY WriteEnds
  <2>3. add[q].next = "credit"
    BY <2>1, <2>2 DEF AddWrite, Goto, PcType
  <2>4. /\ add[q].uid = Uid[q] /\ add[q].delta = -ses[q].amt
        /\ ses[q].amt <= ses[q].mybal
    BY <2>3 DEF TransferCovered, Debiting
  <2>5. /\ ses[q].amt \in Int /\ ses[q].mybal \in Int /\ add[q].delta \in Int
        /\ old[q] \in Int /\ Uid[q] \in Uids
    BY <2>1, <2>4 DEF SesType, AddType, OldType
  <2>6. raw'[Uid[q]] = Encode(add[q].delta + old[q])
    BY <2>1, <2>2, <2>4, <2>5 DEF AddWrite, RawType
  <2> QED BY <2>4, <2>5, <2>6 DEF Encode
<1> QED
  BY <1>1, <1>2, ControlInvInit, ControlInvStep, TransferCoveredStep, PTL
     DEF BankSpec, OverdrawnOnlyIfStale
=============================================================================
