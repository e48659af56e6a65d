------------------------------ MODULE BankLock ------------------------------
(***************************************************************************)
(* The lock files of the bank program, soft/apps/bank/bank.c.              *)
(*                                                                         *)
(* The balance file and the transaction file are each guarded by a lock    *)
(* file, b.lock and t.lock, made with open(O_CREAT|O_EXCL) and removed     *)
(* with unlink().  A lock file older than five minutes is "blasted" by     *)
(* whoever finds it.  One step of this module is one system call on a lock *)
(* file together with the code up to the next one.                         *)
(***************************************************************************)
EXTENDS Integers

CONSTANTS Proc,        \* the invocations of the bank program
          LockAge,     \* the 300 seconds after which a lock file is old
          MaxTries,    \* the 5 naps a caller takes before it gives up
          MaxTime      \* bound of the clock

ASSUME BankLockConstants ==
  /\ LockAge \in Nat
  /\ MaxTries \in Nat
  /\ MaxTime \in Nat

Which == {"bank", "trans"}

VARIABLES now,       \* the clock, never 0
          lockfile,  \* per lock: NoFile, or who created the file and its st_ctime
          fclock,    \* per process and lock: ctime of the lock held, 0 if none
          lpc,       \* per process: where it is in setlock() or unlock()
          which,     \* per process: the lock setlock() or unlock() was called for
          trys,      \* per process: setlock()'s counter of naps
          blasted    \* history: the locks whose file was ever blasted

lockVars == <<now, lockfile, fclock, lpc, which, trys, blasted>>

NoFile == [by |-> "none", ctime |-> 0]

Files == [by : Proc, ctime : Nat \ {0}] \cup {NoFile}

\* "none": outside; "held": setlock() has returned; "exited": done(1) was
\* called inside setlock(); "killed": the process was killed.
LockLabels == {"none", "open", "stat", "blast", "held", "ustat", "unlink",
               "exited", "killed"}

LockInit ==
  /\ now = 1
  /\ lockfile = [w \in Which |-> NoFile]
  /\ fclock = [p \in Proc |-> [w \in Which |-> 0]]
  /\ lpc = [p \in Proc |-> "none"]
  /\ which = [p \in Proc |-> "bank"]
  /\ trys = [p \in Proc |-> 0]
  /\ blasted = {}

-----------------------------------------------------------------------------
\* setlock(w) is called: return at once if this process holds the lock.
SetLock(p, w) ==
  /\ lpc[p] = "none"
  /\ lpc' = [lpc EXCEPT ![p] = IF fclock[p][w] # 0 THEN "held" ELSE "open"]
  /\ which' = [which EXCEPT ![p] = w]
  /\ trys' = [trys EXCEPT ![p] = 0]
  /\ UNCHANGED <<now, lockfile, fclock, blasted>>

\* Mutant of OpenExcl: open() without O_EXCL succeeds on an existing file.
OpenShared(p) ==
  LET w == which[p] IN
  /\ lpc[p] = "open"
  /\ lockfile' = [lockfile EXCEPT ![w] = [by |-> p, ctime |-> now]]
  /\ fclock' = [fclock EXCEPT ![p][w] = now]
  /\ lpc' = [lpc EXCEPT ![p] = "held"]
  /\ UNCHANGED <<now, which, trys, blasted>>

\* open(O_CREAT|O_EXCL): create the file and note its time, or go and look at
\* the file that is there.
OpenExcl(p) ==
  LET w == which[p] IN
  /\ lpc[p] = "open"
  /\ \/ /\ lockfile[w] = NoFile
        /\ lockfile' = [lockfile EXCEPT ![w] = [by |-> p, ctime |-> now]]
        /\ fclock' = [fclock EXCEPT ![p][w] = now]
        /\ lpc' = [lpc EXCEPT ![p] = "held"]
     \/ /\ lockfile[w] # NoFile
        /\ lpc' = [lpc EXCEPT ![p] = "stat"]
        /\ UNCHANGED <<lockfile, fclock>>
  /\ UNCHANGED <<now, which, trys, blasted>>

\* The lock file is old.
Old(w) == lockfile[w].ctime + LockAge < now

\* Mutant of StatLock: the naps are not counted.
StatForever(p) ==
  LET w == which[p] IN
  /\ lpc[p] = "stat"
  /\ lpc' = [lpc EXCEPT ![p] = IF lockfile[w] = NoFile THEN "exited"
                               ELSE IF Old(w) THEN "blast" ELSE "open"]
  /\ UNCHANGED <<now, lockfile, fclock, which, trys, blasted>>

\* Mutant of StatLock: the number of naps is not compared with the limit.
StatNoLimit(p) ==
  LET w == which[p] IN
  /\ lpc[p] = "stat"
  /\ lpc' = [lpc EXCEPT ![p] = IF lockfile[w] = NoFile THEN "exited"
                               ELSE IF Old(w) THEN "blast" ELSE "open"]
  /\ trys' = [trys EXCEPT ![p] = @ + 1]
  /\ UNCHANGED <<now, lockfile, fclock, which, blasted>>

\* stat() of the lock file in the way: gone by now, old, or to be waited for.
StatLock(p) ==
  LET w == which[p] IN
  /\ lpc[p] = "stat"
  /\ \/ /\ lockfile[w] = NoFile             \* "Can't create lockfile"
        /\ lpc' = [lpc EXCEPT ![p] = "exited"]
        /\ UNCHANGED trys
     \/ /\ lockfile[w] # NoFile /\ Old(w)
        /\ lpc' = [lpc EXCEPT ![p] = "blast"]
        /\ UNCHANGED trys
     \/ /\ lockfile[w] # NoFile /\ ~Old(w) /\ trys[p] < MaxTries
        /\ trys' = [trys EXCEPT ![p] = @ + 1]
        /\ lpc' = [lpc EXCEPT ![p] = "open"]
     \/ /\ lockfile[w] # NoFile /\ ~Old(w) /\ trys[p] >= MaxTries
        /\ lpc' = [lpc EXCEPT ![p] = "exited"]  \* "Please try later."
        /\ UNCHANGED trys
  /\ UNCHANGED <<now, lockfile, fclock, which, blasted>>

\* unlink() of the file that stat() found old, whatever file that now is.
BlastLock(p) ==
  LET w == which[p] IN
  /\ lpc[p] = "blast"
  /\ \/ /\ lockfile[w] = NoFile             \* "blast failed"
        /\ lpc' = [lpc EXCEPT ![p] = "exited"]
        /\ UNCHANGED <<lockfile, blasted>>
     \/ /\ lockfile[w] # NoFile
        /\ lockfile' = [lockfile EXCEPT ![w] = NoFile]
        /\ blasted' = blasted \cup {w}
        /\ lpc' = [lpc EXCEPT ![p] = "open"]
  /\ UNCHANGED <<now, fclock, which, trys>>

\* unlock(w) is called.
Unlock(p, w) ==
  /\ lpc[p] = "held"
  /\ lpc' = [lpc EXCEPT ![p] = IF fclock[p][w] = 0 THEN "none" ELSE "ustat"]
  /\ which' = [which EXCEPT ![p] = w]
  /\ UNCHANGED <<now, lockfile, fclock, trys, blasted>>

\* stat(): is it my lock file?  If not, warn and forget about it.
UnlockStat(p) ==
  LET w == which[p]
      mine == lockfile[w] # NoFile /\ lockfile[w].ctime = fclock[p][w] IN
  /\ lpc[p] = "ustat"
  /\ lpc' = [lpc EXCEPT ![p] = IF mine THEN "unlink" ELSE "none"]
  /\ fclock' = [fclock EXCEPT ![p][w] = IF mine THEN @ ELSE 0]
  /\ UNCHANGED <<now, lockfile, which, trys, blasted>>

\* unlink() (with a warning if the file is gone), and forget about the lock.
UnlockUnlink(p) ==
  LET w == which[p] IN
  /\ lpc[p] = "unlink"
  /\ lpc' = [lpc EXCEPT ![p] = "none"]
  /\ lockfile' = [lockfile EXCEPT ![w] = NoFile]
  /\ fclock' = [fclock EXCEPT ![p][w] = 0]
  /\ UNCHANGED <<now, which, trys, blasted>>

\* kill -9, or a SIGINT outside dotrans(): the lock file stays.
Kill(p) ==
  /\ lpc[p] \notin {"exited", "killed"}
  /\ lpc' = [lpc EXCEPT ![p] = "killed"]
  /\ UNCHANGED <<now, lockfile, fclock, which, trys, blasted>>

Tick ==
  /\ now < MaxTime
  /\ now' = now + 1
  /\ UNCHANGED <<lockfile, fclock, lpc, which, trys, blasted>>

-----------------------------------------------------------------------------
\* What setlock() and unlock() do on their own, once called.
LockStep(p) ==
  \/ OpenExcl(p) \/ StatLock(p) \/ BlastLock(p)
  \/ UnlockStat(p) \/ UnlockUnlink(p)

LockCall(p) == \E w \in Which : SetLock(p, w)

LockReturn(p) == Unlock(p, which[p])

LockNext ==
  \/ Tick
  \/ \E p \in Proc : LockStep(p) \/ LockCall(p) \/ LockReturn(p) \/ Kill(p)

LockSpec == LockInit /\ [][LockNext]_lockVars

\* A process that is not killed keeps running.
LockFairSpec == LockSpec /\ \A p \in Proc : WF_lockVars(LockStep(p))

-----------------------------------------------------------------------------
\* The types of the lock files and of the protocol's variables; setlock() naps
\* at most MaxTries times.
LockTypeOK ==
  /\ now \in Nat \ {0}
  /\ lockfile \in [Which -> Files]
  /\ fclock \in [Proc -> [Which -> Nat]]
  /\ lpc \in [Proc -> LockLabels]
  /\ which \in [Proc -> Which]
  /\ trys \in [Proc -> 0 .. MaxTries]
  /\ blasted \subseteq Which

\* The processes that go on as the owners of a lock, from the return of
\* setlock() to the end of unlock(); a killed owner counts until its file is
\* removed.
Holders(w) == {p \in Proc : fclock[p][w] # 0}

\* A lock that nobody ever blasted has at most one owner, whatever the
\* interleaving of setlock(), unlock() and kills.
MutualExclusion ==
  \A w \in Which \ blasted : \A p, q \in Holders(w) : p = q

\* A call of setlock() or unlock() returns, exits or is killed: the retry loop
\* of setlock() ends, also if the lock's owner was killed.
LockCallsEnd ==
  \A p \in Proc :
    lpc[p] \in {"open", "stat", "blast", "ustat", "unlink"}
      ~> lpc[p] \in {"none", "held", "exited", "killed"}
=============================================================================
