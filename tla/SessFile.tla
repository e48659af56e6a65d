------------------------------ MODULE SessFile ------------------------------
(***************************************************************************)
(* The session database of backtalk 1.3.30: sess_file.c and session.c in   *)
(* contrib/backtalk/backtalk-1.3.30/src.                                   *)
(*                                                                         *)
(* Every web request is a process.  Sessions are entries of one file that  *)
(* all processes share; new_session() and session_delete() lock it,        *)
(* session_lookup() does not.  An entry is read or written at once; the    *)
(* loops over the file are steps of their own, one for each entry.         *)
(***************************************************************************)
EXTENDS Integers

CONSTANTS Proc,      \* requests
          Sids,      \* session ids, what get_noise() makes
          Users,     \* login names
          NoSid,     \* the empty id: of an erased entry, or in an empty cookie
          NoCookie,  \* no cookie at all
          NoUser, Pending, NoProc,
          Expire,    \* VAR_EXPIRE_SESSION
          Lifetime,  \* how long a call takes, at most
          MaxRetry,  \* 15: duplicates that new_session() puts up with
          Slots,     \* bound: the entries of the file
          MaxClock   \* bound: the time

ASSUME SessAssumption ==
  /\ NoSid \notin Sids /\ NoCookie \notin Sids \cup {NoSid}
  /\ NoUser \notin Users /\ NoProc \notin Proc
  /\ Pending \notin Users \cup {NoUser}
  /\ Expire \in Nat /\ Lifetime \in Nat /\ MaxRetry \in Nat
  /\ Slots \in Nat /\ MaxClock \in Nat

VARIABLES
  file,     \* struct sess_entry of every slot
  size,     \* entries in the file
  lock,     \* who has the file locked
  clock,    \* time()
  pc,       \* per process: where it is
  mysid,    \* per process: my_sid or, while that is empty, the session cookie
  sid,      \* per process: the id that is looked for or being made
  user,     \* per process: the user found or logging in
  now,      \* per process: the local variable now, or a sess.time to write back
  pos,      \* per process: the entry read next, or the one found
  seek,     \* per process: the first reusable entry, 0 if none yet
  retry,    \* per process: duplicates met
  used,     \* history: when a session was last used
  missing   \* history: lookups whose id was not in the file meanwhile

procvars == <<pc, mysid, sid, user, now, pos, seek, retry>>
vars == <<file, size, lock, clock, pc, mysid, sid, user, now, pos,
          seek, retry, used, missing>>

NoEntry == [id |-> NoSid, user |-> NoUser, time |-> 0]

Entries == [id : Sids \cup {NoSid}, user : Users \cup {NoUser}, time : 0 .. MaxClock]

Init ==
  /\ file = [i \in 1 .. Slots |-> NoEntry] /\ size = 0
  /\ lock = NoProc /\ clock = 0
  /\ pc = [p \in Proc |-> "idle"]
  /\ mysid = [p \in Proc |-> NoCookie]
  /\ sid = [p \in Proc |-> NoSid] /\ user = [p \in Proc |-> NoUser]
  /\ now = [p \in Proc |-> 0] /\ pos = [p \in Proc |-> 1]
  /\ seek = [p \in Proc |-> 0] /\ retry = [p \in Proc |-> 0]
  /\ used = [s \in Sids |-> 0] /\ missing = {}

\* What a cookie may hold.
Cookies == Sids \cup {NoSid}

\* Session s is in the file.
Present(s) == s # NoSid /\ \E i \in 1 .. size : file[i].id = s

\* p is in session_lookup().
Asking(p) == pc[p] \in {"look", "touch", "refused"}

\* Session s ends: lookups in progress may find nothing.
Miss(s) == missing' = missing \cup {q \in Proc : Asking(q) /\ s # NoSid /\ sid[q] = s}

\* The calls that have read the clock and are not through.
InCall == {"look", "touch", "wantnew", "scan"}

\* Back in the script: the call's local variables are gone.
Return(p) ==
  /\ pc' = [pc EXCEPT ![p] = "script"]
  /\ sid' = [sid EXCEPT ![p] = NoSid] /\ user' = [user EXCEPT ![p] = NoUser]
  /\ now' = [now EXCEPT ![p] = 0] /\ pos' = [pos EXCEPT ![p] = 1]
  /\ seek' = [seek EXCEPT ![p] = 0] /\ retry' = [retry EXCEPT ![p] = 0]

\* The process is gone, and with it its lock.
Gone(p) ==
  /\ pc' = [pc EXCEPT ![p] = "idle"]
  /\ mysid' = [mysid EXCEPT ![p] = NoCookie]
  /\ sid' = [sid EXCEPT ![p] = NoSid] /\ user' = [user EXCEPT ![p] = NoUser]
  /\ now' = [now EXCEPT ![p] = 0] /\ pos' = [pos EXCEPT ![p] = 1]
  /\ seek' = [seek EXCEPT ![p] = 0] /\ retry' = [retry EXCEPT ![p] = 0]
  /\ lock' = IF lock = p THEN NoProc ELSE lock
  /\ missing' = missing \ {p}
  /\ UNCHANGED <<file, size, clock, used>>

\* close_session_file(): closing the file gives up the lock.
Unlock(p) == lock' = NoProc

-----------------------------------------------------------------------------
(* A request: getuser() calls session_auth(), then the script runs.        *)

\* Without a cookie session_auth() returns 1 and the user is anonymous; a public
\* script does not call it, whatever cookie there is.
Anonymous(p, s) ==
  /\ pc[p] = "idle"
  /\ pc' = [pc EXCEPT ![p] = "script"]
  /\ mysid' = [mysid EXCEPT ![p] = s]
  /\ UNCHANGED <<file, size, lock, clock, sid, user, now, pos, seek,
                 retry, used, missing>>

\* session_lookup() up to its loop.  The cookie may be empty: func_killsession()
\* sets such a one.  The empty id is that of any erased entry.
Lookup(p, s) ==
  /\ pc[p] = "idle"
  /\ pc' = [pc EXCEPT ![p] = "look"]
  /\ mysid' = [mysid EXCEPT ![p] = s] /\ sid' = [sid EXCEPT ![p] = s]
  /\ now' = [now EXCEPT ![p] = clock]
  /\ missing' = IF Present(s) THEN missing \ {p} ELSE missing \cup {p}
  /\ UNCHANGED <<file, size, lock, clock, user, pos, seek, retry, used>>

\* Mutant of Expired: a session expires when EXPIRE seconds are over, not later.
ExpiredEarly(e, n) == e.time + Expire <= n

Expired(e, n) == e.time + Expire < n

\* One turn of the loop: another session.
LookNext(p) ==
  /\ pc[p] = "look" /\ pos[p] <= size /\ file[pos[p]].id # sid[p]
  /\ pos' = [pos EXCEPT ![p] = @ + 1]
  /\ UNCHANGED <<file, size, lock, clock, pc, mysid, sid, user, now, seek, retry,
                 used, missing>>

\* The last turn: the session is found and still good.
LookFound(p) ==
  /\ pc[p] = "look" /\ pos[p] <= size /\ file[pos[p]].id = sid[p]
  /\ ~Expired(file[pos[p]], now[p])
  /\ pc' = [pc EXCEPT ![p] = "touch"]
  /\ user' = [user EXCEPT ![p] = file[pos[p]].user]
  /\ missing' = missing \ {p}
  /\ UNCHANGED <<file, size, lock, clock, mysid, sid, now, pos, seek, retry, used>>

\* The last turn: the end of the file, or the session has expired.
LookFails(p) ==
  /\ pc[p] = "look"
  /\ \/ pos[p] > size
     \/ pos[p] <= size /\ file[pos[p]].id = sid[p] /\ Expired(file[pos[p]], now[p])
  /\ pc' = [pc EXCEPT ![p] = "refused"]
  /\ UNCHANGED <<file, size, lock, clock, mysid, sid, user, now, pos, seek, retry,
                 used, missing>>

\* Mutant of TouchedEntry: the whole entry is written back, as it was read.
TouchedWhole(p) == [id |-> sid[p], user |-> user[p], time |-> now[p]]

\* "Update the time field (only)".
TouchedEntry(p) == [file[pos[p]] EXCEPT !.time = now[p]]

\* The entry found gets its new time, whatever it holds by now.
LookTouch(p) ==
  /\ pc[p] = "touch"
  /\ file' = [file EXCEPT ![pos[p]] = TouchedEntry(p)]
  /\ used' = IF sid[p] # NoSid /\ file[pos[p]].id = sid[p]
             THEN [used EXCEPT ![sid[p]] = clock] ELSE used
  /\ missing' = missing \ {p}
  /\ Return(p)
  /\ UNCHANGED <<size, lock, clock, mysid>>

\* "authentication expired"
LookRefused(p) ==
  /\ pc[p] = "refused"
  /\ missing' = missing \ {p}
  /\ Return(p)
  /\ UNCHANGED <<file, size, lock, clock, mysid, used>>

-----------------------------------------------------------------------------
(* func_newsession() with a valid password, and new_session().             *)

NewSession(p, u, s) ==
  /\ pc[p] = "script"
  /\ pc' = [pc EXCEPT ![p] = "wantnew"]
  /\ sid' = [sid EXCEPT ![p] = s] /\ user' = [user EXCEPT ![p] = u]
  /\ now' = [now EXCEPT ![p] = clock]
  /\ UNCHANGED <<file, size, lock, clock, mysid, pos, seek, retry, used, missing>>

\* Mutant of Lock: no lock is waited for.
NoLock(p) == lock' = p

\* lock_exclusive().
Lock(p) == lock = NoProc /\ lock' = p

NewLock(p) ==
  /\ pc[p] = "wantnew" /\ Lock(p)
  /\ pc' = [pc EXCEPT ![p] = "scan"]
  /\ UNCHANGED <<file, size, clock, mysid, sid, user, now, pos, seek, retry,
                 used, missing>>

Reusable(e, n) == e.id = NoSid \/ n - e.time > Expire

\* One turn of the loop, no duplicate.
ScanRead(p) ==
  /\ pc[p] = "scan" /\ pos[p] <= size /\ file[pos[p]].id # sid[p]
  /\ seek' = IF seek[p] = 0 /\ Reusable(file[pos[p]], now[p])
             THEN [seek EXCEPT ![p] = pos[p]] ELSE seek
  /\ pos' = [pos EXCEPT ![p] = @ + 1]
  /\ UNCHANGED <<file, size, lock, clock, pc, mysid, sid, user, now, retry,
                 used, missing>>

\* Mutant of MayRetry: one retry too many.
MayRetryMore(p) == retry[p] <= MaxRetry

\* "++retry > 15"
MayRetry(p) == retry[p] < MaxRetry

\* A duplicate: another id, and the scan begins again.
ScanDuplicate(p, s) ==
  /\ pc[p] = "scan" /\ pos[p] <= size /\ file[pos[p]].id = sid[p]
  /\ MayRetry(p)
  /\ retry' = [retry EXCEPT ![p] = @ + 1]
  /\ sid' = [sid EXCEPT ![p] = s]
  /\ pos' = [pos EXCEPT ![p] = 1] /\ seek' = [seek EXCEPT ![p] = 0]
  /\ UNCHANGED <<file, size, lock, clock, pc, mysid, user, now, used, missing>>

\* "can't find new id"
ScanDie(p) ==
  /\ pc[p] = "scan" /\ pos[p] <= size /\ file[pos[p]].id = sid[p]
  /\ ~MayRetry(p)
  /\ Gone(p)

\* The entry is written and the file closed.
NewWrite(p) ==
  LET k == IF seek[p] = 0 THEN size + 1 ELSE seek[p] IN
  /\ pc[p] = "scan" /\ pos[p] > size /\ k <= Slots
  /\ file' = [file EXCEPT ![k] = [id |-> sid[p], user |-> user[p], time |-> now[p]]]
  /\ size' = IF k > size THEN k ELSE size
  /\ used' = [s \in Sids |-> IF s = sid[p] THEN clock
                             ELSE IF s = file[k].id THEN 0 ELSE used[s]]
  /\ Miss(file[k].id)
  /\ mysid' = [mysid EXCEPT ![p] = sid[p]]
  /\ Unlock(p) /\ Return(p)
  /\ UNCHANGED <<clock>>

\* The disk is full and a new entry is not written; new_session() does not
\* look at what write() returns.
NewWriteFails(p) ==
  /\ pc[p] = "scan" /\ pos[p] > size /\ seek[p] = 0
  /\ mysid' = [mysid EXCEPT ![p] = sid[p]]
  /\ Unlock(p) /\ Return(p)
  /\ UNCHANGED <<file, size, clock, used, missing>>

-----------------------------------------------------------------------------
(* func_killsession() and session_delete().                                *)

\* session_delete() is called for my_sid, or for the cookie of a request that
\* has not been authenticated or has an empty my_sid.
KillSession(p) ==
  /\ pc[p] = "script" /\ mysid[p] # NoCookie
  /\ pc' = [pc EXCEPT ![p] = "wantdel"]
  /\ sid' = [sid EXCEPT ![p] = mysid[p]]
  /\ UNCHANGED <<file, size, lock, clock, mysid, user, now, pos, seek, retry,
                 used, missing>>

DelLock(p) ==
  /\ pc[p] = "wantdel" /\ Lock(p)
  /\ pc' = [pc EXCEPT ![p] = "delete"]
  /\ UNCHANGED <<file, size, clock, mysid, sid, user, now, pos, seek, retry,
                 used, missing>>

DelRead(p) ==
  /\ pc[p] = "delete" /\ pos[p] <= size /\ file[pos[p]].id # sid[p]
  /\ pos' = [pos EXCEPT ![p] = @ + 1]
  /\ UNCHANGED <<file, size, lock, clock, pc, mysid, sid, user, now, seek,
                 retry, used, missing>>

\* The entry is read, ...
DelFound(p) ==
  /\ pc[p] = "delete" /\ pos[p] <= size /\ file[pos[p]].id = sid[p]
  /\ pc' = [pc EXCEPT ![p] = "erase"]
  /\ now' = [now EXCEPT ![p] = file[pos[p]].time]
  /\ UNCHANGED <<file, size, lock, clock, mysid, sid, user, pos, seek,
                 retry, used, missing>>

\* ... and written back without its id: its user stays in it, and the time that
\* was read.
DelErase(p) ==
  /\ pc[p] = "erase"
  /\ file' = [file EXCEPT ![pos[p]] = [@ EXCEPT !.id = NoSid, !.time = now[p]]]
  /\ used' = [s \in Sids |-> IF s = sid[p] THEN 0 ELSE used[s]]
  /\ Miss(sid[p])
  /\ Unlock(p) /\ Return(p)
  /\ UNCHANGED <<size, clock, mysid>>

\* Mutant of DelNone: an erased entry is taken for the end of the file.
DelNoneEarly(p) ==
  /\ pc[p] = "delete" /\ (pos[p] <= size => file[pos[p]].id = NoSid)
  /\ Unlock(p) /\ Return(p)
  /\ UNCHANGED <<file, size, clock, mysid, used, missing>>

\* "It is not an error if it does not exist."
DelNone(p) ==
  /\ pc[p] = "delete" /\ pos[p] > size
  /\ Unlock(p) /\ Return(p)
  /\ UNCHANGED <<file, size, clock, mysid, used, missing>>

-----------------------------------------------------------------------------
\* The script ends.
Exit(p) == pc[p] = "script" /\ Gone(p)

\* The process is killed, wherever it is.
Crash(p) == pc[p] # "idle" /\ Gone(p)

\* A second passes; no call takes longer than Lifetime.
Tick ==
  /\ clock < MaxClock
  /\ \A p \in Proc : pc[p] \in InCall => clock < now[p] + Lifetime
  /\ clock' = clock + 1
  /\ UNCHANGED <<file, size, lock, used, missing>> /\ UNCHANGED procvars

CallStep(p) ==
  \/ LookNext(p) \/ LookFound(p) \/ LookFails(p) \/ LookTouch(p) \/ LookRefused(p)
  \/ NewLock(p) \/ ScanRead(p) \/ (\E s \in Sids : ScanDuplicate(p, s)) \/ ScanDie(p)
  \/ NewWrite(p) \/ NewWriteFails(p)
  \/ DelLock(p) \/ DelRead(p) \/ DelFound(p) \/ DelErase(p) \/ DelNone(p)

Script(p) ==
  \/ (\E s \in Cookies \cup {NoCookie} : Anonymous(p, s))
  \/ (\E s \in Cookies : Lookup(p, s))
  \/ (\E u \in Users : \E s \in Sids : NewSession(p, u, s))
  \/ KillSession(p) \/ Exit(p) \/ Crash(p)

Next == (\E p \in Proc : CallStep(p) \/ Script(p)) \/ Tick

Spec == Init /\ [][Next]_vars

-----------------------------------------------------------------------------
(* Properties.                                                             *)

PCs == {"idle", "script", "look", "touch", "refused", "wantnew", "scan",
        "wantdel", "delete", "erase"}

\* Types, and positions that stay inside the file: the entry that a lookup or
\* a login has remembered exists when it is written.
SessTypeOK ==
  /\ file \in [1 .. Slots -> Entries] /\ size \in 0 .. Slots
  /\ lock \in Proc \cup {NoProc} /\ clock \in 0 .. MaxClock
  /\ pc \in [Proc -> PCs]
  /\ mysid \in [Proc -> Cookies \cup {NoCookie}]
  /\ sid \in [Proc -> Cookies] /\ user \in [Proc -> Users \cup {NoUser}]
  /\ now \in [Proc -> 0 .. MaxClock] /\ pos \in [Proc -> 1 .. Slots + 1]
  /\ seek \in [Proc -> 0 .. Slots] /\ retry \in [Proc -> 0 .. MaxRetry]
  /\ used \in [Sids -> 0 .. MaxClock] /\ missing \subseteq Proc
  /\ \A p \in Proc : pc[p] = "touch" => pos[p] <= size

\* No id is in the file twice: new_session() looks for a duplicate and writes
\* its entry under one lock.
UniqueIds ==
  \A i, j \in 1 .. size : file[i].id = file[j].id /\ file[i].id # NoSid => i = j

\* The time in an entry is that of the last use, give or take the length of
\* a call: stale lookups, whose write may even hit another session, neither
\* keep a session alive nor end it.
TimeHonest ==
  \A i \in 1 .. size :
    file[i].id # NoSid => /\ file[i].time <= used[file[i].id]
                          /\ used[file[i].id] <= file[i].time + Lifetime

\* When session_delete() returns, the session is gone.
KilledIsGone ==
  [][\A p \in Proc :
       pc[p] \in {"delete", "erase"} /\ pc'[p] = "script" /\ sid[p] # NoSid =>
         ~ \E i \in 1 .. size' : file'[i].id = sid[p]]_vars

-----------------------------------------------------------------------------
(* The table of Sessions, as the file and the lookups in progress have it. *)

\* The user in the entry with id s, of the first n entries of f.
OwnerIn(f, n, s) ==
  IF \E i \in 1 .. n : f[i].id = s
  THEN f[CHOOSE i \in 1 .. n : f[i].id = s].user
  ELSE NoUser

OwnerMap == [s \in Sids |-> OwnerIn(file, size, s)]
DoomedMap == {s \in Sids : \E p \in Proc : /\ pc[p] = "scan" /\ seek[p] # 0
                                           /\ file[seek[p]].id = s}
AskedMap == [p \in Proc |-> IF Asking(p) THEN sid[p] ELSE NoCookie]
BegunMap == [p \in Proc |-> IF Asking(p) THEN now[p] ELSE 0]
AnswerMap == [p \in Proc |-> IF pc[p] = "touch" THEN user[p]
                             ELSE IF pc[p] = "refused" THEN NoUser ELSE Pending]
LeftMap == {file[i].user : i \in {j \in 1 .. size : file[j].id = NoSid}}

Store == INSTANCE Sessions WITH
  Lag <- Lifetime, owner <- OwnerMap, doomed <- DoomedMap, asked <- AskedMap,
  begun <- BegunMap, answer <- AnswerMap, left <- LeftMap

\* The file implements the table: every request with a session id gets the user
\* its session was issued to, no live session is refused or replaced, no dead one
\* accepted, although lookups take no lock and write after others have.  Only an
\* empty cookie gets the user of an ended session that the file has left over.
StoreSpec == Store!SessionsSpec
=============================================================================
