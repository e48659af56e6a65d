------------------------------- MODULE WrtTmp -------------------------------
(***************************************************************************)
(* The wrttmp file of Orville write, which says who is writing whom:       *)
(* src/contrib/orville/orville-write-2.55.  Each tty has an entry; write,  *)
(* amin and mesg change the one of the tty they run on.  write and amin    *)
(* remember the entry and the mode of the tty, put temporary ones in       *)
(* place, and put the old ones back when they end or are stopped (^Z).     *)
(* They may run inside one another: write in a shell escape of write, or   *)
(* below amin.  No program locks the file.                                 *)
(*                                                                         *)
(* Modelled as built with TTYPERMS and JOB_CONTROL.  Of the preferences in *)
(* an entry only wrt_record is kept: mesg sets, and the others copy, all   *)
(* of them alike, and -p changes this one.  wrt_last is left out.  Whether *)
(* the writee accepts is a choice (exception files, root password, recent  *)
(* telegrams).  On a tty one job runs at a time, started by the shell that *)
(* reads the tty; there is no job in the background.                       *)
(***************************************************************************)
EXTENDS Integers, Sequences, FiniteSets

CONSTANTS Proc, NoProc,
          Line, NoLine,
          Tty,         \* the line a process runs on
          User, NoUser,
          Command,     \* wrt_what of amin: "!" and a name, never a user's
          Invoked,     \* bound: the command lines of each process
          MaxLogins    \* bound: the logins on each line

\* Command lines.  tmp and post are for write and amin: -n and -y (tmp_mesg), -p
\* (postpone); the rest is what mesg sets, and whether it disconnects.
Commands == [prog : {"write", "tel", "amin", "mesg"}, tmp : {"s", "n", "y"}, post : BOOLEAN,
             perms : {{}} \cup {{v} : v \in BOOLEAN}, recs : {{}, {"y"}, {"n"}},
             disconnect : BOOLEAN]

ASSUME WrtAssumption ==
  /\ NoProc \notin Proc /\ NoUser \notin User /\ Command \notin User \cup {NoUser}
  /\ Tty \in [Proc -> Line] /\ NoLine \notin Line
  /\ Invoked \in [Proc -> SUBSET Commands]
  /\ MaxLogins \in [Line -> Nat]

VARIABLES
  owner,   \* utmp: who is on a line
  time,    \* utmp: when he logged in, in logins on the line
  perm,    \* is the tty writable for others?
  file,    \* the entries of wrttmp
  proc,    \* the processes
  early,   \* amin where ^Z has struck before its modes were in place; else Idle
  \* History:
  want,    \* what the user of a line has set with mesg, to last
  upset,   \* lines on which one of the accidents named below has happened
  raced    \* two lines' processes have taken the same new slot, or an amin that
           \* was stopped early has gone on and written where it must not

vars == <<owner, time, perm, file, proc, early, want, upset, raced>>
utmp == <<owner, time>>

-----------------------------------------------------------------------------
(* Entries.                                                                *)

Record == {"n", "y", "a"}
Entry == [line : Line \cup {NoLine}, time : Nat, what : User \cup {NoUser, Command},
          pid : Proc \cup {NoProc}, rec : Record]

\* dflt_wrttmp()
Default(l, t) == [line |-> l, time |-> t, what |-> NoUser, pid |-> NoProc, rec |-> "n"]

\* newwrt of amin before it is set: zero.
Blank == [line |-> NoLine, time |-> 0, what |-> NoUser, pid |-> NoProc, rec |-> "n"]

SlotsOf(l) == {i \in 1 .. Len(file) : file[i].line = l}

\* A plausible mistake: an entry of an earlier login is left alone.
FreshSlotOf(l) ==
  LET S == {i \in SlotsOf(l) : file[i].time = time[l]}
  IN  IF S = {} THEN Len(file) + 1 ELSE CHOOSE i \in S : \A j \in S : i <= j

\* A plausible mistake: the slot after the end (++slot).
SlotBeyond(l) ==
  LET S == SlotsOf(l)
  IN  IF S = {} THEN Len(file) + 2 ELSE CHOOSE i \in S : \A j \in S : i <= j

\* find_wrttmp(): the first entry of the line, or the end of the file.  The loop
\* is one step: it ends on the read that decides, and what it has passed belongs
\* to other lines for good, unless two of them have raced for a slot.
SlotOf(l) ==
  LET S == SlotsOf(l)
  IN  IF S = {} THEN Len(file) + 1 ELSE CHOOSE i \in S : \A j \in S : i <= j

\* find_wrttmp(): the entry, or the default if there is none of this login.
EntryOf(l) ==
  LET i == SlotOf(l)
  IN  IF i <= Len(file) /\ file[i].time = time[l] THEN file[i] ELSE Default(l, time[l])

-----------------------------------------------------------------------------
(* Processes.                                                              *)

\* A process that does not run.
Idle == [pc |-> "out", him |-> NoUser,
         cmd |-> [prog |-> "write", tmp |-> "s", post |-> FALSE, perms |-> {}, recs |-> {},
                  disconnect |-> FALSE],
         mypos |-> 0, mywrt |-> Default(CHOOSE l \in Line : TRUE, 0), myperm |-> FALSE,
         fixed |-> FALSE, was |-> "talk", sig |-> "none", slot |-> 0,
         above |-> {}, keep |-> [perm |-> TRUE, rec |-> TRUE]]

Process ==
  [pc : {"out", "ask", "talk", "shell", "stopped", "wake", "scan"},
   cmd : Commands, him : User \cup {NoUser},        \* hisname; mesg: myutmp.ut_user
   mypos : Nat, mywrt : Entry,      \* my entry: where it is, what it was
   myperm : BOOLEAN,                \* myperms
   fixed : BOOLEAN,                 \* fixed_modes
   was : {"talk", "shell"},         \* where ^Z has struck
   sig : {"none", "stop", "cont", "end"},   \* a signal on its way
   slot : Nat,                      \* mesg: the entry do_disconnect() is at
   above : SUBSET Proc,             \* the processes in whose shells it runs
   keep : [perm : BOOLEAN, rec : BOOLEAN]]  \* history: mesg lasts here

Stopped(p) == proc[p].pc = "stopped" /\ proc[p].sig # "cont"
\* The processes of the present login of a line.
Live(l) == {p \in Proc : /\ Tty[p] = l /\ proc[p].pc # "out"
                         /\ proc[p].mywrt.time = time[l]}
Below(p) == {q \in Proc : p \in proc[q].above}
\* Its temporary modes are in place.
InPlace(p) == proc[p].pc \in {"talk", "shell"}
\* It is in the foreground.
Front(p) == /\ p \in Live(Tty[p]) /\ ~ Stopped(p)
            /\ \A q \in Below(p) : Stopped(q)
\* The processes in whose shells the shell runs that reads the tty.
Prompts(l) ==
  IF \A q \in Live(l) : Stopped(q)
  THEN {{}}
  ELSE {proc[e].above \cup {e} : e \in {f \in Live(l) :
          Front(f) /\ proc[f].pc = "shell" /\ proc[f].sig = "none"}}

\* The login has ended, and another one begun.
Late(p) == proc[p].mywrt.time # time[Tty[p]]

\* write() at mypos.
Put(p, e) ==
  file' = IF proc[p].mypos = Len(file) + 1 THEN Append(file, e)
                                           ELSE [file EXCEPT ![proc[p].mypos] = e]

\* chmod() of the tty: after the login it fails, unless the user is the same.
Chmod(p, v) ==
  \/ perm' = [perm EXCEPT ![Tty[p]] = v]
  \/ Late(p) /\ UNCHANGED perm


\* History: an accident, or a write to the entry of a later login.
Mark(p, accident) == upset' = IF accident \/ Late(p) THEN upset \cup {Tty[p]} ELSE upset

\* The temporary entry: tmpwrt of write, newwrt of amin.
Temp(p) ==
  LET e == [proc[p].mywrt EXCEPT !.rec = IF proc[p].cmd.post THEN "a" ELSE @]
  IN  IF proc[p].cmd.prog = "amin" THEN [e EXCEPT !.what = Command]
                               ELSE [e EXCEPT !.what = proc[p].him, !.pid = p]
TempPerm(p, v) == IF proc[p].cmd.tmp = "s" THEN v ELSE proc[p].cmd.tmp = "y"

\* setperms(tmp_mesg)
SetPerms(p) ==
  IF proc[p].cmd.tmp = "s" THEN UNCHANGED perm ELSE Chmod(p, proc[p].cmd.tmp = "y")

\* Process p becomes r; when it ends, those in its shell are orphans.
Becomes(p, r) == proc' = [proc EXCEPT ![p] = r]
Ends(S) == proc' = [q \in Proc |->
  IF q \in S THEN Idle ELSE [proc[q] EXCEPT !.above = @ \ S]]

\* reset_modes(), restore_modes(): the old entry, and the old mode of the tty.
PutBack(p) == Put(p, proc[p].mywrt) /\ Chmod(p, proc[p].myperm)

\* What a process puts back; amin leaves the mode alone if it has not set one.
Restore(p) ==
  IF proc[p].cmd.prog = "amin" /\ proc[p].cmd.tmp = "s"
  THEN Put(p, proc[p].mywrt) /\ UNCHANGED perm
  ELSE PutBack(p)

\* History: mesg was used in the shell, and update_modes() has not seen it yet.
Unseen(p) ==
  /\ proc[p].pc = "shell" /\ proc[p].cmd.prog = "write" /\ proc[p].cmd.tmp = "s"
  /\ file[proc[p].mypos] # Temp(p) \/ perm[Tty[p]] # TempPerm(p, proc[p].myperm)

-----------------------------------------------------------------------------
(* A program starts: main() of write to find_me(), find_me() of mesg,      *)
(* fix_modes() of amin to locate_wrttmp().                                 *)

Start(p) ==
  LET l == Tty[p] IN
  \E c \in Invoked[p], shells \in Prompts(l) :
    /\ proc[p].pc = "out" /\ early[p] = Idle /\ owner[l] # NoUser
    /\ Becomes(p, [Idle EXCEPT
         !.pc = "ask", !.cmd = c, !.above = shells,
         !.mypos = SlotOf(l), !.mywrt = EntryOf(l),
         !.myperm = c.prog \in {"write", "amin"} /\ perm[l],
         !.keep = [perm |-> \A e \in shells : proc[e].cmd.tmp = "s",
                   rec  |-> \A e \in shells : proc[e].cmd.tmp = "s" /\ proc[e].cmd.prog = "write"]])
    /\ raced' = (raced \/ \E q \in Proc : /\ proc[q].pc # "out" /\ Tty[q] # l
                                          /\ proc[q].mypos = SlotOf(l))
    /\ UNCHANGED <<utmp, perm, file, want, upset>>

\* done() before set_modes(): nobody to write, or not accepted, or not wanted.
Leave(p) ==
  /\ proc[p].pc = "ask"
  /\ Ends({p})
  /\ UNCHANGED <<utmp, perm, file, want, upset, raced>>

\* set_modes() of write, after find_us(); and when it is resumed.
SetModes(p) ==
  LET r == proc[p] IN
  /\ r.cmd.prog = "write" /\ r.pc \in {"ask", "wake"}
  /\ \E him \in IF r.pc = "wake" THEN {r.him} ELSE {owner[l] : l \in Line} \ {NoUser} :
       LET n == [r EXCEPT !.him = him, !.fixed = TRUE,
                          !.pc = IF @ = "wake" THEN r.was ELSE "talk", !.was = "talk"] IN
       /\ Becomes(p, n)
       /\ Put(p, [Temp(p) EXCEPT !.what = him])
  /\ SetPerms(p)
  /\ Mark(p, FALSE)
  /\ UNCHANGED <<utmp, want, raced>>

\* set_modes() of a telegram: the entry is written only for wrt_last.
Tel(p) ==
  /\ proc[p].pc = "ask" /\ proc[p].cmd.prog = "tel"
  /\ Put(p, proc[p].mywrt) \/ UNCHANGED file
  /\ Mark(p, FALSE)
  /\ Ends({p})
  /\ UNCHANGED <<utmp, perm, want, raced>>

\* fix_modes() of amin; its command runs.
Amin(p) ==
  /\ proc[p].pc = "ask" /\ proc[p].cmd.prog = "amin"
  /\ Put(p, Temp(p))
  /\ SetPerms(p)
  /\ Becomes(p, [proc[p] EXCEPT !.pc = "shell", !.fixed = TRUE])
  /\ Mark(p, FALSE)
  /\ UNCHANGED <<utmp, want, raced>>

-----------------------------------------------------------------------------
(* mesg.                                                                   *)

Sets(new, v, old) == IF new = {} THEN v = old ELSE v \in new

\* main(): the mode of the tty and wrt_record are set, or other preferences, or
\* nothing; then it is done, or, with d and N, goes on to do_disconnect().
Mesg(p) ==
  LET l == Tty[p]
      r == proc[p]
  IN
  /\ r.pc = "ask" /\ r.cmd.prog = "mesg"
  /\ IF r.cmd.perms = {} THEN UNCHANGED perm ELSE \E v \in r.cmd.perms : Chmod(p, v)
  /\ \/ \E c \in IF r.cmd.recs = {} THEN {r.mywrt.rec} ELSE r.cmd.recs :
          Put(p, [r.mywrt EXCEPT !.rec = c])
     \/ r.cmd.perms = {} /\ r.cmd.recs = {} /\ UNCHANGED file
  /\ want' = IF Late(p) THEN want ELSE [want EXCEPT
       ![l].perm = IF r.keep.perm THEN CHOOSE v \in BOOLEAN : Sets(r.cmd.perms, v, @) ELSE @,
       ![l].rec = IF r.keep.rec THEN CHOOSE c \in {"y", "n"} : Sets(r.cmd.recs, c, @) ELSE @]
  /\ IF r.cmd.disconnect THEN Becomes(p, [r EXCEPT !.pc = "scan", !.slot = 1, !.him = owner[l]])
                         ELSE Ends({p})
  /\ Mark(p, FALSE)
  /\ UNCHANGED <<utmp, raced>>

\* SIGTERM reaches write when it has called siginit(), and ends it; the other
\* programs have not written, or ignore it.
Signalled(q) ==
  proc[q].cmd.prog = "write" /\ proc[q].pc \in {"talk", "shell", "stopped", "wake"}

\* do_disconnect(): one entry is read; the process in it is sent SIGTERM if it
\* writes me and the line is in utmp.
Disconnect(p) ==
  LET r == proc[p]
      e == file[r.slot]
      next == [r EXCEPT !.slot = @ + 1]
  IN
  /\ r.pc = "scan" /\ r.slot <= Len(file)
  /\ proc' = IF e.what = r.him /\ owner[e.line] # NoUser /\ e.pid # NoProc /\ Signalled(e.pid)
             THEN [proc EXCEPT ![p] = next, ![e.pid].sig = "end"]
             ELSE [proc EXCEPT ![p] = next]
  /\ UNCHANGED <<utmp, perm, file, want, upset, raced>>

MesgEnds(p) ==
  /\ proc[p].pc = "scan" /\ proc[p].slot > Len(file)
  /\ Ends({p})
  /\ UNCHANGED <<utmp, perm, file, want, upset, raced>>

-----------------------------------------------------------------------------
(* Shell escapes and the end.                                              *)

\* dosystem() starts a shell.
Escape(p) ==
  /\ proc[p].pc = "talk" /\ proc[p].cmd.prog = "write" /\ proc[p].sig = "none"
  /\ Becomes(p, [proc[p] EXCEPT !.pc = "shell"])
  /\ UNCHANGED <<utmp, perm, file, want, upset, raced>>

\* A plausible mistake: all of the entry is copied.
UpdatedWhole(p) == [proc[p] EXCEPT !.mywrt = file[proc[p].mypos], !.myperm = perm[Tty[p]]]

\* A plausible mistake: the mode of the tty is not saved again.
UpdatedFileOnly(p) == [proc[p] EXCEPT !.mywrt.rec = file[proc[p].mypos].rec]

\* update_modes(): what the user has set in the meantime is to last.
Updated(p) == [proc[p] EXCEPT !.mywrt.rec = file[proc[p].mypos].rec, !.myperm = perm[Tty[p]]]

\* The shell of write ends.  Accident: with -p, update_modes() takes the
\* temporary wrt_record for the user's.
Return(p) ==
  LET r == proc[p]
      n == IF r.cmd.tmp = "s" THEN Updated(p) ELSE r
  IN
  /\ r.pc = "shell" /\ r.cmd.prog = "write" /\ Below(p) = {}
  /\ Becomes(p, [n EXCEPT !.pc = "talk"])
  /\ Mark(p, r.cmd.post /\ n.mywrt.rec = "a" /\ r.mywrt.rec # "a")
  /\ UNCHANGED <<utmp, perm, file, want, raced>>

\* The command of amin ends: restore_modes().
AminEnds(p) ==
  /\ proc[p].pc = "shell" /\ proc[p].cmd.prog = "amin" /\ Below(p) = {}
  /\ Restore(p)
  /\ Ends({p})
  /\ Mark(p, FALSE)
  /\ UNCHANGED <<utmp, want, raced>>

\* End of file: done().
Exit(p) ==
  /\ proc[p].pc = "talk"
  /\ Restore(p)
  /\ Ends({p})
  /\ Mark(p, FALSE)
  /\ UNCHANGED <<utmp, want, raced>>

\* intr(): SIGTERM or SIGHUP.  Accidents: it ends over the heads of those in its
\* shell, or before it has seen what mesg has done there.
End(p) ==
  /\ proc[p].pc # "out" /\ proc[p].sig = "end"
  /\ IF proc[p].fixed THEN Restore(p) ELSE UNCHANGED <<file, perm>>
  /\ Mark(p, Below(p) # {} \/ Unseen(p))
  /\ Ends({p})
  /\ UNCHANGED <<utmp, want, raced>>

\* kill -9.
Kill(p) ==
  /\ proc[p].pc # "out"
  /\ Mark(p, InPlace(p) \/ Below(p) # {})
  /\ Ends({p})
  /\ UNCHANGED <<utmp, perm, file, want, raced>>

-----------------------------------------------------------------------------
(* ^Z and fg.                                                              *)

\* ^Z goes to the process in the foreground, whose shell, if it runs in one, has
\* job control; or also to those whose shells, without job control, it runs in.
Stop(p) ==
  \E S \in {{p}, {p} \cup proc[p].above} :
    /\ Front(p) /\ InPlace(p) /\ \A q \in S : InPlace(q) /\ proc[q].sig = "none"
    /\ \A q \in S : Below(q) \subseteq S
    /\ S = {p} => Below(p) = {}
    /\ proc' = [q \in Proc |-> IF q \in S THEN [proc[q] EXCEPT !.sig = "stop"] ELSE proc[q]]
    /\ UNCHANGED <<utmp, perm, file, want, upset, raced>>

\* susp(), to where the process stops.  Accidents: it does so while something
\* below it runs, or before it has seen what mesg has done in its shell; or amin,
\* which has been stopped before, leaves its modes in place.
Susp(p) ==
  /\ proc[p].sig = "stop" /\ InPlace(p)
  /\ IF proc[p].fixed THEN Restore(p) ELSE UNCHANGED <<file, perm>>
  /\ Becomes(p, [proc[p] EXCEPT !.sig = "none", !.pc = "stopped", !.was = proc[p].pc,
                                !.fixed = FALSE])
  /\ Mark(p, \/ \E q \in Below(p) : proc[q].pc # "stopped"
             \/ Unseen(p) \/ ~ proc[p].fixed)
  /\ UNCHANGED <<utmp, want, raced>>

\* fg: a job that this shell has started goes on, all of it.
Fg(p) ==
  /\ Stopped(p) /\ proc[p].sig = "none" /\ p \in Live(Tty[p])
  /\ proc[p].above \in Prompts(Tty[p])
  /\ proc' = [q \in Proc |-> IF q = p \/ (q \in Below(p) /\ proc[q].sig = "none")
                             THEN [proc[q] EXCEPT !.sig = "cont"] ELSE proc[q]]
  /\ UNCHANGED <<utmp, perm, file, want, upset, raced>>

\* Accident: it goes on before those above it have put their modes in place.
Wakes(p) ==
  /\ proc[p].pc = "stopped" /\ proc[p].sig = "cont"
  /\ UNCHANGED <<utmp, want, raced>>

\* The rest of susp() of write, to set_modes().
WriteWakes(p) ==
  /\ Wakes(p) /\ proc[p].cmd.prog = "write"
  /\ Becomes(p, [Updated(p) EXCEPT !.pc = "wake", !.sig = "none"])
  /\ Mark(p, \E e \in proc[p].above : ~ InPlace(e))
  /\ UNCHANGED <<file, perm>>

\* The rest of susp() of amin.  Accident: mesg has been used meanwhile, and the
\* old entry is written over what it has set; fixed_modes stays FALSE.
AminWakes(p) ==
  /\ Wakes(p) /\ proc[p].cmd.prog = "amin"
  /\ Put(p, Temp(p))
  /\ SetPerms(p)
  /\ Becomes(p, [proc[p] EXCEPT !.sig = "none", !.pc = "shell", !.was = "talk",
                   !.myperm = IF proc[p].cmd.tmp = "s" THEN @ ELSE perm[Tty[p]]])
  /\ Mark(p, \/ \E e \in proc[p].above : ~ InPlace(e)
             \/ file[proc[p].mypos].rec # proc[p].mywrt.rec)

-----------------------------------------------------------------------------
(* Halfway through set_modes() and reset_modes(), fix_modes() and          *)
(* restore_modes(), which are one step elsewhere.                          *)

\* Where amin is when it goes through fix_modes(), or the rest of susp().
Fixing(p) == proc[p].pc = "ask" \/ (proc[p].pc = "stopped" /\ proc[p].sig = "cont")

\* Accident: it is killed there, or a signal ends write while fixed_modes does not
\* say what is in place: in reset_modes(), also as susp() calls it, between the
\* entry and the mode, in set_modes() between the mode and the entry.  Or amin had
\* ^Z in restore_modes(), and susp() has put the temporary modes in place again.
Halfway(p) ==
  LET r == proc[p] IN
  /\ \/ r.cmd.prog \in {"write", "amin"} /\ InPlace(p) /\ Put(p, r.mywrt) /\ UNCHANGED perm
     \/ r.cmd.prog = "write" /\ r.pc \in {"ask", "wake"} /\ SetPerms(p) /\ UNCHANGED file
     \/ /\ r.cmd.prog = "amin" /\ Fixing(p)
        /\ Put(p, Temp(p)) \/ (r.pc = "stopped" /\ (Put(p, r.mywrt) \/ UNCHANGED file))
        /\ UNCHANGED perm \/ SetPerms(p)
  /\ Mark(p, TRUE)
  /\ Ends({p})
  /\ UNCHANGED <<utmp, want, raced>>

\* ^Z strikes amin before fix_modes() is through: susp() undoes nothing, as
\* fixed_modes is still FALSE.  For the others it is as if it had gone, until it goes on.
\* (Before init_wstream() it does no harm, and is left out.)
EarlyStop(p) ==
  /\ proc[p].pc = "ask" /\ proc[p].cmd.prog = "amin"
  /\ Leave(p) \/ Halfway(p)
  /\ early' = [early EXCEPT ![p] = proc[p]]

\* What newwrt may be in r, as far as fix_modes() has set it.
NewWrt(r) ==
  LET e == [r.mywrt EXCEPT !.what = Command]
  IN  {Blank, r.mywrt, e} \cup {[e EXCEPT !.rec = "a"] : post \in {r.cmd.post} \cap {TRUE}}

\* The rest of susp() then: newwrt is written where wrttmp is positioned, at the
\* first entry, at one that find_wrttmp() is just looking at (mypos is its loop
\* variable) or at its own; and the mode is set.  It dies, as mydevname is not yet
\* known, or goes on with fix_modes(), with the entry that it had found or finds
\* from there on.
Astray(p) ==
  LET r == early[p]
      l == Tty[p]
  IN
  /\ r # Idle
  /\ early' = [early EXCEPT ![p] = Idle]
  /\ \E k \in 1 .. r.mypos, e \in NewWrt(r) :
       /\ e = Blank \/ k = r.mypos
       /\ file' = IF k = Len(file) + 1 THEN Append(file, e) ELSE [file EXCEPT ![k] = e]
       /\ \/ r.cmd.tmp # "s" /\ UNCHANGED <<proc, perm>>
          \/ \E m \in k .. Len(file') + 1, w \in {r.mywrt, Default(l, r.mywrt.time)}
                                               \cup {file'[i] : i \in SlotsOf(l)'} :
               /\ proc' = [proc EXCEPT ![p] = [r EXCEPT !.mypos = m, !.mywrt = w, !.above = {},
                              !.myperm = IF r.cmd.tmp = "s" THEN @ ELSE r.cmd.tmp = "y"]]
               /\ IF r.cmd.tmp = "s" THEN UNCHANGED perm
                  ELSE perm' = [perm EXCEPT ![l] = (r.cmd.tmp = "y")]
  /\ raced' = TRUE
  /\ UNCHANGED <<utmp, want, upset>>

-----------------------------------------------------------------------------
(* Logins.                                                                 *)

\* SIGHUP: write ends if it has called siginit(), amin ignores it, and goes on if
\* it was stopped; the others die.
Logout(l) ==
  LET dying == {p \in Live(l) : proc[p].pc \in {"ask", "scan"}} IN
  /\ owner[l] # NoUser
  /\ owner' = [owner EXCEPT ![l] = NoUser]
  /\ proc' = [p \in Proc |->
       IF p \in dying THEN Idle
       ELSE [proc[p] EXCEPT
               !.above = @ \ dying,
               !.sig = IF p \notin Live(l) THEN @
                       ELSE IF proc[p].cmd.prog = "write" THEN "end"
                       ELSE IF proc[p].pc = "stopped" THEN "cont" ELSE @]]
  /\ UNCHANGED <<time, perm, file, want, upset, raced>>

\* login makes the tty writable.
Login(l) ==
  /\ owner[l] = NoUser /\ time[l] < MaxLogins[l]
  /\ \E u \in User : owner' = [owner EXCEPT ![l] = u]
  /\ time' = [time EXCEPT ![l] = @ + 1]
  /\ perm' = [perm EXCEPT ![l] = TRUE]
  /\ want' = [want EXCEPT ![l] = [perm |-> TRUE, rec |-> "n"]]
  /\ upset' = upset \ {l}
  /\ UNCHANGED <<file, proc, raced>>

-----------------------------------------------------------------------------
Init ==
  /\ owner = [l \in Line |-> NoUser] /\ time = [l \in Line |-> 0]
  /\ perm = [l \in Line |-> FALSE]
  /\ file = << >> /\ proc = [p \in Proc |-> Idle] /\ early = proc
  /\ want = [l \in Line |-> [perm |-> TRUE, rec |-> "n"]]
  /\ upset = {} /\ raced = FALSE

Step ==
  \/ \E p \in Proc : \/ Start(p) \/ Leave(p) \/ SetModes(p) \/ Tel(p) \/ Amin(p)
                     \/ Mesg(p) \/ Disconnect(p) \/ MesgEnds(p)
                     \/ Escape(p) \/ Return(p) \/ AminEnds(p) \/ Exit(p) \/ End(p)
                     \/ Kill(p) \/ Stop(p) \/ Susp(p) \/ Fg(p)
                     \/ WriteWakes(p) \/ AminWakes(p) \/ Halfway(p)
  \/ \E l \in Line : Logout(l) \/ Login(l)

Next == (Step /\ UNCHANGED early) \/ \E p \in Proc : EarlyStop(p) \/ Astray(p)

Spec == Init /\ [][Next]_vars

-----------------------------------------------------------------------------
(* Properties.                                                             *)

\* What an amin that has been stopped early will write with.
EarlyTypeOK ==
  /\ early \in [Proc -> Process]
  /\ \A p \in Proc : early[p] # Idle => /\ early[p].pc = "ask" /\ early[p].mywrt.line = Tty[p]
                                         /\ early[p].mypos \in 1 .. Len(file) + 1

\* The variables have their types, and no process will write beyond the end of
\* the file: lseek() and write() of wrttmp leave no hole.
WrtTypeOK ==
  /\ owner \in [Line -> User \cup {NoUser}] /\ time \in [Line -> Nat]
  /\ perm \in [Line -> BOOLEAN] /\ file \in Seq(Entry) /\ proc \in [Proc -> Process]
  /\ want \in [Line -> [perm : BOOLEAN, rec : {"y", "n"}]]
  /\ upset \subseteq Line /\ raced \in BOOLEAN
  /\ \A p \in Proc : proc[p].pc # "out" => proc[p].mypos \in 1 .. Len(file) + 1
  /\ EarlyTypeOK

\* A line has one entry, whoever of the processes on it makes it, and whichever
\* writes it late; unless processes of two lines, both new, have found the same
\* end of the file (find_wrttmp(), and write() of the entry long afterwards), or an
\* amin that ^Z struck before its modes were in place has gone on (its susp()).
OneEntryUnlessRaced ==
  raced \/ \A i, j \in 1 .. Len(file) : file[i].line = file[j].line => i = j

\* What a line's entry says is so at any time: the user who is being written, by
\* the process to be disconnected, is the one that the innermost write has
\* connected to; amin is shown while it runs; and nothing is shown when they have
\* ended or stopped, in whatever nesting, and during and after ^Z, fg and SIGTERM
\* (set_modes(), reset_modes()): but for the accidents in upset and raced, which
\* are those of End, Kill, Susp, the Wakes, Halfway and Astray.
ShownIsTrue ==
  \A l \in Line \ upset :
    LET on == {p \in Live(l) : InPlace(p)}
        top == {p \in on : Below(p) \cap on = {}}
        e == EntryOf(l)
    IN  owner[l] # NoUser /\ ~ raced =>
          IF on = {} THEN e.what = NoUser
          ELSE \E p \in top : /\ top = {p} /\ e.what = Temp(p).what
                              /\ proc[p].cmd.prog = "write" => e.pid = p

\* When nothing runs on a line, or all of it is stopped, the mode of the tty and
\* the preference in the entry are those that the user has last set with mesg,
\* at the prompt or in a shell escape from which they are kept (update_modes()):
\* but for the same accidents, among them a signal halfway through reset_modes().
ModesPutBack ==
  \A l \in Line \ upset :
    owner[l] # NoUser /\ ~ raced /\ (\A p \in Live(l) : Stopped(p) \/ proc[p].pc = "ask") =>
      perm[l] = want[l].perm /\ EntryOf(l).rec = want[l].rec
=============================================================================
