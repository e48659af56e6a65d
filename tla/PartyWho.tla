------------------------------ MODULE PartyWho ------------------------------
(***************************************************************************)
(* The pwho file of party 2.13, contrib/party/party-2.13/users.c: who is   *)
(* on which channel.                                                       *)
(*                                                                         *)
(* The file has one entry per tty: a header with the tty and the login     *)
(* name, and NSub subentries, one per invocation of party on that tty.  No *)
(* lock guards it.  A step is one read or write of the file: the stream is *)
(* repositioned before each of them, so that it never reads stale blocks,  *)
(* and an entry is read, or cleared, as a whole.                           *)
(*                                                                         *)
(* An entry counts if its user owns its tty, a subentry if its alias is    *)
(* not null.  Who runs party after su does not own his tty, and who runs   *)
(* it without a tty has the line "(none)", which nobody owns: neither is   *)
(* kept from joining.  Aliases, shell commands and times are left out,     *)
(* except that a subentry keeps the login during which its process was     *)
(* started.                                                                *)
(***************************************************************************)
EXTENDS Integers, Sequences, FiniteSets

CONSTANTS Proc,      \* invocations of party
          Tty,       \* ttys, and "(none)", which is no tty
          Line,      \* Line[p]: the tty of invocation p
          Users,     \* login names
          User,      \* User[p]: who runs invocation p
          Names,     \* Users, and what finduser() may leave of a login name
          LogName,   \* LogName[u]: what it leaves of u
          Channels,  \* names of channels
          None,      \* no process, no user, no channel, no owner
          NSub,      \* SUB_PARTY
          Capacity,  \* the capacity option
          Killable,  \* invocations that may be killed
          MaxLogin   \* bound: logins on one tty

ASSUME PeopleAssumption ==
  /\ Line \in [Proc -> Tty] /\ User \in [Proc -> Users]
  /\ Users \subseteq Names /\ LogName \in [Users -> Names]
  /\ Killable \subseteq Proc
  /\ None \notin Proc \cup Names \cup Channels
ASSUME SizeAssumption ==
  NSub \in Nat \ {0} /\ Capacity \in Nat /\ MaxLogin \in Nat

VARIABLES
  file,    \* the pwho file: a sequence of entries
  tail,    \* number of subentries of the last entry that are within the file
  owner,   \* per tty: the user logged in, None if it is no tty
  login,   \* per tty: number of logins so far
  pc,      \* per process: where it is
  myoff,   \* per process: index of its entry, while it looks: off
  mysub,   \* per process: index of its subentry, 0 if it has none
  mybody,  \* per process: the global variable mybody
  shared   \* history: processes that had an entry together with another one

vars == <<file, tail, owner, login, pc, myoff, mysub, mybody, shared>>

\* A subentry with a null alias.
NoSub == [by |-> None, chan |-> None, at |-> 0]

NoSubs == [s \in 1 .. NSub |-> NoSub]

Subs == [by : Proc, chan : Channels, at : Nat] \cup {NoSub}

Entries == [line : Tty, logname : Names \cup {None}, sub : [1 .. NSub -> Subs]]

WhoInit ==
  /\ file = << >>
  /\ tail = 0
  /\ owner \in [Tty -> Users \cup {None}]
  /\ login = [t \in Tty |-> 1]
  /\ pc = [p \in Proc |-> "out"]
  /\ myoff = [p \in Proc |-> 0]
  /\ mysub = [p \in Proc |-> 0]
  /\ mybody = [p \in Proc |-> NoSub]
  /\ shared = {}

Goto(p, l) == pc' = [pc EXCEPT ![p] = l]

-----------------------------------------------------------------------------
(* Scanning the file.                                                      *)

\* finduser() copies sizeof(char *) - 1 characters of a login name, and so cuts
\* that of u off.
Long(u) == LogName[u] # u

\* wscan_next(): the user named in the header exists and owns the tty.
Valid(k) ==
  file[k].logname # None /\ file[k].logname = owner[file[k].line]

\* The places of the subentries that wscan_next() returns.
Shown ==
  {ks \in (DOMAIN file) \X (1 .. NSub) :
     Valid(ks[1]) /\ file[ks[1]].sub[ks[2]] # NoSub}

\* Those that show channel c.
On(c) == {ks \in Shown : file[ks[1]].sub[ks[2]].chan = c}

\* Mutant of WhoEmpty: the first record of another process is let pass.
WhoEmptyOffByOne(c) == Cardinality(On(c)) <= 2

\* who_empty()
WhoEmpty(c) == Cardinality(On(c)) <= 1

\* who_count() counts the first subentries.
WhoCount == Cardinality({ks \in Shown : ks[2] = 1})

-----------------------------------------------------------------------------
(* main() and who_enter().                                                 *)

\* main() up to who_enter(): the capacity check.  Whose the tty is, and whether
\* there is one, finduser() does not ask.
Start(p) ==
  /\ pc[p] = "out"
  /\ Goto(p, IF WhoCount >= Capacity THEN "gone" ELSE "look")
  /\ myoff' = [myoff EXCEPT ![p] = 1]
  /\ mybody' = [mybody EXCEPT ![p].at = login[Line[p]]]
  /\ UNCHANGED <<file, tail, owner, login, mysub, shared>>

\* The processes that have found their entry and still use it.
Placed == {p \in Proc : pc[p] \in {"clear", "head", "body", "naming", "in",
                                   "exitscan", "exithead"}}

\* Processes that now have an entry together with p.
Together(p) ==
  LET others == {q \in Placed \ {p} : myoff[q] = myoff[p]} IN
  others \cup {r \in {p} : others # {}}

\* Subentry s of an entry is the first free one after the first.
FirstFree(k, s) ==
  file[k].sub[s] = NoSub /\ \A r \in 2 .. s - 1 : file[k].sub[r] # NoSub

\* Mutant of Look: the end of the file does not end the loop.
LookPastEnd(p) ==
  /\ pc[p] = "look"
  /\ myoff' = [myoff EXCEPT ![p] = @ + 1]
  /\ UNCHANGED <<file, tail, owner, login, pc, mysub, mybody, shared>>

\* One round of the loop that looks for the entry of this tty.
Look(p) ==
  LET k == myoff[p] IN
  /\ pc[p] = "look"
  /\ \/ /\ k > Len(file)                       \* "Create slot for us"
        /\ mysub' = [mysub EXCEPT ![p] = 1]
        /\ Goto(p, "head")
        /\ shared' = shared \cup Together(p)
        /\ UNCHANGED myoff
     \/ /\ k <= Len(file) /\ file[k].line # Line[p]
        /\ myoff' = [myoff EXCEPT ![p] = @ + 1]
        /\ UNCHANGED <<mysub, pc, shared>>
     \/ /\ k <= Len(file) /\ file[k].line = Line[p]
        /\ file[k].logname # LogName[User[p]] \/ file[k].sub[1] = NoSub
        /\ mysub' = [mysub EXCEPT ![p] = 1]
        /\ Goto(p, "clear")                    \* "No valid user in it"
        /\ shared' = shared \cup Together(p)
        /\ UNCHANGED myoff
     \/ /\ k <= Len(file) /\ file[k].line = Line[p]
        /\ file[k].logname = LogName[User[p]] /\ file[k].sub[1] # NoSub
        /\ \/ /\ \E s \in 2 .. NSub :
                   FirstFree(k, s) /\ mysub' = [mysub EXCEPT ![p] = s]
              /\ Goto(p, "head")
           \/ /\ \A s \in 2 .. NSub : file[k].sub[s] # NoSub
              /\ mysub' = [mysub EXCEPT ![p] = 0]
              /\ Goto(p, "naming")             \* "No subrecords left"
        /\ shared' = shared \cup Together(p)
        /\ UNCHANGED myoff
  /\ UNCHANGED <<file, tail, owner, login, mybody>>

\* who_clear()
Clear(p) ==
  /\ pc[p] = "clear"
  /\ file' = [file EXCEPT ![myoff[p]] =
                [line |-> Line[p], logname |-> None, sub |-> NoSubs]]
  /\ tail' = IF myoff[p] = Len(file) THEN NSub ELSE tail
  /\ Goto(p, "head")
  /\ UNCHANGED <<owner, login, myoff, mysub, mybody, shared>>

\* fwrite() of the header, at the end of the file or over what is there now.
WriteHead(p, n) ==
  LET k == myoff[p] IN
  \/ /\ k > Len(file)
     /\ file' = Append(file, [line |-> Line[p], logname |-> n, sub |-> NoSubs])
     /\ tail' = 0
  \/ /\ k <= Len(file)
     /\ file' = [file EXCEPT ![k] = [@ EXCEPT !.line = Line[p], !.logname = n]]
     /\ UNCHANGED tail

\* Mutant of WriteSub: the offset is that of the first subentry.
WriteFirstSub(p, b) ==
  /\ file' = [file EXCEPT ![myoff[p]].sub[1] = b]
  /\ UNCHANGED tail

\* fwrite() of mybody.
WriteSub(p, b) ==
  LET k == myoff[p] IN
  /\ file' = [file EXCEPT ![k].sub[mysub[p]] = b]
  /\ tail' = IF k = Len(file) /\ tail < mysub[p] THEN mysub[p] ELSE tail

EnterHead(p) ==
  /\ pc[p] = "head"
  /\ WriteHead(p, LogName[User[p]])
  /\ Goto(p, "body")
  /\ UNCHANGED <<owner, login, myoff, mysub, mybody, shared>>

\* setname() has not been called yet: the alias is null.
EnterBody(p) ==
  /\ pc[p] = "body"
  /\ WriteSub(p, NoSub)
  /\ Goto(p, "naming")
  /\ UNCHANGED <<owner, login, myoff, mysub, mybody, shared>>

-----------------------------------------------------------------------------
(* The rest of the session.                                                *)

\* who_chan(), and who_shout() and who_shin(), which write the same channel.
WhoChan(p) ==
  /\ pc[p] \in {"naming", "in"}
  /\ \E c \in Channels :
       mybody' = [mybody EXCEPT ![p].by = p, ![p].chan = c]
  /\ \/ mysub[p] # 0 /\ WriteSub(p, mybody'[p])
     \/ mysub[p] = 0 /\ UNCHANGED <<file, tail>>
  /\ Goto(p, "in")
  /\ UNCHANGED <<owner, login, myoff, mysub, shared>>

\* The first join_party() fails, and main() exits.
NoJoin(p) ==
  /\ pc[p] = "naming"
  /\ Goto(p, "gone")
  /\ UNCHANGED <<file, tail, owner, login, myoff, mysub, mybody, shared>>

\* Mutant of WhoExit: the subentry is not erased.
WhoExitKeepsSub(p) ==
  /\ pc[p] \in {"naming", "in"}
  /\ Goto(p, "gone")
  /\ UNCHANGED <<file, tail, owner, login, myoff, mysub, mybody, shared>>

\* who_exit(): erase the subentry, ...
WhoExit(p) ==
  /\ pc[p] \in {"naming", "in"}
  /\ \/ /\ mysub[p] = 0
        /\ Goto(p, "gone")
        /\ UNCHANGED <<file, tail>>
     \/ /\ mysub[p] # 0
        /\ WriteSub(p, NoSub)
        /\ Goto(p, "exitscan")
  /\ UNCHANGED <<owner, login, myoff, mysub, mybody, shared>>

\* ... look for a null one among those before the end of the file, ...
ExitScan(p) ==
  LET k == myoff[p]
      n == IF k = Len(file) THEN tail ELSE NSub IN
  /\ pc[p] = "exitscan"
  /\ Goto(p, IF \E s \in 1 .. n : file[k].sub[s] = NoSub
             THEN "gone" ELSE "exithead")
  /\ UNCHANGED <<file, tail, owner, login, myoff, mysub, mybody, shared>>

\* ... and if there is none, erase the header.
ExitHead(p) ==
  /\ pc[p] = "exithead"
  /\ WriteHead(p, None)
  /\ Goto(p, "gone")
  /\ UNCHANGED <<owner, login, myoff, mysub, mybody, shared>>

\* kill -9
Kill(p) ==
  /\ p \in Killable /\ pc[p] \notin {"out", "gone", "killed"}
  /\ Goto(p, "killed")
  /\ UNCHANGED <<file, tail, owner, login, myoff, mysub, mybody, shared>>

\* The user of a tty logs out, which ends the processes there, and someone logs
\* in.
Login(t) ==
  /\ owner[t] # None /\ login[t] < MaxLogin
  /\ \A p \in Proc : Line[p] = t => pc[p] \in {"out", "gone", "killed"}
  /\ \E u \in Users : owner' = [owner EXCEPT ![t] = u]
  /\ login' = [login EXCEPT ![t] = @ + 1]
  /\ UNCHANGED <<file, tail, pc, myoff, mysub, mybody, shared>>

WhoNext ==
  \/ \E p \in Proc :
       \/ Start(p) \/ Look(p) \/ Clear(p) \/ EnterHead(p) \/ EnterBody(p)
       \/ WhoChan(p) \/ NoJoin(p) \/ WhoExit(p) \/ ExitScan(p) \/ ExitHead(p)
       \/ Kill(p)
  \/ \E t \in Tty : Login(t)

WhoSpec == WhoInit /\ [][WhoNext]_vars

-----------------------------------------------------------------------------
(* Properties.                                                             *)

Labels == {"out", "look", "clear", "head", "body", "naming", "in", "exitscan",
           "exithead", "gone", "killed"}

\* The types of the file and of each process; a process that has an entry has
\* one in the file, or is about to append one.
WhoTypeOK ==
  /\ file \in Seq(Entries)
  /\ tail \in 0 .. NSub
  /\ owner \in [Tty -> Users \cup {None}] /\ login \in [Tty -> Nat]
  /\ pc \in [Proc -> Labels]
  /\ myoff \in [Proc -> 0 .. Len(file) + 1]
  /\ mysub \in [Proc -> 0 .. NSub]
  /\ mybody \in [Proc -> [by : Proc \cup {None}, chan : Channels \cup {None},
                          at : Nat]]
  /\ shared \subseteq Proc

\* p is in party, with its record where who_chan() put it.
Listed(p) == <<myoff[p], mysub[p]>> \in Shown
             /\ file[myoff[p]].sub[mysub[p]] = mybody[p]

\* p runs on a tty of the user who runs it: not after su, and not without a tty.
OnOwnTty(p) == owner[Line[p]] = User[p]

\* p has an entry of its own that wscan_next() can tell to be its: on its own
\* tty, with a login name that finduser() left whole, and with a subentry that
\* who_enter() found free.
HasEntry(p) ==
  p \notin shared /\ OnOwnTty(p) /\ ~Long(User[p]) /\ mysub[p] # 0

\* The pwho file shows a process in a channel, and shows the channel it is in,
\* unless its entry was shared with another process, it was started after su or
\* without a tty, its login name is too long for finduser(), or who_enter()
\* found no free subentry.
ListedUnlessShared ==
  \A p \in Proc : pc[p] = "in" /\ HasEntry(p) => Listed(p)

\* Every record that wscan_next() returns is that of a process in the channel
\* it shows, or of one that was killed: whoever leaves is taken off.
ShownAreIn ==
  \A ks \in Shown :
    LET b == file[ks[1]].sub[ks[2]] IN
    pc[b.by] = "killed" \/ (pc[b.by] = "in" /\ mybody[b.by] = b)

\* who_empty() does not call a channel empty, and so join_party() does not
\* delete its log file, while two processes are in it that have entries of
\* their own, on ttys of their own.  Two that run after su are not counted.
EmptyIsEmpty ==
  \A c \in Channels, p, q \in Proc :
    (/\ p # q
     /\ \A r \in {p, q} :
          pc[r] = "in" /\ mybody[r].chan = c /\ HasEntry(r))
    => ~WhoEmpty(c)
=============================================================================
