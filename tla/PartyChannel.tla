---------------------------- MODULE PartyChannel ----------------------------
(***************************************************************************)
(* The channels of party 2.13, contrib/party/party-2.13: party.c, close.c  *)
(* and the parts of users.c and input.c they call.                         *)
(*                                                                         *)
(* A channel is a log file that every process in it reads and appends to,  *)
(* and, while it is closed, a .usr file listing who may enter.  Processes  *)
(* share no memory: join_party() creates, opens and unlinks those files by *)
(* name, and who is in a channel is known only from the records in the     *)
(* pwho file.  A step is one operation on a shared file with the code up   *)
(* to the next one.                                                        *)
(*                                                                         *)
(* The fcntl() locks are left out: setlock() asks for a write lock on a    *)
(* descriptor opened O_RDONLY, which the kernel refuses, and ignores the   *)
(* refusal.  Texts are left out too: what matters of an append() is the    *)
(* file it goes to.                                                        *)
(***************************************************************************)
EXTENDS Integers, FiniteSets

CONSTANTS Proc,       \* invocations of party
          Users,      \* login names
          User,       \* User[p]: who runs invocation p
          Channels,   \* names of channels
          None,       \* the channel of a process outside: channel == NULL
          Keep,       \* channels with the keeplog option: files named .log
          MayClose,   \* channels with the mayclose option
          Unlisted,   \* invocations that the pwho file does not show
          Killable,   \* invocations that may be killed or hung up on
          KnockWait,  \* the knockwait option
          MaxCmds     \* bound: commands given to one invocation, the first join included

ASSUME UsersAssumption == User \in [Proc -> Users] /\ IsFiniteSet(Proc)
ASSUME ChannelsAssumption ==
  Keep \subseteq Channels /\ MayClose \subseteq Channels /\ None \notin Channels
ASSUME SubsetAssumption == Unlisted \subseteq Proc /\ Killable \subseteq Proc
ASSUME BoundsAssumption == KnockWait \in Nat /\ MaxCmds \in Nat

VARIABLES
  file,     \* per channel: the inode of its log file, 0 if there is none
  usr,      \* per channel: the inode of its .usr file, 0 if it is open
  list,     \* per channel: the names in that .usr file
  inodes,   \* number of files created so far
  who,      \* per process: the channel its pwho record shows, None if none
  pc,       \* per process: where it is
  channel,  \* per process: the global variable channel
  rst, wfd, \* per process: the inodes it reads and appends to, 0 if closed
  keeplog,  \* per process: opt[OPT_KEEPLOG].yes
  newchannel, tmp_rst, tmp_wfd, waskept, \* per process: join_party()'s variables
  ufile,    \* per process: close_chan()'s fd
  i,        \* per process: enter_closed()'s counter of polls
  inhelp,   \* per process: the global variable inhelp
  cmds,     \* per process: number of commands given so far, for the bound
  raced     \* history: channels some of whose joins met a deletion

fileVars == <<file, usr, list, inodes>>
joinVars == <<newchannel, tmp_rst, tmp_wfd, waskept>>
curVars == <<channel, rst, wfd>>
vars == <<fileVars, who, pc, curVars, keeplog, joinVars, ufile, i, inhelp,
          cmds, raced>>

PartyInit ==
  /\ file = [c \in Channels |-> 0]
  /\ usr = [c \in Channels |-> 0]
  /\ list = [c \in Channels |-> {}]
  /\ inodes = 0
  /\ who = [p \in Proc |-> None]
  /\ pc = [p \in Proc |-> "out"]
  /\ channel = [p \in Proc |-> None]
  /\ rst = [p \in Proc |-> 0]
  /\ wfd = [p \in Proc |-> 0]
  /\ keeplog = [p \in Proc |-> FALSE]
  /\ newchannel = [p \in Proc |-> None]
  /\ tmp_rst = [p \in Proc |-> 0]
  /\ tmp_wfd = [p \in Proc |-> 0]
  /\ waskept = [p \in Proc |-> FALSE]
  /\ ufile = [p \in Proc |-> 0]
  /\ i = [p \in Proc |-> 0]
  /\ inhelp = [p \in Proc |-> FALSE]
  /\ cmds = [p \in Proc |-> 0]
  /\ raced = {}

Goto(p, l) == pc' = [pc EXCEPT ![p] = l]

\* The bound on commands.
Count(p) == cmds[p] < MaxCmds /\ cmds' = [cmds EXCEPT ![p] = @ + 1]

-----------------------------------------------------------------------------
(* join_party(c): passing the doorway.                                     *)

\* main() enters the starting channel, or the user asks for another one.
Join(p) ==
  /\ pc[p] \in {"out", "in"}
  /\ Count(p)
  /\ \E c \in Channels \ {channel[p]} :
       newchannel' = [newchannel EXCEPT ![p] = c]
  /\ waskept' = [waskept EXCEPT ![p] = keeplog[p]]
  /\ Goto(p, "check")
  /\ UNCHANGED <<fileVars, who, curVars, keeplog, tmp_rst, tmp_wfd, ufile, i,
                 inhelp, raced>>

\* check_open()
MayEnter(p, c) == usr[c] = 0 \/ User[p] \in list[c]

\* join_party() returns 1: main() exits, any other caller stays where it is.
Refused(p) == Goto(p, IF channel[p] = None THEN "gone" ELSE "in")

\* chnopt()
SetOptions(p, c) == keeplog' = [keeplog EXCEPT ![p] = c \in Keep]

\* "if (channel != NULL) chnopt(channel)"
RestoreOptions(p) ==
  keeplog' = [keeplog EXCEPT ![p] = IF channel[p] = None THEN @ ELSE channel[p] \in Keep]

\* badname() or chnopt() refuses the name.
NoSuchChannel(p) ==
  /\ pc[p] = "check"
  /\ Refused(p)
  /\ UNCHANGED <<fileVars, who, curVars, keeplog, joinVars, ufile, i, inhelp,
                 cmds, raced>>

\* The first check_open() of enter_closed(), and chnopt().
Check(p) ==
  LET c == newchannel[p] IN
  /\ pc[p] = "check"
  /\ \/ MayEnter(p, c) /\ SetOptions(p, c) /\ Goto(p, "open")
     \/ ~MayEnter(p, c) /\ Goto(p, "asked") /\ UNCHANGED keeplog
  /\ UNCHANGED <<fileVars, who, curVars, joinVars, ufile, i, inhelp, cmds, raced>>

\* "Would you like to knock on the door?"  read_yn() reads on at end of file.
Decline(p) ==
  /\ pc[p] = "asked"
  /\ Refused(p) \/ Goto(p, "spin")
  /\ UNCHANGED <<fileVars, who, curVars, keeplog, joinVars, ufile, i, inhelp,
                 cmds, raced>>

\* knock() opens the log file to append, which creates the .log of a kept channel.
Knock(p) ==
  LET c == newchannel[p] IN
  /\ pc[p] = "asked"
  /\ i' = [i EXCEPT ![p] = 0]
  /\ inhelp' = [inhelp EXCEPT ![p] = TRUE]
  /\ Goto(p, "knocking")
  /\ \/ /\ file[c] = 0 /\ c \in Keep
        /\ file' = [file EXCEPT ![c] = inodes + 1]
        /\ inodes' = inodes + 1
     \/ (file[c] # 0 \/ c \notin Keep) /\ UNCHANGED <<file, inodes>>
  /\ UNCHANGED <<usr, list, who, curVars, keeplog, joinVars, ufile, cmds, raced>>

\* Mutant of Poll: it never gives up.
PollNoLimit(p) ==
  /\ pc[p] = "knocking"
  /\ ~MayEnter(p, newchannel[p])
  /\ i' = [i EXCEPT ![p] = @ + 1]
  /\ UNCHANGED <<fileVars, who, pc, curVars, keeplog, joinVars, ufile, inhelp,
                 cmds, raced>>

\* Mutant of Poll: the polls are not counted.
PollForever(p) ==
  LET c == newchannel[p] IN
  /\ pc[p] = "knocking"
  /\ ~MayEnter(p, c)
  /\ UNCHANGED vars

\* One round of the loop that waits for an answer.  When it gives up, inhelp
\* stays set.
Poll(p) ==
  LET c == newchannel[p] IN
  /\ pc[p] = "knocking"
  /\ \/ /\ MayEnter(p, c)
        /\ inhelp' = [inhelp EXCEPT ![p] = FALSE]
        /\ SetOptions(p, c)
        /\ Goto(p, "open")
        /\ UNCHANGED i
     \/ /\ ~MayEnter(p, c) /\ i[p] < KnockWait
        /\ i' = [i EXCEPT ![p] = @ + 1]
        /\ UNCHANGED <<inhelp, keeplog, pc>>
     \/ /\ ~MayEnter(p, c) /\ i[p] >= KnockWait
        /\ Refused(p)
        /\ UNCHANGED <<i, inhelp, keeplog>>
  /\ UNCHANGED <<fileVars, who, curVars, joinVars, ufile, cmds, raced>>

\* An interrupt jumps out of that loop.
StopKnocking(p) ==
  /\ pc[p] = "knocking"
  /\ inhelp' = [inhelp EXCEPT ![p] = FALSE]
  /\ Refused(p)
  /\ UNCHANGED <<fileVars, who, curVars, keeplog, joinVars, ufile, i, cmds, raced>>

-----------------------------------------------------------------------------
(* join_party(c): opening the new channel's files.                         *)

\* Another process is in the course of joining c: it has opened the file, and
\* its pwho record does not show c yet.
Joining(q, c) ==
  newchannel[q] = c /\ pc[q] \in {"write", "leave", "scan", "unlink", "unusr",
                                  "enter", "naming"}

\* Another process has found that it is the last one in c.
Deleting(q, c) == channel[q] = c /\ pc[q] = "unlink"

\* Open c's file by name, or create it.
OpenFile(p, c, fd) ==
  \/ /\ file[c] # 0
     /\ fd' = [fd EXCEPT ![p] = file[c]]
     /\ UNCHANGED <<file, inodes>>
  \/ /\ file[c] = 0
     /\ file' = [file EXCEPT ![c] = inodes + 1]
     /\ inodes' = inodes + 1
     /\ fd' = [fd EXCEPT ![p] = inodes + 1]

\* open(O_RDONLY), or open(O_RDONLY|O_CREAT)
OpenRead(p) ==
  LET c == newchannel[p] IN
  /\ pc[p] = "open"
  /\ OpenFile(p, c, tmp_rst)
  /\ raced' = raced \cup {d \in {c} : \E q \in Proc \ {p} : Deleting(q, c)}
  /\ Goto(p, "write")
  /\ UNCHANGED <<usr, list, who, curVars, keeplog, newchannel, tmp_wfd, waskept,
                 ufile, i, inhelp, cmds>>

\* fopen("a"), and the lock file.
OpenWrite(p) ==
  /\ pc[p] = "write"
  /\ OpenFile(p, newchannel[p], tmp_wfd)
  /\ Goto(p, IF channel[p] = None THEN "enter" ELSE "leave")
  /\ UNCHANGED <<usr, list, who, curVars, keeplog, newchannel, tmp_rst, waskept,
                 ufile, i, inhelp, cmds, raced>>

\* Mutant of CannotOpen: the options of the current channel are not restored.
CannotOpenKeepsOptions(p) ==
  /\ pc[p] \in {"open", "write"}
  /\ Refused(p)
  /\ UNCHANGED <<fileVars, who, curVars, keeplog, joinVars, ufile, i, inhelp,
                 cmds, raced>>

\* "channel not accessible", "Cannot write partyfile"
CannotOpen(p) ==
  /\ pc[p] \in {"open", "write"}
  /\ RestoreOptions(p)
  /\ Refused(p)
  /\ UNCHANGED <<fileVars, who, curVars, joinVars, ufile, i, inhelp, cmds, raced>>

-----------------------------------------------------------------------------
(* join_party(): leaving the old channel.                                  *)

\* Where join_party() goes on once it has left the old channel.
AfterLeave(p) == IF newchannel[p] = None THEN "exit" ELSE "enter"

\* The departure message; the old files are closed.
Leave(p) ==
  /\ pc[p] = "leave"
  /\ rst' = [rst EXCEPT ![p] = 0]
  /\ wfd' = [wfd EXCEPT ![p] = 0]
  /\ Goto(p, IF waskept[p] THEN AfterLeave(p) ELSE "scan")
  /\ UNCHANGED <<fileVars, who, channel, keeplog, joinVars, ufile, i, inhelp,
                 cmds, raced>>

\* who_empty(): the pwho file shows at most one process in c.
WhoEmpty(c) == Cardinality({q \in Proc : who[q] = c}) <= 1

\* Mutant of Scan: the result of who_empty() is not used.
ScanAlwaysEmpty(p) ==
  /\ pc[p] = "scan"
  /\ Goto(p, "unlink")
  /\ raced' = raced \cup
       {c \in {channel[p]} : \E q \in Proc \ {p} : Joining(q, channel[p])}
  /\ UNCHANGED <<fileVars, who, curVars, keeplog, joinVars, ufile, i, inhelp, cmds>>

Scan(p) ==
  LET c == channel[p] IN
  /\ pc[p] = "scan"
  /\ \/ /\ WhoEmpty(c)
        /\ Goto(p, "unlink")
        /\ raced' = raced \cup {d \in {c} : \E q \in Proc \ {p} : Joining(q, c)}
     \/ /\ ~WhoEmpty(c)
        /\ Goto(p, AfterLeave(p))
        /\ UNCHANGED raced
  /\ UNCHANGED <<fileVars, who, curVars, keeplog, joinVars, ufile, i, inhelp, cmds>>

\* unlink() of the .tmp file, which is not the file of a kept channel.
Unlink(p) ==
  LET c == channel[p] IN
  /\ pc[p] = "unlink"
  /\ file' = [file EXCEPT ![c] = IF c \in Keep THEN @ ELSE 0]
  /\ Goto(p, "unusr")
  /\ UNCHANGED <<usr, list, inodes, who, curVars, keeplog, joinVars, ufile, i,
                 inhelp, cmds, raced>>

\* unlink() of the .usr file.
UnlinkUsr(p) ==
  /\ pc[p] = "unusr"
  /\ usr' = [usr EXCEPT ![channel[p]] = 0]
  /\ list' = [list EXCEPT ![channel[p]] = {}]
  /\ Goto(p, AfterLeave(p))
  /\ UNCHANGED <<file, inodes, who, curVars, keeplog, joinVars, ufile, i,
                 inhelp, cmds, raced>>

-----------------------------------------------------------------------------
(* join_party(): the rest.                                                 *)

\* The new files become the current ones; setname() may ask for a name.
Enter(p) ==
  /\ pc[p] = "enter"
  /\ rst' = [rst EXCEPT ![p] = tmp_rst[p]]
  /\ wfd' = [wfd EXCEPT ![p] = tmp_wfd[p]]
  /\ Goto(p, "naming")
  /\ UNCHANGED <<fileVars, who, channel, keeplog, joinVars, ufile, i, inhelp,
                 cmds, raced>>

\* The join message, and who_chan().
WhoChan(p) ==
  /\ pc[p] = "naming"
  /\ channel' = [channel EXCEPT ![p] = newchannel[p]]
  /\ who' = [who EXCEPT ![p] = IF p \in Unlisted THEN None ELSE newchannel[p]]
  /\ Goto(p, "in")
  /\ UNCHANGED <<fileVars, rst, wfd, keeplog, joinVars, ufile, i, inhelp,
                 cmds, raced>>

\* join_party(NULL) is called: done(), or a signal handler in the main loop.
LeaveParty(p) ==
  /\ newchannel' = [newchannel EXCEPT ![p] = None]
  /\ waskept' = [waskept EXCEPT ![p] = keeplog[p]]
  /\ Goto(p, IF channel[p] = None THEN "exit" ELSE "leave")

Quit(p) ==
  /\ pc[p] = "in"
  /\ LeaveParty(p)
  /\ UNCHANGED <<fileVars, who, curVars, keeplog, tmp_rst, tmp_wfd, ufile, i,
                 inhelp, cmds, raced>>

\* who_exit()
WhoExit(p) ==
  /\ pc[p] = "exit"
  /\ who' = [who EXCEPT ![p] = None]
  /\ Goto(p, "gone")
  /\ UNCHANGED <<fileVars, curVars, keeplog, joinVars, ufile, i, inhelp, cmds,
                 raced>>

-----------------------------------------------------------------------------
(* Closing, opening, inviting: close.c.                                    *)

\* close_chan(): open(O_CREAT|O_EXCL), ...
CloseChan(p) ==
  LET c == channel[p] IN
  /\ pc[p] = "in" /\ c \in MayClose /\ usr[c] = 0
  /\ Count(p)
  /\ inodes' = inodes + 1
  /\ usr' = [usr EXCEPT ![c] = inodes + 1]
  /\ list' = [list EXCEPT ![c] = {}]
  /\ ufile' = [ufile EXCEPT ![p] = inodes + 1]
  /\ Goto(p, "closing")
  /\ UNCHANGED <<file, who, curVars, keeplog, joinVars, i, inhelp, raced>>

\* ... and who_ison() lists those whose records show this channel.
WhoIsOn(p) ==
  LET c == channel[p] IN
  /\ pc[p] = "closing"
  /\ list' = [list EXCEPT ![c] =
                IF usr[c] = ufile[p] THEN {User[q] : q \in {r \in Proc : who[r] = c}}
                ELSE @]
  /\ Goto(p, "in")
  /\ UNCHANGED <<file, usr, inodes, who, curVars, keeplog, joinVars, ufile, i,
                 inhelp, cmds, raced>>

\* open_chan()
OpenChan(p) ==
  LET c == channel[p] IN
  /\ pc[p] = "in" /\ usr[c] # 0
  /\ Count(p)
  /\ usr' = [usr EXCEPT ![c] = 0]
  /\ list' = [list EXCEPT ![c] = {}]
  /\ UNCHANGED <<file, inodes, who, pc, curVars, keeplog, joinVars, ufile,
                 i, inhelp, raced>>

\* :invite finds the channel closed, ...
InviteCheck(p) ==
  /\ pc[p] = "in" /\ usr[channel[p]] # 0
  /\ Count(p)
  /\ Goto(p, "inviting")
  /\ UNCHANGED <<fileVars, who, curVars, keeplog, joinVars, ufile, i, inhelp,
                 raced>>

\* ... and invite() opens the .usr file to append, which creates it if need be.
Invite(p) ==
  LET c == channel[p] IN
  /\ pc[p] = "inviting"
  /\ \E u \in Users :
     \/ /\ usr[c] # 0
        /\ list' = [list EXCEPT ![c] = @ \cup {u}]
        /\ UNCHANGED <<usr, inodes>>
     \/ /\ usr[c] = 0
        /\ list' = [list EXCEPT ![c] = {u}]
        /\ usr' = [usr EXCEPT ![c] = inodes + 1]
        /\ inodes' = inodes + 1
  /\ Goto(p, "in")
  /\ UNCHANGED <<file, who, curVars, keeplog, joinVars, ufile, i, inhelp, cmds,
                 raced>>

-----------------------------------------------------------------------------
(* Signals and kills.                                                      *)

\* hup() or term() before the old channel is left, or after the new one's files
\* are in place: it calls join_party(NULL) in the middle of join_party(c).
Hangup(p) ==
  /\ p \in Killable
  /\ pc[p] \in {"check", "asked", "spin", "knocking", "open", "write", "naming",
                "closing", "inviting"}
  /\ LeaveParty(p)
  /\ UNCHANGED <<fileVars, who, curVars, keeplog, tmp_rst, tmp_wfd, ufile, i,
                 inhelp, cmds, raced>>

\* kill -9 leaves the pwho record.
KillNine(p) ==
  /\ p \in Killable
  /\ pc[p] \notin {"out", "gone", "killed"}
  /\ Goto(p, "killed")
  /\ UNCHANGED <<fileVars, who, curVars, keeplog, joinVars, ufile, i, inhelp,
                 cmds, raced>>

\* The tty of a killed process changes hands, so that its record is ignored.
TtyReused(p) ==
  /\ pc[p] = "killed" /\ who[p] # None
  /\ who' = [who EXCEPT ![p] = None]
  /\ UNCHANGED <<fileVars, pc, curVars, keeplog, joinVars, ufile, i, inhelp,
                 cmds, raced>>

\* What a process does on its own, or when its user answers a question.
Progress(p) ==
  \/ NoSuchChannel(p) \/ Check(p) \/ Decline(p) \/ Knock(p) \/ Poll(p)
  \/ OpenRead(p) \/ OpenWrite(p) \/ CannotOpen(p)
  \/ Leave(p) \/ Scan(p) \/ Unlink(p) \/ UnlinkUsr(p)
  \/ Enter(p) \/ WhoChan(p) \/ WhoExit(p) \/ WhoIsOn(p) \/ Invite(p)

\* What the user asks for.
Command(p) ==
  \/ Join(p) \/ Quit(p) \/ CloseChan(p) \/ OpenChan(p) \/ InviteCheck(p)
  \/ StopKnocking(p)

PartyNext ==
  \E p \in Proc :
    Progress(p) \/ Command(p) \/ Hangup(p) \/ KillNine(p) \/ TtyReused(p)

PartySpec == PartyInit /\ [][PartyNext]_vars

\* A process that is not killed runs, and its user answers.
PartyFairSpec == PartySpec /\ \A p \in Proc : WF_vars(Progress(p))

-----------------------------------------------------------------------------
(* Properties.                                                             *)

Labels == {"out", "in", "check", "asked", "spin", "knocking", "open", "write",
           "leave", "scan", "unlink", "unusr", "enter", "naming", "exit",
           "closing", "inviting", "gone", "killed"}

\* The types of the files, of the pwho records and of each process; a knock is
\* polled for at most KnockWait times and given up after that.
PartyTypeOK ==
  /\ file \in [Channels -> Nat] /\ usr \in [Channels -> Nat]
  /\ list \in [Channels -> SUBSET Users]
  /\ inodes \in Nat
  /\ who \in [Proc -> Channels \cup {None}]
  /\ pc \in [Proc -> Labels]
  /\ channel \in [Proc -> Channels \cup {None}]
  /\ rst \in [Proc -> Nat] /\ wfd \in [Proc -> Nat]
  /\ keeplog \in [Proc -> BOOLEAN]
  /\ newchannel \in [Proc -> Channels \cup {None}]
  /\ tmp_rst \in [Proc -> Nat] /\ tmp_wfd \in [Proc -> Nat]
  /\ waskept \in [Proc -> BOOLEAN]
  /\ ufile \in [Proc -> Nat]
  /\ i \in [Proc -> 0 .. KnockWait]
  /\ inhelp \in [Proc -> BOOLEAN]
  /\ cmds \in [Proc -> 0 .. MaxCmds]
  /\ raced \subseteq Channels

\* p is in channel c, with c's files open, perhaps on its way to another one.
Inside(p, c) ==
  channel[p] = c /\ pc[p] \in {"in", "closing", "inviting", "check", "asked",
                               "spin", "knocking", "open", "write"}

\* What one process in c appends, the others read.
OneLog(c) ==
  \A p, q \in Proc : Inside(p, c) /\ Inside(q, c) => wfd[p] = rst[q]

\* A kept channel is never split in two.  Another one is split only if some
\* join_party() was under way between its open() and its who_chan() while the
\* last process to leave was between its who_empty() and its unlink().
OneLogUnlessRaced ==
  \A c \in Channels :
    c \in Keep \/ (c \notin raced /\ Unlisted = {}) => OneLog(c)

\* A process in the main loop has the options of the channel it is in, also
\* after a join_party() that failed.
OptionsMatch ==
  \A p \in Proc :
    pc[p] \in {"in", "closing", "inviting"} => keeplog[p] = (channel[p] \in Keep)

\* A join ends, in the new channel, in the old one or outside, also at a closed
\* door that nobody opens; so does leaving.
JoinsEnd ==
  \A p \in Proc :
    pc[p] \notin {"out", "in", "gone"} ~> pc[p] \in {"in", "gone", "killed", "spin"}
=============================================================================
