# Verification of M-Net's multi-user programs: bank, party, vote, write and Backtalk

M-Net's software (`src/soft`, `src/contrib`) is a collection of programs that
many users of one Unix machine run at the same time. They share no memory and
talk to no server: what they share is files, and what keeps those files right is
the order of the system calls of independent processes, which may be killed
between any two of them. This project models the programs in which that is
hardest, checks them with TLC and proves their main invariants with TLAPS:
**bank** (accounts in gribblies, `soft/apps/bank`), **party** (the conferencing
program, `contrib/party/party-2.13`), **vote** (elections, `soft/apps/vote`),
**write** (messages between ttys, `contrib/orville/orville-write-2.55`), and of **Backtalk** (the web conferences, `contrib/backtalk/backtalk-1.3.30`) the
session file and the item and sum files of a conference.

Paths below are relative to `src/`.

## 1. Inventory

### bank (`soft/apps/bank/bank.c`)

| part | state | operations |
|---|---|---|
| lock files | `b.lock`, `t.lock`; per process `fclock`: the ctime of the lock it holds | `setlock()`: `open(O_EXCL)`, `stat()` on failure, blast after 300 s, nap and retry, give up; `unlock()`: unlink if the file is still ours; `done()` |
| balance file | one `long` per uid: 0 no account, even: the date it will be opened, odd: 2*balance+1 | `balance()`, `addbalance()` (locked read-modify-write), `openaccount()`, `closeaccount()` (a write without lock), `wealthy()` (a sweep that may close accounts) |
| transaction file | entries, null or a notice for a uid | `transaction()` (locked: first null entry), `scantrans()` (no lock: print and null) |
| session | command line or menu, `mybal`, the amount | `main()`, `dobank()`, `checkme()`, `parsetrans()`, `asktrans()`, `dotrans()` |

A customer may have several sessions; bankers act on everyone's account.
Correct means: money is neither lost nor made, a transfer is debit *and* credit,
notices are neither lost nor overwritten, a lock has one owner, and every
session comes to an end.

### party (`contrib/party/party-2.13`)

| part | state | operations |
|---|---|---|
| channels (`party.c`, `close.c`) | per channel a log file and, while it is closed, a `.usr` file; per process the open descriptors, the current channel and its options | `join_party()` (checks, `enter_closed()`, `chnopt()`, opens, leaving the old channel, deleting it if it is empty and temporary, `setname()`, `who_chan()`), `:close`, `:open`, `:invite`, knocking; `hup()`, `term()`, `done()` |
| the pwho file (`users.c`) | per tty a header and subentries, one per invocation | `who_enter()`, `who_clear()`, `who_chan()`, `who_shout()`, `who_shin()`, `who_exit()`; scans: `who_empty()`, `who_count()`, `who_ison()`, `who_uniqalias()`, listings |
| names (`input.c`) | `name` of each process, the alias in its pwho record | `setname()`, `:name`, `changename()`, `checkname()`, `who_uniqalias()` |
| input, output, options | line buffer, position in the log, ignore list, option table | `:set`, `:ignore`, `:read`, `:save`, filters, tailing of the log |

`join_party()` asks the pwho file who is in a channel to decide whether its log
may be deleted; `setname()` asks it whether a name is free; `close_chan()` takes
from it who is on the list of a closed channel. Correct means: those in a
channel read what the others write, a closed channel keeps others out, a
temporary log is deleted when it is empty and only then, the pwho file shows
those who are there, and names are unique where they should be.

### vote (`soft/apps/vote/src`)

| part | state | operations |
|---|---|---|
| ballot (`board.c`, `vote.c`, `webcast.c`) | per voter the file `votes/<voter>`, one line per candidate chosen, and `.vdir/<voter>`, one hash per cast; per process the marks of the candidates | `polls_open()`, `getcands()`/`getvdata()`, `vote()` (questions, cancel), `record()` (unlink, create, write), `hashrec()` |

A voter may be at the board program on two terminals and send the web form as
well. Correct means: a ballot has at most as many candidates as there are
positions, the ballot that counts is one that was cast and is on record, the
marks shown are the vote, and the election ends when it ends.

### Orville write (`contrib/orville/orville-write-2.55`)

| part | state | operations |
|---|---|---|
| the wrttmp file (`lib_common.c`, `wrt_me.c`) | per tty an entry: login time, whom its user writes and with which process, his preferences; the mode of the tty says whether he takes messages | `find_wrttmp()`, `set_modes()`, `update_modes()`, `reset_modes()`; `saveperms()`, `setperms()`, `resetperms()` |
| write (`wrt_main.c`, `wrt_him.c`, `wrt_sig.c`) | per process its place in the file and the old entry and mode, to be put back | `main()`, `find_us()`, `dosystem()`, `susp()`, `intr()`, `done()` |
| amin (`amin.c`) | the same, for a command that is not to be disturbed | `fix_modes()`, `restore_modes()`, `susp()` |
| mesg (`mesg.c`) | - | sets mode and preferences, `do_disconnect()` |
| window (`wrt_hist.c`), helpers, huh | history of who wrote whom; who is a helper | `open_hist()`, `may_answer()`; listings |

Programs run inside one another: in a shell escape of write, or below amin, one may
start another write, or mesg. Correct means: a tty has one entry, the entry says what
really runs, and when nothing runs any more the user's own settings are back.

### Backtalk (`contrib/backtalk/backtalk-1.3.30/src`)

| part | state | operations |
|---|---|---|
| sessions (`sess_file.c`, `session.c`) | the session file: id, user and time of last use per entry | `new_session()` and `session_delete()` (locked), `session_lookup()` (not locked), called by `getuser()`, `func_newsession()`, `func_killsession()` |
| items (`ps_post.c`, `ps_edit.c`, `ps_item.c`) | item files `_<n>`, their mode bits (frozen, retired), links and `fcntl()` locks | `post_item()`, `post_resp()`, `item_mode()`, `kill_item()`, `link_item()`, the edits, `openitem()`, `fiximodes()` |
| sum files (`ps_sum.c`) | per item the number of responses, flags, dates | `get_sum()`, `put_sum()`, `item_sume()`, `link_sum()`, `last_no()` |

Every web request is a process. The sum file repeats what the item files say, so
that a conference can be listed without opening its items. Correct means: one
session per id, nobody comes in with a killed id, a used session stays alive; the sum file
counts the responses, shows who may respond, and has no dead items alive.

### The rest of the repository

`PROJECT.json` lists every part. Not modelled so far: robocop (limits and kills),
the new-user programs, webauthd, resh and the menus, administration
commands, gate, libgrex, the rest of Backtalk and the other vendored packages
(fronttalk, msgs), pages and configuration. Section 8 says what is planned and why
the others are left out.

### What is hard here

* **Interleaving of processes** at every system call: in bank within and around
  the locks, in party, vote and write without any effective lock, in Backtalk beside
  lookups that do not lock and locks that closing a second descriptor drops.
* **Crashes**: a killed process leaves its lock file, or its pwho record, or a
  response that the sum file does not count.
* **Timeouts**: the blasting of old locks, giving up, a knock that is not answered,
  the expiry of a session, the end of an election.
* **Nesting**: programs that save a state, change it and put it back, inside one
  another, stopped and resumed in any order.
* **Stale decisions**: a balance read at the start of a session, a door checked
  before a question is asked, a name looked up before it is written, a sum file
  entry written back under a shared lock, an item number chosen before its file is
  made.
* **Encodings**: odd and even longs, C's division, dates compared both ways,
  cut-off login names, names converted after they were looked up.

The list of hazards in `PROJECT.json` places each at its line, with the
properties that cover it.

## 2. Modules

| module | models | composed with |
|---|---|---|
| `BankLock` | the lock protocol, one system call per step | - |
| `Bank` | sessions, balance and transaction file | extends `BankLock`; shown to implement `LockSpec` |
| `PartyChannel` | channels: log files, `.usr` files, joins, leaves | abstracts the pwho file to one channel per process |
| `PartyWho` | the pwho file, write by write | - |
| `PartyNames` | names, lookups, and the records that show them | abstracts the pwho file to fixed places |
| `Vote` | one voter's ballot and history under concurrent casts | - |
| `Sessions` | what the session file promises: a table of sessions | - |
| `SessFile` | the session file, entry by entry | shown to implement `Sessions` |
| `Conf` | item files, locks, modes and sum files | - |
| `WrtTmp` | the wrttmp file and tty modes under write, amin and mesg | - |
| `MC*` | instances for TLC | |
| `*Proofs` | theorems about the module they extend | |

### BankLock

`lockfile[w]` is the file (creator and ctime) or `NoFile`; `fclock`, `which` and
`trys` are the C variables; `lpc[p]` is the place inside `setlock()` or
`unlock()`. `OpenExcl`, `StatLock`, `BlastLock`, `UnlockStat` and `UnlockUnlink`
are the system calls, each with the code up to the next one; `SetLock` and
`Unlock` the calls; `Kill` and `Tick` the environment. `blasted` is a history
variable: the locks that were ever blasted. `LockSpec` is the abstract
specification that `Bank` implements.

### Bank

`raw` is the balance file in its encoding (`Encode`, `OldBalance`, `Half` are the
C expressions, with C's division), `trans` the transaction file. A process has a
program counter, its session (`ses`), and the arguments of the routines it is in
(`add`, `scan`). All commands of the command line and the menu are actions; one
step is one read or write of a shared file, one answer of the user, or one step
of the lock protocol. History variables: `ledger` is what each account was opened
with plus all amounts added; `excused` are accounts whose balance is put at risk
by one of the known ways (a write without lock that meets an update, a debt);
`posted` numbers the notices. Texts, reasons and e-mail are left out.

### PartyChannel

Files are inodes, so that an unlinked file lives on in those who have it open.
One step is one operation on a shared file. `raced` records the channels in which
a join, between its `open()` and its `who_chan()`, met a deletion between
`who_empty()` and `unlink()`. `Unlisted` are invocations that the pwho file does
not show (reasons: see `PartyWho`). `Hangup` is a SIGHUP outside the few
statements in which the old channel's streams are closed but still current.
The `fcntl()` lock is left out because it does nothing: it asks for a write lock
on a descriptor opened `O_RDONLY` and the refusal is ignored (`party.c:661`).

### PartyWho

`file` is a sequence of entries, `tail` how much of the last one is written.
Each `fwrite()` is a step. `wscan_next()` is the set `Shown` of places it
returns: entries whose user owns the tty, subentries with an alias. Anybody may
start party on a tty: its owner, somebody else after su, and a user without a tty,
whose line "(none)" is a member of `Tty` that has no owner. `OnOwnTty` tells the
first from the others, who are in the file but never shown. `shared`
records processes that had an entry together with another one: two invocations
on a tty, or two processes that appended at the same time.

### PartyNames

A name is a word with a flag: is it spelt the way `checkname()` leaves it?
`Skipping` is the flag of `who_uniqalias()` that is set at subfield number 1
only. Looking a name up, taking it and writing the record are separate steps.
`excused` records whose name was not checked, or was checked in vain; `Take`
has the reasons. The places of the records are constants here (`Entry`, `Sub`):
how a process gets one, and how one is lost, is the subject of `PartyWho`.

### Vote

`file` is the inode of the ballot, `lines` what every inode holds, `hist` the
history. `Unlink`, `Open`, `Write` and `LogBoard`/`LogWeb` are the system calls of
`record()`; `Overwritten` is what a write at offset 0 leaves of a longer file.
`EnterBoard`, `Cancel` and `Leave` are the session around it, `EnterWeb` a request
of the web form, `PollsClose` the end of the election. `Die` and `WriteFails` are a
process that ends, or a disk that is full, in the middle of `record()`. History
variables: `mine` is the inode whose lines the marks are, `fault` a failure,
`overlap` two processes in `record()`, `raced` two between `unlink()` and `fopen()`.
A hash stands for the set of candidates it is made from. Voters share nothing, so
one voter is enough. The number of votes that the board prints is left out.

### Sessions and SessFile

`Sessions` is the abstract specification: a table from ids to users, with a time
of last use known up to `Lag`. `Ask`, `Accept`/`Refuse`, `Record` are the parts of a
lookup, which may answer with the state of any moment since the question; nobody
gets another's session or one that had expired, and nobody is refused whose session
was there all the time and used of late. The exception is the empty id, which is
nobody's: `AcceptEmpty` takes it for a user in `left`, whose session has been killed.
`SessFile` is the program: `file` and
`size` are the session file, `lock` its `fcntl()` lock, `now` the clock as a call has
read it, `pos`, `seek`, `retry` the loop variables of the C code. Every `read()` and
`write()` of an entry is a step; `LookTouch` writes the time field of the entry found
before, whoever's it is by now; `DelFound` reads the entry to be erased and `DelErase`
writes it back with the same user, the time it had and no id. A cookie (`mysid`) holds an
id or is empty, or there is none (`NoCookie`). `used` and `missing` are history variables for the
refinement mapping `Store`. An id is an arbitrary choice (`get_noise()`), and may
collide; `Lifetime` bounds how long a call takes.

### Conf

`dir` maps names (conference, number) to inodes, `node` has the responses, the mode
and the date of an inode, `entry` and `last` are the sum files, `ex` and `sh` the
locks. A request is opened by one of the `Open*` actions, `PostItem`, `View` or
`LinkItem`, and goes through the system calls of `open_resp()`, `get_sum()`,
`put_sum()` and its own. `Scan` is `item_sume()`, with the effect of its `fclose()`
on the locks of the process; `LockSh` the shared lock that a frozen item gets.
`EditThaw`, `EditReopen` and `EditRestore` are the dance with `editfrozen`. History
variables name the circumstances that the invariants set aside: `linked` (the item
has had two names: `link_sum()` and `item_sume()` work without locks), `torn` (a
process died, or a write failed, between file and sum file), `reused` (the number
was used again while somebody had the old item), `loose` (its mode was changed, or
its entry written, without an exclusive lock). Whether the user may do what he asks
is a free choice (`Refused`), except for the checks that depend on shared state.
`expect_resp` is the number of a reader who has seen the item's text only. Item
dates, the party bit, index and participation files are left out.

### WrtTmp

`file` is the sequence of entries, `perm` the mode of each tty, `owner` and `time` are
utmp. A process has the C variables `mypos`, `mywrt`, `myperm` (`myperms`) and `fixed`
(`fixed_modes`); `pc` is where it is: started and asking (`ask`), between set_modes()
and the end (`talk`), waiting for a shell or a command (`shell`), stopped, or in the
middle of `susp()` (`wake`); `above` are the processes in whose shells it runs. `Start`
is the way to `find_wrttmp()`, `SetModes`, `Tel`, `Amin` and `Mesg` the writes to the
entry, which come later: a user has been asked in between. `Escape`, `Return` are
`dosystem()`, `Stop`, `Susp`, `Fg`, `WriteWakes`, `AminWakes` the way through `susp()`,
`End` is `intr()`. A signal is a field of the process (`sig`) until the process handles it,
so that the signals of nested processes are handled in any order. `Prompts` is
the shell that reads a tty: the login shell, if all jobs are stopped, or the shell of the
foreground process. `Logout` hangs up and `Login` begins a new login, while processes of the
old one may still be about to write. History variables: `want` is what the user has set
with mesg to last; `raced` that two lines' processes have taken the same new slot, or that
an amin which ^Z had struck early has gone on; `upset`
are the lines on which, in this login, one of these has happened: a process was killed with
its modes in place, or halfway through putting them in place or back; a signal ended write
halfway; it ended over the heads of those in its shell, or before it saw
what mesg had done there; the nested processes handled one ^Z parent first, or went on
in that order; amin was stopped twice, or over a change by mesg; `write -p` came back from
a shell escape; a process of the last login wrote late. Built with `TTYPERMS` and
`JOB_CONTROL`; of the preferences `wrt_record` stands for all.

`set_modes()`, `reset_modes()`, `fix_modes()` and `restore_modes()` are one step where they
run through, which is how the other processes of a line, one job at a time, see them.
`Halfway` is what they leave if they do not: `reset_modes()` clears `fixed_modes` after the
entry and before the mode, `set_modes()` sets it after the mode and before the entry, and
`intr()`, which `susp()` does not block, goes by `fixed_modes`; kill -9 may come between any
two. `EarlyStop` is ^Z in amin between `signal(SIGTSTP, susp)` (`amin.c:101`) and the end of
`fix_modes()`; the process goes into `early`, since for the others it is as if it had not
begun. `Astray` is what its `susp()` does after fg: it writes `newwrt`, zero (`Blank`) or
as far as it is set (`NewWrt`), at the first entry, at one that `find_wrttmp()`, whose loop
variable is `mypos`, is looking at, or at its own; then `saveperms()` fails and it dies, if
the name of its tty is not known yet, or `fix_modes()` goes on with the entry it finds.

## 3. Runs

| run | properties | bounds |
|---|---|---|
| `bank_lock` | `LockTypeOK`, `MutualExclusion`, `LockCallsEnd` | 3 processes, 1 nap, a clock that lets a lock get old |
| `bank_safety` | `BankTypeOK`, `LedgerExact`, `PostKeepsNotices`, `OverdrawnOnlyIfStale`, `LockSpec` | a customer and a banker, 3 accounts, 2 entries, amount 1, all commands |
| `bank_live` | `SessionsEnd` | the same, 2 accounts |
| `party` | `PartyTypeOK`, `OneLogUnlessRaced`, `OptionsMatch`, `JoinsEnd` | 2 processes, a kept and a temporary channel, 3 commands each |
| `who_safety` | `WhoTypeOK`, `ListedUnlessShared`, `ShownAreIn`, `EmptyIsEmpty` | 3 processes on 2 ttys, 2 subentries, 2 logins |
| `names_safety` | `NamesTypeOK`, `UniqueUnlessExcused`, `UniqAgrees` | 2 users, 3 processes, 3 words, 2 channels |
| `vote_safety` | `VoteTypeOK`, `BallotLegal`, `KeptIsOnRecord`, `HistoryEndsWithBallot`, `StarsAreTheVote` | 2 processes, 3 candidates, 2 positions, 2 ballot files |
| `sess_safety` | `SessTypeOK`, `UniqueIds`, `TimeHonest`, `KilledIsGone`, `StoreSpec` | 2 processes, 2 users, 2 ids, 2 entries, an expiry and a call of 1, one retry |
| `conf_safety` | `ConfTypeOK`, `CountsAgree`, `FlagsAgree`, `AuthorKillsUnanswered` | 3 processes, 4 requests, a conference with 2 numbers (links are within it), 2 item files, 2 responses, `editfrozen` |
| `wrt_safety` | `WrtTypeOK`, `OneEntryUnlessRaced`, `ShownIsTrue`, `ModesPutBack` | 2 processes on a tty with 2 logins, 1 on another; write, write -n, write -p, amin -y -p, mesg d on the one, a telegram on the other; until an accident (below) |

What they show:

* `bank_lock`: however `setlock()`, `unlock()` and kills interleave, a lock that
  was never blasted has one owner, and every call ends.
* `bank_safety`: under that condition no update of a balance is lost and no
  notice overwritten; a transfer overdraws the sender only if the balance has
  changed since it was read; and the program uses its locks as `BankLock` says.
* `bank_live`: every session ends, or reads on at the end of its input.
* `party`: those in a channel read what the others write, unless a join met a
  deletion; after a failed join the options are those of the old channel; every
  join ends.
* `who_safety`: a process with an entry of its own, on a tty of its user, is shown where
  it is, nobody is shown who has left, and a channel with two such processes is never
  found empty. Su and a missing tty are among the states it starts from.
* `names_safety`: two users in a channel have the same name only for the reasons
  that `Take` lists, and `who_uniqalias()` finds exactly the names of the others
  as long as every entry with a record has a first one.
* `vote_safety`: without any lock, no ballot ever has more lines than positions and,
  unless two casts meet between `unlink()` and `fopen()`, none is a mixture of two;
  the ballot that counts is on record, and is the last one there unless casts
  overlapped; the marks shown are the vote, cancelled votes included.
* `sess_safety`: the comment before `session_lookup()` is right: that it reads and
  writes without a lock does no more harm than to shift the time of another session
  by the length of a call. Ids are unique, a killed id does not come back, and
  the file with all its loops is a table of sessions: whoever has an id gets the user of
  that session, if it lives. Only an empty cookie is taken for a user whose session has
  ended (section 4).
* `conf_safety`: the sum file has the right number of responses and the right flags
  for every item that was not linked, whose number was not used twice, none of whose
  updates was cut short and, for the flags, that was not changed under a shared lock;
  an author's check that nobody has responded still holds at the `unlink()`,
  contrary to what the comment at `ps_edit.c:570` fears, unless the item is linked.
* `wrt_safety`: however write, amin and mesg are nested, stopped, resumed, disconnected
  and hung up, a tty has one entry; the entry says whom the innermost running write has
  connected to, or what amin runs, and nothing otherwise; and the user's mode and preferences
  are back whenever nothing runs, with what he has set in a shell escape. None of the three
  is so after the accidents named by `upset` and `raced`: section 4 says what the program
  does then. In particular it is not said of a tty where a signal came halfway through
  `reset_modes()`, nor of any tty when an amin that was stopped early has gone on.

**Why the bounds are enough.** Every race in these programs is between two
processes; the third one is there where two make a state that a third one meets
(two waiters and an owner of a lock, two invocations on one tty and another
tty). The clock is long enough for a lock file to get old while a new one is
fresh. Two entries of the transaction file make the search for a null one go
past a used one. Two ballot files of a voter are the one that is overwritten and the
one that overwrites it; three candidates for two positions make a mixture too long.
In the session file one entry is reused while another is looked up, and two ids
collide. `LoginFirst` of `MCSessFile` lets a request log in once, and only if it has come
without a session id: who logs in twice is two requests. Four requests in a conference are a post, an answer and two that meet on it;
five requests of two processes were checked too. Two processes on a tty
are one write in the shell of another, or one that is about to write the entry the other
has made, or a mesg in its shell that disconnects it; the third one takes the same new
slot. The constraint
`NoAccident` of `MCWrtTmp` stops a run where a line is `upset` and its processes have not all
ended, because the properties say nothing of that line until the next login; the run goes on
from there when they have. The balance file has an account of a user without a passwd
entry, whom `wealthy()` closes. The scaled constants (300 s, 5 naps, 8
subentries, `knockwait`) are parameters, and the proofs are for all their values.
Deadlock is not checked: processes end.

**Mutants.** Beside an action stand variants of it with a plausible bug (a lock
not taken, a bound off by one, an option not restored); each property of each
run above is violated by one of them.

## 4. Where the program and its documentation disagree

Two runs each state one sentence of the documentation or of a comment, which the
`findings` of `PROJECT.json` quote; TLC finds a run of the program that breaks it:

| run | property | what happens |
|---|---|---|
| `bank_credit` | `DebitIsCredited` | exit between debit and credit |
| `conf_kill` | `KilledIsDead` | a thaw writes a killed item's entry back |

The invariants of section 3 are what is left of such sentences: they name, with a
history variable or a condition, the circumstances in which the program breaks
the sentence, and say that it keeps it in all others.

Other faults met while modelling. The models have the behaviour; no run is kept
for them:

* `bank.c:827`: of two waiters that found the same old lock file, the second blasts
  the new lock of the first (`blasted` in `BankLock`);
* `bank.c:819`: if the lock is released between `open()` and `stat()`, `setlock()`
  exits without waiting;
* `bank.c:694`: a debt is read back one too high, because C's division of the odd
  encoding rounds towards zero (accounts in debt are set aside by `LedgerExact`);
* `bank.c:293`, `441`: transfers are compared with the balance read at the start
  of the session (`OverdrawnOnlyIfStale` says that this is the only way);
* `bank.c:424`: `asktrans()` compares the opening date the wrong way round;
* `bank.c:632`: `scantrans()`, which takes no lock, may null a notice that was
  put into the entry after it read it;
* `bank.c:714`: `openaccount()` replaces an account opened since it was looked at;
* `party.c:416`: a user who passed the door before `:close` joins afterwards;
* `party.c:504`: a join between the last leaver's `who_empty()` and its `unlink()`
  leaves two logs for one channel (`raced` in `PartyChannel`);
* `close.c:139`: `:invite` after somebody else's `:open` closes the channel again, to
  all but the invited user;
* `party.c:501`: the last two leave together, each counts the other, and the log
  stays;
* `close.c:236`: `inhelp` stays set after a knock that nobody answered;
* `users.c:101`: two processes append the same entry (`shared` in `PartyWho`);
* `users.c:117`: a third invocation wipes the record of the second one, if the first
  has left; `users.c:487`: `skipping` is left over from another entry if the first
  record of an entry is null (`Headless` in `PartyNames`);
* `users.c:189`: `who_exit()` never erases a header;
* `users.c:434`: a second subentry without a first is not counted;
* `users.c:573`: a record left by `kill -9` counts again after the next login;
* `users.c:626`: `sizeof` of a pointer cuts a login name off, and its owner is not
  shown (`Long` in `PartyWho`); `users.c:561`: nor is who runs party after su, although
  `input.c:542` reckons with that, or without a tty: two such users in a temporary
  channel are taken for nobody, and its log is deleted around them (`OnOwnTty`);
* `input.c:252`: `:name X` is looked up as `X` and taken as `x`; lookup and record
  are two steps; `input.c:671`: `setname()` does not ask for the uniquename option
  (all three are among the excuses of `UniqueUnlessExcused`);
* `board.c:231`, `vote.c:133`: two casts that both unlink before either creates the
  file write over each other (`raced` in `Vote`); `vote.c:135`: if `fopen()` fails
  the old ballot is gone already; `board.c:245`: `fclose()` is not looked at, so that
  a full disk loses a vote that is reported, and logged, as cast; `board.c:298`: the
  clock is looked at when the board starts, and a session that was open when the polls
  close may vote after the "ending time of the election" (`vote/doc/INSTALL:91`);
* `wrt_him.c:313`: `find_answer()` does not compare the login times, as its comment says,
  and may answer somebody who has logged in since;
* `lib_common.c:168`: two new entries take the same place (`raced` in `WrtTmp`);
* `wrt_me.c:131`: after a shell escape of `write -p` the temporary "a" is copied from the
  entry as if the user had set it, and stays for good;
* `wrt_me.c:94`: without `TTYPERMS` `write -n` has no effect: the old value is copied
  over itself;
* `amin.c:354`: `susp()` clears `fixed_modes` and nothing sets it again, so that a second
  ^Z leaves the temporary modes in place; `amin.c:367`: it does not look, as write does,
  whether mesg was used while it was stopped, and undoes that when it ends;
* `amin.c:101`: amin catches ^Z before it has opened the file and knows its entry. After fg
  `susp()` (`amin.c:367`) writes `newwrt`, which is still zero, over the first entry, or over
  the one that `find_wrttmp()` has just read: another tty loses its entry, and may get a
  second one from a write that had it in memory (`Astray`, `raced`);
* `wrt_me.c:151`: `reset_modes()` says that the modes are back before it has set the
  tty's, and `set_modes()` (`wrt_me.c:92`) changes the tty's before it says so. `susp()`
  blocks only SIGTSTP (`wrt_sig.c:83`): a SIGTERM or SIGHUP between the two and the tty of a
  `write -n` stays off (`Halfway`, `upset`);
* `wrt_sig.c:77`: the comment is right that stopped processes may go on in another order, but
  nested ones that get ^Z together must also handle it innermost first, and nothing
  sees to that; `wrt_sig.c:66`: a write that ends while its shell escape runs puts back an
  entry without what mesg has set there;
* `sess_file.c:225`: only the id of an ended session is cleared, and `session_lookup("")`
  (`sess_file.c:180`) finds it: a request with an empty cookie, such as
  `func_killsession()` sets (`session.c:117`), is taken for the user of the first erased
  entry of the file that has not expired (`AcceptEmpty` in `Sessions`);
* `sess_file.c:133`: neither is `write()`: the user has a cookie for no session;
* `ps_sum.c:517`: the `fclose()` of `item_sume()` drops the lock that the process
  holds on the linked item it is working on; `ps_sum.c:583`: `link_sum()` changes an
  entry without a lock (`linked` in `Conf`);
* `ps_post.c:513`: a response may come between the creation of an item and its lock,
  and is overwritten by the item's text (`WriteItem`); `ps_post.c:494`: the number of
  a killed item may be used again by a process that has looked earlier (`reused`).

## 5. Fairness

`LockFairSpec`, `BankFairSpec` and `PartyFairSpec` assume weak fairness of each
process's own steps and nothing else: a process that is not killed is scheduled,
and its user answers or hangs up, where the program waits for an answer. Kills,
the clock and new commands are not fair. With that `LockCallsEnd` says that
`setlock()` ends whatever became of the owner, `SessionsEnd` that a bank session
ends or reads on at the end of its input (the loop at `bank.c:232`), and
`JoinsEnd` that a join ends even at a door that nobody opens. `Vote`, `SessFile`,
`Conf` and `WrtTmp` state safety only: their programs wait for nothing but the kernel's locks.

## 6. Theorems

All are proved for any sets of processes, users, channels and names and any
value of the bounds, from the named assumptions beside the constants (types and
subset relations; party's set of processes is finite, because `who_empty()`
counts).

| theorem | states |
|---|---|
| `LockTypeCorrect`, `LockMutualExclusion` | `LockTypeOK`, `MutualExclusion` |
| `BankTypeCorrect`, `BankImplementsLock` | `BankTypeOK`, refinement of `LockSpec` |
| `BankLedgerExact`, `BankPostKeepsNotices`, `BankOverdrawnOnlyIfStale` | `LedgerExact`, `PostKeepsNotices`, `OverdrawnOnlyIfStale` |
| `PartyTypeCorrect`, `PartyOptionsMatch`, `PartyOneLog` | `PartyTypeOK`, `OptionsMatch`, `OneLogUnlessRaced` |
| `WhoTypeCorrect`, `WhoListed`, `WhoShownAreIn`, `WhoEmptyIsEmpty` | `WhoTypeOK`, `ListedUnlessShared`, `ShownAreIn`, `EmptyIsEmpty` |
| `NamesTypeCorrect`, `NamesUnique`, `NamesUniqAgrees` | `NamesTypeOK`, `UniqueUnlessExcused`, `UniqAgrees` |
| `VoteTypes`, `BallotsAreLegal`, `KeptAreOnRecord`, `HistoryEnds`, `StarsAreTrue` (from `VoteInvariant`) | the five properties of `vote_safety` |
| `SessTypes`, `IdsAreUnique`, `TimesAreHonest`, `KilledAreGone`, `SessFileImplementsSessions` (from `SessInvariant`) | the five properties of `sess_safety` |
| `ConfTypeCorrect`, `ConfCountsAgree`, `ConfFlagsAgree`, `ConfAuthorKills` | `ConfTypeOK`, `CountsAgree`, `FlagsAgree`, `AuthorKillsUnanswered` |
| `WrtTypes`, `OneEntry`, `ShownRight`, `PutBackRight` | `WrtTypeOK`, `OneEntryUnlessRaced`, `ShownIsTrue`, `ModesPutBack` |

The arguments:

* **Lock.** While a lock was not blasted, whoever has `fclock` set is the
  creator of the file that exists (`OwnFile`); a file has one creator.
* **Bank.** The control invariant says at which places of a session the process
  is outside, inside or in possession of which lock; so every step of a session
  maps to a step of `BankLock` or leaves the locks alone, and mutual exclusion
  carries over. `LedgerExact` needs `ReadCurrent`: between read and write under
  the lock, what was read is still what the file says, unless the account is
  excused. `PostKeepsNotices` needs the same of the entry found by the probe.
  `OverdrawnOnlyIfStale` needs `TransferCovered`: from `dotrans` to the write of the record
  the amount a session is to transfer is at most the balance it read (`mybal`).
* **Party.** `FilesInv`: the files open in a process in, or joining, a channel
  that was not raced are the channel's file. It is kept because whoever is about
  to unlink is alone (`AloneInv`), which holds because `who_empty()` reads records
  that agree with the processes (`RecordInv`). A failed join restores the options
  (`OptionsInv`, by label).
* **Who.** An entry that was never shared has one process (`SoleInv`), so its
  header and subentry are what that process wrote (`EntryInv`); a non-null
  subentry belongs to the process that wrote it (`RecordInv`). It is shown if the user is
  the owner of the tty (`HasEntry`). `EmptyIsEmpty` then counts two different places.
* **Names.** Records show the names of the processes in the main loop
  (`RecordInv`), and names are distinct from the moment of the check
  (`DistinctInv`). That the lookup is right rests on `NamesUniqAgrees`: if every
  entry has a first record, skipping means exactly "of the same login".

* **Vote.** `BallotLegal` needs that a file with an old, longer content is only
  written by processes that both had it open, and each of them writes at most as many
  lines as there are positions; `KeptIsOnRecord` that without `raced` and `fault` a
  process has the file it opened to itself from `fopen()` to the history.
* **Sessions.** Under the lock a scan has seen every entry up to `pos`, and only
  lookups change the file meanwhile, and only times; so the id being made is not in
  the part scanned (unique ids), the entry to be erased cannot have moved, and an
  entry found expired was last used too long ago, give or take the call that is about
  to touch it. The refinement maps a scan's reusable entry to `doomed`, the users in
  erased entries to `left`, and every step to one of `Sessions` or to a stutter.
* **Conf.** Everything is about a *sound* name: one that has a file, which never had
  another name and whose number nobody uses for another file. `WorkInv`: whoever works
  on a sound name has its file open or none, knows of no link, never scans the item
  file, and between the lock calls and the last `put_sum()` holds its lock (`Holds`),
  the exclusive one to write responses. So two writers of one entry exclude one another,
  and what `put_sum()` read is still the entry when it writes it back (`CountInv`,
  `ModeInv`). `CountsAgree` and `AuthorKillsUnanswered` follow: the count in a reader's
  hands (`got`), under the lock, is the file's. `FlagsAgree` needs more, as
  `item_mode()` and `fiximodes()` may run under a shared lock: sharers of a lock only
  look, if the file is not `loose` (`ShareInv`), and a file that has no item yet is
  neither frozen nor retired (`BlankInv`). The file, entry, lock and history variables
  each change in a few actions only (`DirChanges`, `NodeChanges`, `EntryChanges`, ...);
  a step is then proved once for the process that takes it and once for the others.
* **Write.** `SlotInv`: a slot that exists or is about to be written belongs to the tty of
  all processes that have it, and a tty whose entry is still to be made has none; so
  whoever writes first makes the entry, and the others write the same one. Every action
  but `Start` keeps each process's slot and tty (`StepKeepsSlots`); `Start` finds the least
  slot of its tty (`LeastOf`) or the end of the file. `ShownIsTrue` needs the tree of the
  processes of a login (`TreeInv`: those in whose shells one runs are in one another's) and
  what they remember: the entry a process will put back shows the one right above it, as
  the file shows the innermost that is on (`ShownBy`). That is kept because whoever is not
  stopped has all above it on (`Opened`), two that are not stopped are in one another's
  shells (`Running`), and below one that is stopped, or told to stop, all stop first
  (`Freezes`); an accident ends the login's part of the invariant (`Calm`). Once `raced` is
  true nothing but the types and the positions is claimed, and it stays true: `Astray`, which
  sets it, has only to keep these, and `EarlyStop` is `Leave` or `Halfway` for the rest
  (`StepShown`, `StepModes` are all other steps). A step of one
  process (`Own`) either goes on or ends, and is proved once for its line (`MovesLine`,
  `EndsLine`) and once for the others; steps that only send signals are apart
  (`SignalsLine`). The theorem holds while signals are on their way, too.

  `ModesPutBack` stands on the same tree (`ModesInvs`, proved together with it as `AllInv`).
  A setting made with mesg comes to last only if those in whose shells it was made leave it
  alone: all of them for the mode (`Clear`: none was started with -n), and for
  the preference all of them must also call `update_modes()`, which amin does not
  (`Lasting`). So `keep`, noted by mesg, is what these say of the processes above it
  (`Kept`), and a process that puts back a remembered mode puts back the user's
  (`PermInv`). The preference is harder, as `update_modes()` sees what mesg wrote only when
  its shell ends: there is a set B of processes, with each all those above it, in whose
  shells mesg has been used and who have not seen it yet; the entry, and what each process
  outside B remembers, is the user's choice or the `a` of a write -p among those above that
  is not in B (`Behind`, `Right`). A setting that lasts makes B everyone that is on; whoever
  comes back from its shell, or ends, leaves B. Between `find_wrttmp()` and `set_modes()` nothing on the
  line changes (`Fresh`), and the entry written is of this login (`Current`). A step is of
  one of few kinds for its line, each with a lemma: it puts its modes in place (`GoesOn`),
  takes them away (`GoesOff`), comes back from a shell (`Returns`), is mesg (`MesgSets`),
  or changes neither modes nor who is on (`Quiet`).

Every invariant, action property and refinement of the passing runs has a theorem. Only
model-checked: the liveness properties `LockCallsEnd`, `SessionsEnd` and `JoinsEnd`
(temporal reasoning with fairness is beyond the prover, as are ENABLED, induction over
data and RECURSIVE operators, which no module here uses), and of course the violations.

## 7. Left out of the models

* a hangup while `join_party()` closes the old channel's streams: a second
  `fclose()` of a closed stream, undefined in C (`party.c:496`);
* the failure path that closes `tmp_lfd` and restores `oumask` before they have
  values (`party.c:456`): an arbitrary descriptor;
* the race on `capacity`, which the source mentions and accepts
  (`party.c:106`);
* nouidname and `su` (login name and owner of the process differ) in
  `PartyNames`;
* in Backtalk: `createsum()` and the recreation of sum files, index and participation
  files, attachments, retitling that copies the item; the script interpreter, formats,
  hash files and mail are sequential;
* the other lock types of Backtalk (`lock.c` has four): the default, `fcntl()`, is
  modelled;
* in write: ^Z in amin before `init_wstream()`, which writes nowhere; ^C or a kill inside a
  piped escape (`|`, `&`), which leaves `susp()` by a `longjmp()`; mesg killed between its
  chmod and its write, which is a mesg with fewer options;
  who accepts messages (exceptions, helpers, root's password: a free choice), the
  history file of the window that answers, `wrt_last`, `.lastmesg`, pipes, and the text that
  two writers type on each other's ttys; process ids that are used again;
* wording, listings, mail notices, line editing.

## 8. Plan

Done: the modules of section 2, their runs and the theorems of section 6. Next, in
this order:

1. **More that holds**: who may be in a closed channel, which notices `scantrans()`
   may lose, and what becomes of an account that is opened twice, each with the
   record of the exception it needs.
2. **PartyChannel over PartyWho**: one module in which `who_empty()` scans the
   modelled file, so that `Unlisted` and `who` become a refinement mapping, and
   the conditions of `PartyWho` explain those of `PartyChannel`.
3. **The rest of a conference** (`index.c`, `ps_part.c`): index files that are
   extended after the lock is gone, and participation files.
4. **Orville write**: the history file of `wrt_hist.c`.
5. **Reading a log** (`output.c`, `ignore.c`) and **options** (`opt.c`) of party.
6. **robocop**: warnings and kills over successive scans of the process table.

Not planned: password hashing (numeric), print-only tools, shell scripts,
sequential menus and editors without shared state, vendored packages without shared
files.
