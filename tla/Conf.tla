-------------------------------- MODULE Conf --------------------------------
(* The items of Backtalk conferences and their sum files: every request is a *)
(* process of its own, and works on                                         *)
(*   - item files (here: inodes `node`), reached through the names _<n> of    *)
(*     the conference directories (`dir`), and locked with fcntl();           *)
(*   - the sum file of a conference: one entry per item with the number of    *)
(*     responses, the flags and the date of the last response.                *)
(* put_sum() rewrites a whole entry it has read before, under the lock of the *)
(* item: exclusive, but for a frozen item and for readers only shared.  An    *)
(* item may be linked into several conferences.  Its entries then go stale    *)
(* and are made afresh by whoever reads them (item_sume()), which opens and   *)
(* closes the item file, and closing a file drops every fcntl() lock on it.   *)
EXTENDS Integers, FiniteSets

CONSTANTS Proc,        \* processes
          NoProc,      \* holder of a lock that is free
          Confs,       \* conferences
          NoName,      \* no item
          MaxItem,     \* bound: highest item number
          MaxNode,     \* bound: item files ever created
          MaxResp,     \* bound: responses of a file, the item's text included
          MaxClock,    \* bound: the clock
          MaxCalls,    \* bound: requests
          EditFrozen   \* the configuration variable editfrozen

ASSUME ConfAssumption ==
  /\ NoProc \notin Proc /\ NoName \notin Confs \X (1 .. MaxItem)
  /\ MaxItem \in Nat /\ MaxNode \in Nat /\ MaxResp \in Nat /\ MaxClock \in Nat \ {0}
  /\ MaxCalls \in Nat
  /\ EditFrozen \in BOOLEAN

VARIABLES
  dir,     \* per item name: the inode, 0 if there is no such file
  node,    \* per inode: responses n, writable w, mode bit 0100 r, mtime t
  nodes,   \* inodes made so far
  entry,   \* per item name: the sum file entry
  last,    \* per conference: entries in the sum file
  ex, sh,  \* per inode: the holder of the exclusive, of the shared locks
  clock,   \* time()
  calls,   \* requests so far
  pc,      \* per process: where it is
  op,      \* per process: what it does
  item,    \* per process: the item name it works on
  from,    \* per process: the item name link_item() links from
  fd,      \* per process: the inode it has open, 0 if none
  st,      \* per process: struct stat
  ent,     \* per process: struct sume
  flag,    \* per process: the flag put_sum() is to change
  seen,    \* per process: the flags in the system dictionary
  linked,  \* history: inodes that have had two names
  torn,    \* history: inodes an update of which was cut short
  reused,  \* history: inodes whose number some other file had before
  loose    \* history: inodes whose mode was changed without an exclusive lock

files == <<dir, node, nodes>>
sumfile == <<entry, last>>
locks == <<ex, sh>>
locals == <<st, ent, flag, seen>>
history == <<linked, torn, reused, loose>>
vars == <<dir, node, nodes, entry, last, ex, sh, clock, calls, pc, op, item, from, fd,
          st, ent, flag, seen, linked, torn, reused, loose>>

Names == Confs \X (1 .. MaxItem)

Nodes == 1 .. MaxNode

\* SF_ACTIVE, SF_FROZEN, SF_RETIRED, SF_LINKED
Flags == {"A", "F", "R", "L"}

NoEntry == [n |-> 0, flags |-> {}, t |-> 0]

NoStat == [w |-> FALSE, r |-> FALSE, l |-> FALSE, t |-> 0]

NewNode == [n |-> 0, w |-> TRUE, r |-> FALSE, t |-> 0]

ModeOps == {"freeze", "thaw", "retire", "unretire"}
KillOps == {"kill", "authorkill"}
RespOps == {"resp", "expect"}

Init ==
  /\ dir = [nm \in Names |-> 0] /\ nodes = 0 /\ node = [d \in Nodes |-> NewNode]
  /\ entry = [nm \in Names |-> NoEntry] /\ last = [c \in Confs |-> 0]
  /\ ex = [d \in Nodes |-> NoProc] /\ sh = [d \in Nodes |-> {}]
  /\ clock = 1 /\ calls = 0
  /\ pc = [p \in Proc |-> "idle"] /\ op = [p \in Proc |-> "none"]
  /\ item = [p \in Proc |-> NoName] /\ from = [p \in Proc |-> NoName]
  /\ fd = [p \in Proc |-> 0] /\ st = [p \in Proc |-> NoStat]
  /\ ent = [p \in Proc |-> NoEntry] /\ flag = [p \in Proc |-> "F"]
  /\ seen = [p \in Proc |-> {}]
  /\ linked = {} /\ torn = {} /\ reused = {} /\ loose = {}

\* Number of names of an inode, st_nlink.
Linked(d) == \E m, k \in Names : m # k /\ dir[m] = d /\ dir[k] = d

\* get_sum() returns 0.
Live(e) == e.n # 0 /\ e.t # 0 /\ e.flags # {}

\* A request starts: operation, item, inode opened, first step.
Start(p, o, nm, d, where) ==
  /\ pc[p] = "idle" /\ calls < MaxCalls /\ calls' = calls + 1
  /\ op' = [op EXCEPT ![p] = o] /\ item' = [item EXCEPT ![p] = nm]
  /\ fd' = [fd EXCEPT ![p] = d] /\ pc' = [pc EXCEPT ![p] = where]

Go(p, where) ==
  /\ pc' = [pc EXCEPT ![p] = where]
  /\ UNCHANGED <<op, item, from, fd>>

\* Closing an item file drops the fcntl() locks the process has on it.
DropLocks(p, d) ==
  /\ ex' = IF ex[d] = p THEN [ex EXCEPT ![d] = NoProc] ELSE ex
  /\ sh' = [sh EXCEPT ![d] = @ \ {p}]

\* The request ends, and with it its locks.
Close(p) ==
  /\ pc' = [pc EXCEPT ![p] = "idle"] /\ op' = [op EXCEPT ![p] = "none"]
  /\ item' = [item EXCEPT ![p] = NoName] /\ from' = [from EXCEPT ![p] = NoName]
  /\ fd' = [fd EXCEPT ![p] = 0] /\ st' = [st EXCEPT ![p] = NoStat]
  /\ ent' = [ent EXCEPT ![p] = NoEntry] /\ flag' = [flag EXCEPT ![p] = "F"]
  /\ seen' = [seen EXCEPT ![p] = {}]
  /\ ex' = [d \in Nodes |-> IF ex[d] = p THEN NoProc ELSE ex[d]]
  /\ sh' = [d \in Nodes |-> sh[d] \ {p}]

-----------------------------------------------------------------------------
(* Opening and locking item files.                                         *)

\* post_resp() opens the file for writing, before it locks it.
OpenResp(p, o, nm) ==
  /\ dir[nm] # 0 /\ node[dir[nm]].w
  /\ Start(p, o, nm, dir[nm], "wantex")
  /\ UNCHANGED <<files, sumfile, locks, clock, from, locals, history>>

\* open_resp() without write: a frozen item is opened read only and locked shared.
OpenItem(p, o, nm) ==
  /\ dir[nm] # 0
  /\ Start(p, o, nm, dir[nm], IF node[dir[nm]].w THEN "wantex" ELSE "wantsh")
  /\ UNCHANGED <<files, sumfile, locks, clock, from, locals, history>>

\* open_resp() with write, and openitem(2), for an item that is not frozen.
OpenEdit(p, nm) ==
  /\ dir[nm] # 0 /\ node[dir[nm]].w
  /\ Start(p, "edit", nm, dir[nm], "wantex")
  /\ UNCHANGED <<files, sumfile, locks, clock, from, locals, history>>

\* The same for a frozen one, if editfrozen: the mode is read, and writing allowed.
EditThaw(p, nm) ==
  /\ EditFrozen
  /\ dir[nm] # 0 /\ ~node[dir[nm]].w
  /\ Start(p, "edit", nm, 0, "thawed")
  /\ st' = [st EXCEPT ![p] = [NoStat EXCEPT !.r = node[dir[nm]].r]]
  /\ node' = [node EXCEPT ![dir[nm]].w = TRUE]
  /\ loose' = loose \cup {dir[nm]}
  /\ UNCHANGED <<dir, nodes, sumfile, locks, clock, from, ent, flag, seen, linked, torn, reused>>

\* "Try opening it again"
EditReopen(p) ==
  /\ pc[p] = "thawed"
  /\ LET d == dir[item[p]]
     IN fd' = [fd EXCEPT ![p] = IF d # 0 /\ node[d].w THEN d ELSE 0]
  /\ pc' = [pc EXCEPT ![p] = "restore"]
  /\ UNCHANGED <<files, sumfile, locks, clock, calls, op, item, from, locals, history>>

\* "Immediately restore the old perms"; the open may have failed.
EditRestore(p) ==
  /\ pc[p] = "restore"
  /\ LET d == dir[item[p]]
     IN /\ node' = IF d = 0 THEN node
                   ELSE [node EXCEPT ![d].w = st[p].w, ![d].r = st[p].r]
        /\ loose' = IF d = 0 THEN loose ELSE loose \cup {d}
  /\ IF fd[p] # 0 THEN Go(p, "wantex") /\ UNCHANGED <<locks, locals>> ELSE Close(p)
  /\ UNCHANGED <<dir, nodes, sumfile, clock, calls, linked, torn, reused>>

\* Mutant of LockEx: a shared lock of somebody else does not count.
LockExShared(p) ==
  /\ pc[p] = "wantex" /\ ex[fd[p]] = NoProc
  /\ ex' = [ex EXCEPT ![fd[p]] = p]
  /\ Go(p, "locked")
  /\ UNCHANGED <<files, sumfile, sh, clock, calls, locals, history>>

\* lock_exclusive()
LockEx(p) ==
  /\ pc[p] = "wantex" /\ ex[fd[p]] = NoProc /\ sh[fd[p]] = {}
  /\ ex' = [ex EXCEPT ![fd[p]] = p]
  /\ Go(p, "locked")
  /\ UNCHANGED <<files, sumfile, sh, clock, calls, locals, history>>

\* lock_shared(); two such locks, one of them of a process that changes the entry
\* for good, leave the item unprotected.
LockSh(p) ==
  /\ pc[p] = "wantsh" /\ ex[fd[p]] = NoProc
  /\ sh' = [sh EXCEPT ![fd[p]] = @ \cup {p}]
  /\ loose' = IF \E q \in sh[fd[p]] : op[p] # "view" \/ op[q] # "view"
              THEN loose \cup {fd[p]} ELSE loose
  /\ Go(p, "locked")
  /\ UNCHANGED <<files, sumfile, ex, clock, calls, locals, linked, torn, reused>>

\* open_resp() finds no response in a file that is still empty; or the user is
\* refused, or the item is in the wanted mode, or the response hidden, already.
Refused(p) ==
  /\ pc[p] = "locked" /\ op[p] \in ModeOps \cup KillOps \cup {"edit"}
  /\ Close(p)
  /\ UNCHANGED <<files, sumfile, clock, calls, history>>

-----------------------------------------------------------------------------
(* get_sum() and put_sum().                                                *)

\* get_sum(): no such entry counts as a dead one.
GetRead(p) ==
  /\ pc[p] = "get"
  /\ ent' = [ent EXCEPT ![p] = entry[item[p]]]
  /\ Go(p, IF "L" \in entry[item[p]].flags THEN "getscan" ELSE "got")
  /\ UNCHANGED <<files, sumfile, locks, clock, calls, st, flag, seen, history>>

\* An entry made from the file.
Sume(d) ==
  [n |-> node[d].n, t |-> node[d].t,
   flags |-> {"A"} \cup (IF node[d].w THEN {} ELSE {"F"})
                   \cup (IF node[d].r THEN {"R"} ELSE {})
                   \cup (IF Linked(d) THEN {"L"} ELSE {})]

\* item_sume(): the entry is made afresh if the file has another date, and blank
\* without a file.  Its fclose() drops the lock.
Scan(p) ==
  /\ pc[p] \in {"getscan", "putscan"}
  /\ LET d == dir[item[p]]
         rebuilt == d = 0 \/ ent[p].t # node[d].t
     IN /\ ent' = IF ~rebuilt THEN ent
                  ELSE [ent EXCEPT ![p] = IF d = 0 THEN NoEntry ELSE Sume(d)]
        /\ Go(p, IF pc[p] = "getscan" THEN (IF rebuilt THEN "getback" ELSE "got")
                                      ELSE (IF rebuilt THEN "putback" ELSE "add"))
        /\ IF d = 0 THEN UNCHANGED locks ELSE DropLocks(p, d)
  /\ UNCHANGED <<files, sumfile, clock, calls, st, flag, seen, history>>

\* The new entry is written.
PutBack(p) ==
  /\ pc[p] \in {"getback", "putback"}
  /\ entry' = [entry EXCEPT ![item[p]] = ent[p]]
  /\ Go(p, IF pc[p] = "getback" THEN "got" ELSE "noadd")
  /\ UNCHANGED <<files, last, locks, clock, calls, locals, history>>

\* put_sum(), the old values.
PutRead(p) ==
  /\ pc[p] = "put" /\ item[p][2] <= last[item[p][1]]
  /\ ent' = [ent EXCEPT ![p] = entry[item[p]]]
  /\ Go(p, IF "L" \in entry[item[p]].flags THEN "putscan" ELSE "add")
  /\ UNCHANGED <<files, sumfile, locks, clock, calls, st, flag, seen, history>>

\* "Attempt to update nonexistant sum file entry"
PutDies(p) ==
  /\ pc[p] = "put" /\ item[p][2] > last[item[p][1]]
  /\ torn' = IF op[p] \in RespOps THEN torn \cup {fd[p]} ELSE torn
  /\ Close(p)
  /\ UNCHANGED <<files, sumfile, clock, calls, linked, reused, loose>>

\* Mutant of NewCount: incremented after a recount as well, and by any operation.
NewCountAlways(p) == ent[p].n + 1

\* resp_no: 0 for kill_item(), -2 for post_resp(), -1 for the others.
NewCount(p) ==
  IF op[p] \in KillOps THEN 0
  ELSE IF op[p] \in RespOps /\ pc[p] = "add" THEN ent[p].n + 1 ELSE ent[p].n

\* Mutant of SetFlag: the flag is assigned, not added.
SetFlagOnly(fl, f, on) == IF on THEN {f} ELSE fl \ {f}

SetFlag(fl, f, on) == IF on THEN fl \cup {f} ELSE fl \ {f}

\* What is turned on or off: by item_mode() the flag of the command, by
\* fiximodes() the one that is wrong, by kill_item() everything.
NewFlags(p) ==
  CASE op[p] \in KillOps -> {}
    [] op[p] \in ModeOps -> SetFlag(ent[p].flags, flag[p], op[p] \in {"freeze", "retire"})
    [] op[p] = "view" -> SetFlag(ent[p].flags, flag[p], flag[p] \in seen[p])
    [] OTHER -> ent[p].flags

\* put_sum(), the new values.
NewEntry(p) ==
  [n |-> NewCount(p), flags |-> NewFlags(p),
   t |-> IF op[p] \in RespOps THEN st[p].t ELSE ent[p].t]

\* put_sum() of post_resp() and of kill_item() is the last they do.
PutLast(p) ==
  /\ pc[p] \in {"add", "noadd"} /\ op[p] \in RespOps \cup KillOps
  /\ entry' = [entry EXCEPT ![item[p]] = NewEntry(p)]
  /\ Close(p)
  /\ UNCHANGED <<files, last, clock, calls, history>>

\* put_sum() of item_mode() and of fiximodes() is not.
PutFlags(p) ==
  /\ pc[p] \in {"add", "noadd"} /\ op[p] \in ModeOps \cup {"view"}
  /\ entry' = [entry EXCEPT ![item[p]] = NewEntry(p)]
  /\ Go(p, IF op[p] = "view" THEN "fix" ELSE "chmod")
  /\ ent' = [ent EXCEPT ![p] = NoEntry]
  /\ UNCHANGED <<files, last, locks, clock, calls, st, flag, seen, history>>

-----------------------------------------------------------------------------
(* post_item()                                                             *)

\* "Find and create the next available item file"
PostItem(p, c) ==
  /\ last[c] < MaxItem
  /\ Start(p, "post", <<c, last[c] + 1>>, 0, "create")
  /\ UNCHANGED <<files, sumfile, locks, clock, from, locals, history>>

NextName(p) ==
  /\ item[p][2] < MaxItem
  /\ item' = [item EXCEPT ![p] = <<@[1], @[2] + 1>>]
  /\ UNCHANGED <<files, sumfile, locks, clock, calls, pc, op, from, fd, locals, history>>

\* EEXIST
CreateExists(p) == pc[p] = "create" /\ dir[item[p]] # 0 /\ NextName(p)

\* q is at work on an item it has found or made.
Busy(q) == pc[q] \notin {"create", "link"}

\* The file is made.  last_no() is out of date by now: another item may have had
\* the number, its entry or a process that has it open may be left.
CreateItem(p) ==
  /\ pc[p] = "create" /\ dir[item[p]] = 0 /\ nodes < MaxNode
  /\ nodes' = nodes + 1
  /\ dir' = [dir EXCEPT ![item[p]] = nodes + 1]
  /\ node' = [node EXCEPT ![nodes + 1] = [NewNode EXCEPT !.t = clock]]
  /\ fd' = [fd EXCEPT ![p] = nodes + 1]
  /\ pc' = [pc EXCEPT ![p] = "wantex"]
  /\ reused' = IF \/ entry[item[p]] # NoEntry
                  \/ \E q \in Proc : Busy(q) /\ item[p] \in {item[q], from[q]}
               THEN reused \cup {nodes + 1} ELSE reused
  /\ UNCHANGED <<sumfile, locks, clock, calls, op, item, from, locals, linked, torn, loose>>

\* write_item(), from the start of the file: whatever a response that came between
\* open() and lock_exclusive() has left there is overwritten, in part or wholly.
WriteItem(p) ==
  /\ pc[p] = "locked" /\ op[p] = "post"
  /\ \E k \in 1 .. MaxResp :
       /\ k = 1 \/ k <= node[fd[p]].n
       /\ node' = [node EXCEPT ![fd[p]].n = k, ![fd[p]].t = clock]
  /\ torn' = IF node[fd[p]].n > 0 THEN torn \cup {fd[p]} ELSE torn
  /\ st' = [st EXCEPT ![p].t = clock]
  /\ Go(p, "putnew")
  /\ UNCHANGED <<dir, nodes, sumfile, locks, clock, calls, ent, flag, seen, linked, reused, loose>>

\* "Delete any incompletely posted item"
WriteItemFails(p) ==
  /\ pc[p] = "locked" /\ op[p] = "post"
  /\ dir' = [dir EXCEPT ![item[p]] = 0]
  /\ Close(p)
  /\ UNCHANGED <<node, nodes, sumfile, clock, calls, history>>

Extend(nm) == last' = IF nm[2] > last[nm[1]] THEN [last EXCEPT ![nm[1]] = nm[2]] ELSE last

\* put_sum() with every value given; a gap before the entry reads as zeros.
PutNew(p) ==
  /\ pc[p] = "putnew"
  /\ entry' = [entry EXCEPT ![item[p]] = [n |-> 1, flags |-> {"A"}, t |-> st[p].t]]
  /\ Extend(item[p])
  /\ Close(p)
  /\ UNCHANGED <<files, clock, calls, history>>

-----------------------------------------------------------------------------
(* post_resp(), the item being open and locked.                            *)

\* expect_resp is set (to 1: the user has seen the item's text only).
ExpectResp(p) ==
  /\ pc[p] = "locked" /\ op[p] = "expect"
  /\ Go(p, "get")
  /\ UNCHANGED <<files, sumfile, locks, clock, calls, locals, history>>

\* "item vanished while responding", or somebody else has responded.
RespLate(p) ==
  /\ pc[p] = "got" /\ op[p] = "expect"
  /\ ~Live(ent[p]) \/ ent[p].n > 1
  /\ Close(p)
  /\ UNCHANGED <<files, sumfile, clock, calls, history>>

MayWrite(p) ==
  \/ pc[p] = "locked" /\ op[p] = "resp"
  \/ pc[p] = "got" /\ op[p] = "expect" /\ Live(ent[p]) /\ ent[p].n <= 1

\* The response is appended, fstat() gives its date.
WriteResp(p) ==
  /\ MayWrite(p) /\ node[fd[p]].n < MaxResp
  /\ node' = [node EXCEPT ![fd[p]].n = @ + 1, ![fd[p]].t = clock]
  /\ st' = [st EXCEPT ![p].t = clock] /\ ent' = [ent EXCEPT ![p] = NoEntry]
  /\ Go(p, "put")
  /\ UNCHANGED <<dir, nodes, sumfile, locks, clock, calls, flag, seen, history>>

\* "Chop off any incomplete response"
WriteRespFails(p) ==
  /\ MayWrite(p)
  /\ node' = [node EXCEPT ![fd[p]].t = clock]
  /\ Close(p)
  /\ UNCHANGED <<dir, nodes, sumfile, clock, calls, history>>

-----------------------------------------------------------------------------
(* item_mode(), kill_item(), and the edits.                                *)

\* fstat(), and the mode is not yet what is wanted.
ModeStat(p) ==
  /\ pc[p] = "locked" /\ op[p] \in ModeOps /\ node[fd[p]].n > 0
  /\ CASE op[p] = "freeze" -> node[fd[p]].w
       [] op[p] = "thaw" -> ~node[fd[p]].w
       [] op[p] = "retire" -> ~node[fd[p]].r
       [] op[p] = "unretire" -> node[fd[p]].r
  /\ st' = [st EXCEPT ![p].w = node[fd[p]].w, ![p].r = node[fd[p]].r]
  /\ flag' = [flag EXCEPT ![p] = IF op[p] \in {"freeze", "thaw"} THEN "F" ELSE "R"]
  /\ Go(p, "put")
  /\ UNCHANGED <<files, sumfile, locks, clock, calls, ent, seen, history>>

\* fchmod()
Chmod(p) ==
  /\ pc[p] = "chmod"
  /\ node' = [node EXCEPT
       ![fd[p]].w = IF op[p] \in {"freeze", "thaw"} THEN op[p] = "thaw" ELSE st[p].w,
       ![fd[p]].r = IF op[p] \in {"retire", "unretire"} THEN op[p] = "retire" ELSE st[p].r]
  /\ Close(p)
  /\ UNCHANGED <<dir, nodes, sumfile, clock, calls, history>>

\* An author who is no fairwitness: get_sum().
KillCheck(p) ==
  /\ pc[p] = "locked" /\ op[p] = "authorkill" /\ node[fd[p]].n > 0
  /\ Go(p, "get")
  /\ UNCHANGED <<files, sumfile, locks, clock, calls, locals, history>>

\* Mutant of MayKill: one response is no hindrance.
MayKillAnswered(p) == Live(ent[p]) /\ ent[p].n <= 2

MayKill(p) == Live(ent[p]) /\ ent[p].n <= 1

KillRefused(p) ==
  /\ pc[p] = "got" /\ op[p] = "authorkill" /\ ~MayKill(p)
  /\ Close(p)
  /\ UNCHANGED <<files, sumfile, clock, calls, history>>

\* "Nuke the file"
Unlink(p) ==
  /\ \/ pc[p] = "locked" /\ op[p] = "kill" /\ node[fd[p]].n > 0
     \/ pc[p] = "got" /\ op[p] = "authorkill" /\ MayKill(p)
  /\ dir' = [dir EXCEPT ![item[p]] = 0]
  /\ ent' = [ent EXCEPT ![p] = NoEntry]
  /\ Go(p, "put")
  /\ UNCHANGED <<node, nodes, sumfile, locks, clock, calls, st, flag, seen, history>>

\* hide_resp(), erase_resp(), retitle_item(), edit_resp(): only the date matters.
EditWrite(p) ==
  /\ pc[p] = "locked" /\ op[p] = "edit" /\ node[fd[p]].n > 0
  /\ node' = [node EXCEPT ![fd[p]].t = clock]
  /\ Close(p)
  /\ UNCHANGED <<dir, nodes, sumfile, clock, calls, history>>

-----------------------------------------------------------------------------
(* A reader: get_sum(), then itemhead() with openitem(0) and fiximodes().  *)

View(p, nm) ==
  /\ nm[2] <= last[nm[1]]
  /\ Start(p, "view", nm, 0, "get")
  /\ UNCHANGED <<files, sumfile, locks, clock, from, locals, history>>

\* The item is dead, or its file cannot be opened, or nothing more is read.
ViewEnds(p) ==
  /\ pc[p] = "got" /\ op[p] = "view"
  /\ Close(p)
  /\ UNCHANGED <<files, sumfile, clock, calls, history>>

ViewOpen(p) ==
  /\ pc[p] = "got" /\ op[p] = "view" /\ Live(ent[p]) /\ dir[item[p]] # 0
  /\ fd' = [fd EXCEPT ![p] = dir[item[p]]]
  /\ seen' = [seen EXCEPT ![p] = ent[p].flags] /\ ent' = [ent EXCEPT ![p] = NoEntry]
  /\ pc' = [pc EXCEPT ![p] = "wantsh"]
  /\ UNCHANGED <<files, sumfile, locks, clock, calls, op, item, from, st, flag, history>>

ViewStat(p) ==
  /\ pc[p] = "locked" /\ op[p] = "view"
  /\ st' = [st EXCEPT ![p] = [w |-> node[fd[p]].w, r |-> node[fd[p]].r,
                              l |-> Linked(fd[p]), t |-> 0]]
  /\ Go(p, "fix")
  /\ UNCHANGED <<files, sumfile, locks, clock, calls, ent, flag, seen, history>>

\* The flags fiximodes() finds wrong, given what get_sum() returned.
Wrong(p) ==
  {f \in {"L", "F", "R"} :
     (f \in seen[p]) # (CASE f = "L" -> st[p].l [] f = "F" -> ~st[p].w [] f = "R" -> st[p].r)}

\* In the order linked, frozen, retired.
FirstWrong(p) ==
  IF "L" \in Wrong(p) THEN "L" ELSE IF "F" \in Wrong(p) THEN "F" ELSE "R"

Fix(p) ==
  /\ pc[p] = "fix" /\ Wrong(p) # {}
  /\ flag' = [flag EXCEPT ![p] = FirstWrong(p)]
  /\ seen' = [seen EXCEPT ![p] = SetFlag(@, FirstWrong(p), FirstWrong(p) \notin @)]
  /\ Go(p, "put")
  /\ UNCHANGED <<files, sumfile, locks, clock, calls, st, ent, history>>

Fixed(p) ==
  /\ pc[p] = "fix" /\ Wrong(p) = {}
  /\ Close(p)
  /\ UNCHANGED <<files, sumfile, clock, calls, history>>

-----------------------------------------------------------------------------
(* link_item() and link_sum().                                             *)

LinkItem(p, c, nm) ==
  /\ last[c] < MaxItem
  /\ Start(p, "link", <<c, last[c] + 1>>, 0, "link")
  /\ from' = [from EXCEPT ![p] = nm]
  /\ UNCHANGED <<files, sumfile, locks, clock, locals, history>>

LinkExists(p) ==
  pc[p] = "link" /\ dir[from[p]] # 0 /\ dir[item[p]] # 0 /\ NextName(p)

\* "no such item"
LinkNone(p) ==
  /\ pc[p] = "link" /\ dir[from[p]] = 0
  /\ Close(p)
  /\ UNCHANGED <<files, sumfile, clock, calls, history>>

LinkMade(p) ==
  /\ pc[p] = "link" /\ dir[from[p]] # 0 /\ dir[item[p]] = 0
  /\ dir' = [dir EXCEPT ![item[p]] = dir[from[p]]]
  /\ linked' = linked \cup {dir[from[p]]}
  /\ Go(p, "linkread")
  /\ UNCHANGED <<node, nodes, sumfile, locks, clock, calls, locals, torn, reused, loose>>

\* "Read original sum file entry"
LinkRead(p) ==
  /\ pc[p] = "linkread" /\ from[p][2] <= last[from[p][1]]
  /\ ent' = [ent EXCEPT ![p] = entry[from[p]]]
  /\ Go(p, IF "L" \in entry[from[p]].flags THEN "linkdst" ELSE "linkmark")
  /\ UNCHANGED <<files, sumfile, locks, clock, calls, st, flag, seen, history>>

LinkDies(p) ==
  /\ pc[p] = "linkread" /\ from[p][2] > last[from[p][1]]
  /\ Close(p)
  /\ UNCHANGED <<files, sumfile, clock, calls, history>>

\* "Write back modified sum-file entry"
LinkMark(p) ==
  /\ pc[p] = "linkmark"
  /\ ent' = [ent EXCEPT ![p].flags = @ \cup {"L"}]
  /\ entry' = [entry EXCEPT ![from[p]] = ent'[p]]
  /\ Go(p, "linkdst")
  /\ UNCHANGED <<files, last, locks, clock, calls, st, flag, seen, history>>

LinkDst(p) ==
  /\ pc[p] = "linkdst"
  /\ entry' = [entry EXCEPT ![item[p]] = ent[p]]
  /\ Extend(item[p])
  /\ Close(p)
  /\ UNCHANGED <<files, clock, calls, history>>

-----------------------------------------------------------------------------
\* p has written to the file and not yet to the sum file.
Pending(p) ==
  /\ op[p] \in RespOps \cup {"post"}
  /\ pc[p] \in {"put", "putscan", "putback", "add", "noadd", "putnew"}

\* p has done one half of an update: written to the file and not to the sum file,
\* removed the file, or written to the sum file and not changed the mode.
HalfDone(p) ==
  \/ Pending(p)
  \/ op[p] \in KillOps /\ pc[p] \in {"put", "putscan", "putback", "add", "noadd"}
  \/ pc[p] = "chmod"

\* The web server or the user ends the process.
Crash(p) ==
  /\ pc[p] # "idle"
  /\ torn' = IF HalfDone(p) THEN torn \cup {fd[p]} ELSE torn
  /\ Close(p)
  /\ UNCHANGED <<files, sumfile, clock, calls, linked, reused, loose>>

Tick ==
  /\ clock < MaxClock
  /\ clock' = clock + 1
  /\ UNCHANGED <<files, sumfile, locks, calls, pc, op, item, from, fd, locals, history>>

OpenStep(p) ==
  \/ \E nm \in Names : \/ \E o \in RespOps : OpenResp(p, o, nm)
                       \/ \E o \in ModeOps \cup KillOps : OpenItem(p, o, nm)
                       \/ OpenEdit(p, nm) \/ EditThaw(p, nm) \/ View(p, nm)
                       \/ \E c \in Confs : LinkItem(p, c, nm)
  \/ \E c \in Confs : PostItem(p, c)
  \/ EditReopen(p) \/ EditRestore(p) \/ LockEx(p) \/ LockSh(p) \/ Refused(p)

SumStep(p) ==
  \/ GetRead(p) \/ Scan(p) \/ PutBack(p) \/ PutRead(p) \/ PutDies(p)
  \/ PutLast(p) \/ PutFlags(p) \/ PutNew(p)

PostStep(p) ==
  \/ CreateExists(p) \/ CreateItem(p) \/ WriteItem(p) \/ WriteItemFails(p)
  \/ ExpectResp(p) \/ RespLate(p) \/ WriteResp(p) \/ WriteRespFails(p)

ItemStep(p) ==
  \/ ModeStat(p) \/ Chmod(p) \/ KillCheck(p) \/ KillRefused(p) \/ Unlink(p)
  \/ EditWrite(p)
  \/ ViewEnds(p) \/ ViewOpen(p) \/ ViewStat(p) \/ Fix(p) \/ Fixed(p)

LinkStep(p) ==
  \/ LinkExists(p) \/ LinkNone(p) \/ LinkMade(p) \/ LinkRead(p) \/ LinkDies(p)
  \/ LinkMark(p) \/ LinkDst(p)

Next ==
  \/ \E p \in Proc : OpenStep(p) \/ SumStep(p) \/ PostStep(p) \/ ItemStep(p)
                     \/ LinkStep(p) \/ Crash(p)
  \/ Tick

Spec == Init /\ [][Next]_vars

-----------------------------------------------------------------------------
(* Properties.                                                             *)

PCs == {"idle", "wantex", "wantsh", "locked", "thawed", "restore", "create",
        "putnew", "get", "getscan", "getback", "got", "put", "putscan",
        "putback", "add", "noadd", "chmod", "fix", "link", "linkread",
        "linkmark", "linkdst"}

Ops == RespOps \cup ModeOps \cup KillOps \cup {"none", "post", "edit", "view", "link"}

Entries == [n : Nat, flags : SUBSET Flags, t : 0 .. MaxClock]

\* Every variable has its type; a process waiting for or holding a lock has the
\* file open, and an exclusive lock excludes every other.
ConfTypeOK ==
  /\ dir \in [Names -> 0 .. nodes] /\ nodes \in 0 .. MaxNode
  /\ node \in [Nodes -> [n : Nat, w : BOOLEAN, r : BOOLEAN, t : 0 .. MaxClock]]
  /\ entry \in [Names -> Entries] /\ last \in [Confs -> 0 .. MaxItem]
  /\ ex \in [Nodes -> Proc \cup {NoProc}] /\ sh \in [Nodes -> SUBSET Proc]
  /\ clock \in 0 .. MaxClock /\ calls \in 0 .. MaxCalls
  /\ pc \in [Proc -> PCs] /\ op \in [Proc -> Ops]
  /\ item \in [Proc -> Names \cup {NoName}] /\ from \in [Proc -> Names \cup {NoName}]
  /\ fd \in [Proc -> 0 .. nodes]
  /\ st \in [Proc -> [w : BOOLEAN, r : BOOLEAN, l : BOOLEAN, t : 0 .. MaxClock]]
  /\ ent \in [Proc -> Entries] /\ flag \in [Proc -> {"F", "R", "L"}]
  /\ seen \in [Proc -> SUBSET Flags]
  /\ linked \subseteq Nodes /\ torn \subseteq Nodes /\ reused \subseteq Nodes /\ loose \subseteq Nodes
  /\ \A d \in Nodes : ex[d] # NoProc => sh[d] = {} /\ fd[ex[d]] = d

\* The sum file counts the responses: for an item that has a file, that was never
\* linked and none of whose updates was cut short by the death of a process, its
\* entry has as many responses as the file, but for one just being posted.
CountsAgree ==
  \A nm \in Names :
    LET d == dir[nm]
    IN d # 0 /\ d \notin linked \cup torn \cup reused /\ (\A p \in Proc : fd[p] = d => ~Pending(p))
       => entry[nm].n = node[d].n

\* The sum file shows who may respond: its flags say frozen and retired as the mode
\* of the file does, unless somebody is changing them or could once change them
\* without an exclusive lock.
FlagsAgree ==
  \A nm \in Names :
    LET d == dir[nm]
    IN /\ d # 0 /\ d \notin linked \cup torn \cup reused \cup loose
       /\ \A p \in Proc : fd[p] = d => pc[p] # "chmod"
       => /\ ("F" \in entry[nm].flags) = ~node[d].w
          /\ ("R" \in entry[nm].flags) = node[d].r

\* kill_item() by an author: the check that nobody has responded still holds when
\* the file is removed, if the item was never linked.
AuthorKillsUnanswered ==
  \A p \in Proc :
    /\ pc[p] = "got" /\ op[p] = "authorkill" /\ MayKill(p)
    /\ dir[item[p]] = fd[p] /\ fd[p] \notin linked \cup torn \cup reused
    => node[fd[p]].n <= 1

\* kill_item(): "Scrub it from sum file".  Once nobody is at work, an item without
\* a file has no live entry, if no update was cut short, no item linked and no number
\* used twice.
KilledIsDead ==
  (\A p \in Proc : pc[p] = "idle") /\ torn = {} /\ linked = {} /\ reused = {}
  => \A nm \in Names : dir[nm] = 0 => ~Live(entry[nm])
=============================================================================
