----------------------------- MODULE ConfProofs -----------------------------
(* Proofs about the items of Backtalk conferences and their sum files, for    *)
(* any number of processes, conferences and items.                            *)
EXTENDS Conf, TLAPS

\* The places of put_sum(), of get_sum(), and those of link_item() after link().
PutPCs == {"put", "putscan", "putback", "add", "noadd"}
GetPCs == {"get", "getscan", "getback", "got"}
LinkPCs == {"linkread", "linkmark", "linkdst"}

\* Which operation can be where, and whether it has the item file open there.
Control(p) ==
  /\ pc[p] \in {"idle", "thawed", "create", "link"} \cup LinkPCs => fd[p] = 0
  /\ pc[p] \in {"wantex", "wantsh", "locked", "putnew", "chmod", "fix"} \cup PutPCs => fd[p] # 0
  /\ pc[p] \in GetPCs => IF op[p] = "view" THEN fd[p] = 0 ELSE fd[p] # 0
  /\ pc[p] # "idle" => item[p] \in Names
  /\ pc[p] \in {"link"} \cup LinkPCs => from[p] \in Names /\ op[p] = "link"
  /\ pc[p] \in {"thawed", "restore"} => op[p] = "edit"
  /\ pc[p] \in {"create", "putnew"} => op[p] = "post"
  /\ pc[p] = "wantex" => op[p] \in RespOps \cup ModeOps \cup KillOps \cup {"edit", "post"}
  /\ pc[p] = "wantsh" => op[p] \in ModeOps \cup KillOps \cup {"view"}
  /\ pc[p] = "locked" => op[p] \in RespOps \cup ModeOps \cup KillOps \cup {"edit", "post", "view"}
  /\ pc[p] \in GetPCs => op[p] \in {"view", "expect", "authorkill"}
  /\ pc[p] \in PutPCs => op[p] \in RespOps \cup ModeOps \cup KillOps \cup {"view"}
  /\ pc[p] = "chmod" => op[p] \in ModeOps
  /\ pc[p] = "fix" => op[p] = "view"

\* A process that has not found an item yet has read nothing.
Fresh(p) ==
  /\ pc[p] = "idle" => item[p] = NoName
  /\ pc[p] \notin {"link"} \cup LinkPCs => from[p] = NoName
  /\ pc[p] \in {"idle", "create", "link"}
     => "L" \notin ent[p].flags /\ seen[p] = {} /\ ~st[p].l /\ flag[p] = "F"

\* A lock is held by a process that has the file open.
LockInv ==
  \A d \in Nodes, p \in Proc : ex[d] = p \/ p \in sh[d] => fd[p] = d

\* nm is the one name its file ever had, and nobody uses it for another file.
Sound(nm) == dir[nm] # 0 /\ dir[nm] \notin linked \cup reused

\* A file of two names is in linked.
NamesInv == \A m, k \in Names : m # k /\ dir[m] = dir[k] /\ dir[m] # 0 => dir[m] \in linked

\* The places where a process has its item locked.
LockedPCs == {"locked", "putnew", "put", "add", "chmod", "fix"}
InLock(p) == pc[p] \in LockedPCs \/ (pc[p] \in {"get", "got"} /\ op[p] # "view")

\* Who works on a sound name has its file open or none, never scans it, knows of no
\* link, and does not hold on to it after removing it.
Work(p, nm) ==
  /\ fd[p] = dir[nm] => item[p] = nm
  /\ from[p] = nm => pc[p] = "link"
  /\ item[p] = nm /\ Busy(p) =>
       /\ fd[p] \in {0, dir[nm]}
       /\ pc[p] \notin {"getscan", "getback", "putscan", "putback", "noadd"} \cup LinkPCs
       /\ "L" \notin ent[p].flags \cup seen[p] /\ ~st[p].l /\ flag[p] # "L"
       /\ op[p] \in KillOps => pc[p] \notin PutPCs

\* And has its lock, for writing responses the exclusive one.
Holds(p, nm) ==
  item[p] = nm /\ Busy(p) /\ InLock(p) =>
     \/ ex[dir[nm]] = p
     \/ p \in sh[dir[nm]] /\ op[p] \in ModeOps \cup KillOps \cup {"view"}

WorkInv ==
  \A nm \in Names : Sound(nm) =>
    /\ "L" \notin entry[nm].flags
    /\ \A p \in Proc : Work(p, nm) /\ Holds(p, nm)

\* The count of an entry, what a process has read of it, and what it still owes it.
Counts(p, nm) ==
  item[p] = nm /\ fd[p] = dir[nm] =>
    /\ Pending(p) => node[dir[nm]].n = IF op[p] = "post" THEN 1 ELSE entry[nm].n + 1
    /\ pc[p] = "add" => ent[p].n = entry[nm].n
    /\ pc[p] = "got" => ent[p].n = entry[nm].n

CountInv ==
  /\ CountsAgree
  /\ \A nm \in Names, p \in Proc : Sound(nm) /\ dir[nm] \notin torn => Counts(p, nm)

\* A file without an item is neither frozen nor retired.
BlankInv ==
  /\ \A d \in Nodes : node[d].n = 0 /\ d \notin loose => node[d].w /\ ~node[d].r
  /\ \A p \in Proc : op[p] \in ModeOps /\ pc[p] \in {"chmod"} \cup PutPCs => node[fd[p]].n # 0

\* Two processes that share a lock only look.
ShareInv ==
  \A d \in Nodes : d \notin loose => \A p, q \in sh[d] : p # q => op[p] = "view"

\* F or R of the flags fl, and what it should be, by the mode of a file or a struct stat.
Says(fl, s) == ("F" \in fl) = ~s.w /\ ("R" \in fl) = s.r

\* What item_mode() is to make of the mode.
Wanted(p) ==
  [st[p] EXCEPT !.w = IF op[p] \in {"freeze", "thaw"} THEN op[p] = "thaw" ELSE @,
                !.r = IF op[p] \in {"retire", "unretire"} THEN op[p] = "retire" ELSE @]

Modes(p, nm) ==
  item[p] = nm /\ fd[p] = dir[nm] =>
    /\ pc[p] = "putnew" => node[dir[nm]].w /\ ~node[dir[nm]].r
    /\ pc[p] = "add" => Says(ent[p].flags, node[dir[nm]])
    /\ op[p] \in ModeOps \cup {"view"} /\ pc[p] \in {"put", "add", "chmod", "fix"}
       => st[p].w = node[dir[nm]].w /\ st[p].r = node[dir[nm]].r
    /\ op[p] \in ModeOps /\ pc[p] \in {"put", "add"}
       => flag[p] = IF op[p] \in {"freeze", "thaw"} THEN "F" ELSE "R"
    /\ op[p] = "view" /\ pc[p] \in {"put", "add"}
       => (flag[p] \in seen[p]) = IF flag[p] = "F" THEN ~st[p].w ELSE st[p].r
    /\ pc[p] = "chmod" => Says(entry[nm].flags, Wanted(p))

ModeInv ==
  /\ FlagsAgree
  /\ \A nm \in Names, p \in Proc : Sound(nm) /\ dir[nm] \notin torn \cup loose => Modes(p, nm)

-----------------------------------------------------------------------------
(* What the steps of a process change.                                     *)

Act(p) ==
  OpenStep(p) \/ SumStep(p) \/ PostStep(p) \/ ItemStep(p) \/ LinkStep(p) \/ Crash(p)

\* The directories change where a file is made, removed or linked.
LEMMA DirChanges ==
  ASSUME NEW p \in Proc, Act(p)
  PROVE  \/ UNCHANGED <<dir, nodes>>
         \/ CreateItem(p) \/ WriteItemFails(p) \/ Unlink(p) \/ LinkMade(p)
<1>1. CASE OpenStep(p)
  BY <1>1 DEF OpenStep, OpenResp, Start, files, sumfile, locks, locals, history,
     OpenItem, OpenEdit, EditThaw, View, LinkItem, PostItem, EditReopen,
     EditRestore, Go, Close, LockEx, LockSh, Refused
<1>2. CASE SumStep(p)
  BY <1>2 DEF SumStep, GetRead, Go, files, sumfile, locks, history, Scan,
     DropLocks, PutBack, locals, PutRead, PutDies, Close, PutLast, PutFlags, PutNew
<1>3. CASE PostStep(p)
  BY <1>3 DEF PostStep, CreateExists, NextName, files, sumfile, locks, locals,
     history, WriteItem, Go, ExpectResp, RespLate, Close, WriteResp, WriteRespFails
<1>4. CASE ItemStep(p)
  BY <1>4 DEF ItemStep, ModeStat, Go, files, sumfile, locks, history, Chmod, Close,
     KillCheck, locals, KillRefused, EditWrite, ViewEnds, ViewOpen, ViewStat, Fix,
     Fixed
<1>5. CASE LinkStep(p)
  BY <1>5 DEF LinkStep, LinkExists, NextName, files, sumfile, locks, locals,
     history, LinkNone, Close, LinkRead, Go, LinkDies, LinkMark, LinkDst
<1>6. CASE Crash(p)
  BY <1>6 DEF Crash, Close, files, sumfile
<1> QED
  BY <1>1, <1>2, <1>3, <1>4, <1>5, <1>6 DEF Act

\* The files change where they are written or their mode is.
LEMMA NodeChanges ==
  ASSUME NEW p \in Proc, Act(p)
  PROVE  \/ UNCHANGED node
         \/ (\E nm \in Names : EditThaw(p, nm)) \/ EditRestore(p) \/ CreateItem(p) \/ WriteItem(p) \/ WriteResp(p) \/ WriteRespFails(p) \/ Chmod(p) \/ EditWrite(p)
<1>1. CASE OpenStep(p)
  BY <1>1 DEF OpenStep, OpenResp, Start, files, sumfile, locks, locals, history,
     OpenItem, OpenEdit, View, LinkItem, PostItem, EditReopen, LockEx, Go, LockSh,
     Refused, Close
<1>2. CASE SumStep(p)
  BY <1>2 DEF SumStep, GetRead, Go, files, sumfile, locks, history, Scan,
     DropLocks, PutBack, locals, PutRead, PutDies, Close, PutLast, PutFlags, PutNew
<1>3. CASE PostStep(p)
  BY <1>3 DEF PostStep, CreateExists, NextName, files, sumfile, locks, locals,
     history, WriteItemFails, Close, ExpectResp, Go, RespLate
<1>4. CASE ItemStep(p)
  BY <1>4 DEF ItemStep, ModeStat, Go, files, sumfile, locks, history, KillCheck,
     locals, KillRefused, Close, Unlink, ViewEnds, ViewOpen, ViewStat, Fix, Fixed
<1>5. CASE LinkStep(p)
  BY <1>5 DEF LinkStep, LinkExists, NextName, files, sumfile, locks, locals,
     history, LinkNone, Close, LinkMade, Go, LinkRead, LinkDies, LinkMark, LinkDst
<1>6. CASE Crash(p)
  BY <1>6 DEF Crash, Close, files, sumfile
<1> QED
  BY <1>1, <1>2, <1>3, <1>4, <1>5, <1>6 DEF Act

\* The entries change in put_sum(), item_sume() and link_sum().
LEMMA EntryChanges ==
  ASSUME NEW p \in Proc, Act(p)
  PROVE  \/ UNCHANGED entry
         \/ PutBack(p) \/ PutLast(p) \/ PutFlags(p) \/ PutNew(p) \/ LinkMark(p) \/ LinkDst(p)
<1>1. CASE OpenStep(p)
  BY <1>1 DEF OpenStep, OpenResp, Start, files, sumfile, locks, locals, history,
     OpenItem, OpenEdit, EditThaw, View, LinkItem, PostItem, EditReopen,
     EditRestore, Go, Close, LockEx, LockSh, Refused
<1>2. CASE SumStep(p)
  BY <1>2 DEF SumStep, GetRead, Go, files, sumfile, locks, history, Scan,
     DropLocks, PutRead, PutDies, Close
<1>3. CASE PostStep(p)
  BY <1>3 DEF PostStep, CreateExists, NextName, files, sumfile, locks, locals,
     history, CreateItem, WriteItem, Go, WriteItemFails, Close, ExpectResp,
     RespLate, WriteResp, WriteRespFails
<1>4. CASE ItemStep(p)
  BY <1>4 DEF ItemStep, ModeStat, Go, files, sumfile, locks, history, Chmod, Close,
     KillCheck, locals, KillRefused, Unlink, EditWrite, ViewEnds, ViewOpen,
     ViewStat, Fix, Fixed
<1>5. CASE LinkStep(p)
  BY <1>5 DEF LinkStep, LinkExists, NextName, files, sumfile, locks, locals,
     history, LinkNone, Close, LinkMade, Go, LinkRead, LinkDies
<1>6. CASE Crash(p)
  BY <1>6 DEF Crash, Close, files, sumfile
<1> QED
  BY <1>1, <1>2, <1>3, <1>4, <1>5, <1>6 DEF Act

\* A sum file grows where an item is added.
LEMMA LastChanges ==
  ASSUME NEW p \in Proc, Act(p)
  PROVE  \/ UNCHANGED last
         \/ PutNew(p) \/ LinkDst(p)
<1>1. CASE OpenStep(p)
  BY <1>1 DEF OpenStep, OpenResp, Start, files, sumfile, locks, locals, history,
     OpenItem, OpenEdit, EditThaw, View, LinkItem, PostItem, EditReopen,
     EditRestore, Go, Close, LockEx, LockSh, Refused
<1>2. CASE SumStep(p)
  BY <1>2 DEF SumStep, GetRead, Go, files, sumfile, locks, history, Scan,
     DropLocks, PutBack, locals, PutRead, PutDies, Close, PutLast, PutFlags
<1>3. CASE PostStep(p)
  BY <1>3 DEF PostStep, CreateExists, NextName, files, sumfile, locks, locals,
     history, CreateItem, WriteItem, Go, WriteItemFails, Close, ExpectResp,
     RespLate, WriteResp, WriteRespFails
<1>4. CASE ItemStep(p)
  BY <1>4 DEF ItemStep, ModeStat, Go, files, sumfile, locks, history, Chmod, Close,
     KillCheck, locals, KillRefused, Unlink, EditWrite, ViewEnds, ViewOpen,
     ViewStat, Fix, Fixed
<1>5. CASE LinkStep(p)
  BY <1>5 DEF LinkStep, LinkExists, NextName, files, sumfile, locks, locals,
     history, LinkNone, Close, LinkMade, Go, LinkRead, LinkDies, LinkMark
<1>6. CASE Crash(p)
  BY <1>6 DEF Crash, Close, files, sumfile
<1> QED
  BY <1>1, <1>2, <1>3, <1>4, <1>5, <1>6 DEF Act

\* What the history variables record.
LEMMA HistoryChanges ==
  ASSUME NEW p \in Proc, Act(p)
  PROVE  \/ UNCHANGED <<linked, torn, reused, loose>>
         \/ (\E nm \in Names : EditThaw(p, nm)) \/ EditRestore(p) \/ LockSh(p) \/ PutDies(p) \/ CreateItem(p) \/ WriteItem(p) \/ LinkMade(p) \/ Crash(p)
<1>1. CASE OpenStep(p)
  BY <1>1 DEF OpenStep, OpenResp, Start, files, sumfile, locks, locals, history,
     OpenItem, OpenEdit, View, LinkItem, PostItem, EditReopen, LockEx, Go, Refused,
     Close
<1>2. CASE SumStep(p)
  BY <1>2 DEF SumStep, GetRead, Go, files, sumfile, locks, history, Scan,
     DropLocks, PutBack, locals, PutRead, PutLast, Close, PutFlags, PutNew
<1>3. CASE PostStep(p)
  BY <1>3 DEF PostStep, CreateExists, NextName, files, sumfile, locks, locals,
     history, WriteItemFails, Close, ExpectResp, Go, RespLate, WriteResp,
     WriteRespFails
<1>4. CASE ItemStep(p)
  BY <1>4 DEF ItemStep, ModeStat, Go, files, sumfile, locks, history, Chmod, Close,
     KillCheck, locals, KillRefused, Unlink, EditWrite, ViewEnds, ViewOpen,
     ViewStat, Fix, Fixed
<1>5. CASE LinkStep(p)
  BY <1>5 DEF LinkStep, LinkExists, NextName, files, sumfile, locks, locals,
     history, LinkNone, Close, LinkRead, Go, LinkDies, LinkMark, LinkDst
<1>6. CASE Crash(p)
  BY <1>6 DEF Crash
<1> QED
  BY <1>1, <1>2, <1>3, <1>4, <1>5, <1>6 DEF Act

\* Locks are taken by the two lock calls and go with the closing of a file.
LEMMA LockChanges ==
  ASSUME NEW p \in Proc, Act(p)
  PROVE  \/ UNCHANGED <<ex, sh>>
         \/ Close(p) \/ LockEx(p) \/ LockSh(p) \/ Scan(p)
<1>1. CASE OpenStep(p)
  BY <1>1 DEF OpenStep, OpenResp, Start, files, sumfile, locks, locals, history,
     OpenItem, OpenEdit, EditThaw, View, LinkItem, PostItem, EditReopen,
     EditRestore, Go, Close, Refused
<1>2. CASE SumStep(p)
  BY <1>2 DEF SumStep, GetRead, Go, files, sumfile, locks, history, PutBack,
     locals, PutRead, PutDies, Close, PutLast, PutFlags, PutNew
<1>3. CASE PostStep(p)
  BY <1>3 DEF PostStep, CreateExists, NextName, files, sumfile, locks, locals,
     history, CreateItem, WriteItem, Go, WriteItemFails, Close, ExpectResp,
     RespLate, WriteResp, WriteRespFails
<1>4. CASE ItemStep(p)
  BY <1>4 DEF ItemStep, ModeStat, Go, files, sumfile, locks, history, Chmod, Close,
     KillCheck, locals, KillRefused, Unlink, EditWrite, ViewEnds, ViewOpen,
     ViewStat, Fix, Fixed
<1>5. CASE LinkStep(p)
  BY <1>5 DEF LinkStep, LinkExists, NextName, files, sumfile, locks, locals,
     history, LinkNone, Close, LinkMade, Go, LinkRead, LinkDies, LinkMark, LinkDst
<1>6. CASE Crash(p)
  BY <1>6 DEF Crash, Close, files, sumfile
<1> QED
  BY <1>1, <1>2, <1>3, <1>4, <1>5, <1>6 DEF Act

\* fstat() fills the struct stat.
LEMMA StChanges ==
  ASSUME NEW p \in Proc, Act(p)
  PROVE  \/ UNCHANGED st
         \/ Close(p) \/ (\E nm \in Names : EditThaw(p, nm)) \/ WriteItem(p) \/ WriteResp(p) \/ ModeStat(p) \/ ViewStat(p)
<1>1. CASE OpenStep(p)
  BY <1>1 DEF OpenStep, OpenResp, Start, files, sumfile, locks, locals, history,
     OpenItem, OpenEdit, View, LinkItem, PostItem, EditReopen, EditRestore, Go,
     Close, LockEx, LockSh, Refused
<1>2. CASE SumStep(p)
  BY <1>2 DEF SumStep, GetRead, Go, files, sumfile, locks, history, Scan,
     DropLocks, PutBack, locals, PutRead, PutDies, Close, PutLast, PutFlags, PutNew
<1>3. CASE PostStep(p)
  BY <1>3 DEF PostStep, CreateExists, NextName, files, sumfile, locks, locals,
     history, CreateItem, WriteItemFails, Close, ExpectResp, Go, RespLate,
     WriteRespFails
<1>4. CASE ItemStep(p)
  BY <1>4 DEF ItemStep, Chmod, Close, sumfile, history, KillCheck, Go, files,
     locks, locals, KillRefused, Unlink, EditWrite, ViewEnds, ViewOpen, Fix, Fixed
<1>5. CASE LinkStep(p)
  BY <1>5 DEF LinkStep, LinkExists, NextName, files, sumfile, locks, locals,
     history, LinkNone, Close, LinkMade, Go, LinkRead, LinkDies, LinkMark, LinkDst
<1>6. CASE Crash(p)
  BY <1>6 DEF Crash, Close, files, sumfile
<1> QED
  BY <1>1, <1>2, <1>3, <1>4, <1>5, <1>6 DEF Act

\* What changes the entry a process has in its hands.
LEMMA EntChanges ==
  ASSUME NEW p \in Proc, Act(p)
  PROVE  \/ UNCHANGED ent
         \/ Close(p) \/ GetRead(p) \/ Scan(p) \/ PutRead(p) \/ PutFlags(p) \/ WriteResp(p) \/ Unlink(p) \/ ViewOpen(p) \/ LinkRead(p) \/ LinkMark(p)
<1>1. CASE OpenStep(p)
  BY <1>1 DEF OpenStep, OpenResp, Start, files, sumfile, locks, locals, history,
     OpenItem, OpenEdit, EditThaw, View, LinkItem, PostItem, EditReopen,
     EditRestore, Go, Close, LockEx, LockSh, Refused
<1>2. CASE SumStep(p)
  BY <1>2 DEF SumStep, PutBack, Go, files, locks, locals, history, PutDies, Close,
     sumfile, PutLast, PutNew
<1>3. CASE PostStep(p)
  BY <1>3 DEF PostStep, CreateExists, NextName, files, sumfile, locks, locals,
     history, CreateItem, WriteItem, Go, WriteItemFails, Close, ExpectResp,
     RespLate, WriteRespFails
<1>4. CASE ItemStep(p)
  BY <1>4 DEF ItemStep, ModeStat, Go, files, sumfile, locks, history, Chmod, Close,
     KillCheck, locals, KillRefused, EditWrite, ViewEnds, ViewStat, Fix, Fixed
<1>5. CASE LinkStep(p)
  BY <1>5 DEF LinkStep, LinkExists, NextName, files, sumfile, locks, locals,
     history, LinkNone, Close, LinkMade, Go, LinkDies, LinkDst
<1>6. CASE Crash(p)
  BY <1>6 DEF Crash, Close, files, sumfile
<1> QED
  BY <1>1, <1>2, <1>3, <1>4, <1>5, <1>6 DEF Act

\* What changes the flag to be written, and the dictionary.
LEMMA FlagChanges ==
  ASSUME NEW p \in Proc, Act(p)
  PROVE  \/ UNCHANGED <<flag, seen>>
         \/ Close(p) \/ ModeStat(p) \/ ViewOpen(p) \/ Fix(p)
<1>1. CASE OpenStep(p)
  BY <1>1 DEF OpenStep, OpenResp, Start, files, sumfile, locks, locals, history,
     OpenItem, OpenEdit, EditThaw, View, LinkItem, PostItem, EditReopen,
     EditRestore, Go, Close, LockEx, LockSh, Refused
<1>2. CASE SumStep(p)
  BY <1>2 DEF SumStep, GetRead, Go, files, sumfile, locks, history, Scan,
     DropLocks, PutBack, locals, PutRead, PutDies, Close, PutLast, PutFlags, PutNew
<1>3. CASE PostStep(p)
  BY <1>3 DEF PostStep, CreateExists, NextName, files, sumfile, locks, locals,
     history, CreateItem, WriteItem, Go, WriteItemFails, Close, ExpectResp,
     RespLate, WriteResp, WriteRespFails
<1>4. CASE ItemStep(p)
  BY <1>4 DEF ItemStep, Chmod, Close, sumfile, history, KillCheck, Go, files,
     locks, locals, KillRefused, Unlink, EditWrite, ViewEnds, ViewStat, Fixed
<1>5. CASE LinkStep(p)
  BY <1>5 DEF LinkStep, LinkExists, NextName, files, sumfile, locks, locals,
     history, LinkNone, Close, LinkMade, Go, LinkRead, LinkDies, LinkMark, LinkDst
<1>6. CASE Crash(p)
  BY <1>6 DEF Crash, Close, files, sumfile
<1> QED
  BY <1>1, <1>2, <1>3, <1>4, <1>5, <1>6 DEF Act

\* The numbers of the files there are.
LEMMA Ranges ==
  ASSUME ConfTypeOK
  PROVE  /\ nodes \in Nat /\ MaxNode \in Nat /\ (nodes < MaxNode => nodes + 1 \in Nodes)
         /\ \A nm \in Names : dir[nm] \in 0 .. nodes /\ (dir[nm] # 0 => dir[nm] \in Nodes)
         /\ \A p \in Proc : fd[p] \in 0 .. nodes /\ (fd[p] # 0 => fd[p] \in Nodes)
<1>1. nodes \in 0 .. MaxNode /\ MaxNode \in Nat /\ Nodes = 1 .. MaxNode
  BY ConfAssumption DEF ConfTypeOK, Nodes
<1>2. dir \in [Names -> 0 .. nodes] /\ fd \in [Proc -> 0 .. nodes]
  BY DEF ConfTypeOK
<1> QED BY <1>1, <1>2

\* What a process works on, when it works on anything.
LEMMA ItemOf ==
  ASSUME ConfTypeOK, \A p \in Proc : Control(p), NEW p \in Proc
  PROVE  /\ pc[p] # "idle" => item[p] \in Names /\ item[p] # NoName
         /\ pc[p] \in {"link"} \cup LinkPCs => from[p] \in Names
BY ConfAssumption DEF Control, Names

-----------------------------------------------------------------------------
(* Types, control and locks.                                               *)

DirType == dir \in [Names -> 0 .. nodes] /\ nodes \in 0 .. MaxNode
NodeType == node \in [Nodes -> [n : Nat, w : BOOLEAN, r : BOOLEAN, t : 0 .. MaxClock]]
EntryType == entry \in [Names -> Entries]
LastType == last \in [Confs -> 0 .. MaxItem]
HistoryType ==
  linked \subseteq Nodes /\ torn \subseteq Nodes /\ reused \subseteq Nodes /\ loose \subseteq Nodes
ClockType == clock \in 0 .. MaxClock /\ calls \in 0 .. MaxCalls
PlaceType ==
  /\ pc \in [Proc -> PCs] /\ op \in [Proc -> Ops]
  /\ item \in [Proc -> Names \cup {NoName}] /\ from \in [Proc -> Names \cup {NoName}]
FdType == fd \in [Proc -> 0 .. nodes]
StType == st \in [Proc -> [w : BOOLEAN, r : BOOLEAN, l : BOOLEAN, t : 0 .. MaxClock]]
EntType == ent \in [Proc -> Entries]
FlagType == flag \in [Proc -> {"F", "R", "L"}] /\ seen \in [Proc -> SUBSET Flags]
LockType ==
  /\ ex \in [Nodes -> Proc \cup {NoProc}] /\ sh \in [Nodes -> SUBSET Proc]
  /\ \A d \in Nodes : ex[d] # NoProc => sh[d] = {} /\ fd[ex[d]] = d

\* Types, and what a process does where.
BaseInv == ConfTypeOK /\ (\A p \in Proc : Control(p) /\ Fresh(p)) /\ LockInv

\* Files are made one after the other, and names lead to files there are.
LEMMA DirTypeStep ==
  ASSUME BaseInv, NEW p \in Proc, Act(p)
  PROVE  DirType' /\ nodes <= nodes'
<1> USE DEF DirType
<1>1. /\ dir \in [Names -> 0 .. nodes] /\ nodes \in 0 .. MaxNode /\ MaxNode \in Nat
      /\ pc[p] # "idle" => item[p] \in Names
  BY ConfAssumption, ItemOf DEF BaseInv, ConfTypeOK
<1>2. CASE UNCHANGED <<dir, nodes>>
  BY <1>1, <1>2
<1>3. CASE CreateItem(p)
  BY <1>1, <1>3 DEF CreateItem
<1>4. CASE WriteItemFails(p) \/ Unlink(p)
  BY <1>1, <1>4 DEF WriteItemFails, Unlink, files
<1>5. CASE LinkMade(p)
  BY <1>1, <1>5, ItemOf DEF LinkMade, BaseInv
<1> QED
  BY <1>2, <1>3, <1>4, <1>5, DirChanges

\* An item file has a number of responses, a mode and a date.
LEMMA NodeTypeStep ==
  ASSUME BaseInv, NEW p \in Proc, Act(p)
  PROVE  NodeType'
<1> USE DEF NodeType
<1>1. /\ node \in [Nodes -> [n : Nat, w : BOOLEAN, r : BOOLEAN, t : 0 .. MaxClock]]
      /\ clock \in 0 .. MaxClock /\ MaxClock \in Nat /\ MaxResp \in Nat
      /\ pc[p] # "idle" => item[p] \in Names
  BY ConfAssumption, ItemOf DEF BaseInv, ConfTypeOK
<1>2. CASE UNCHANGED node
  BY <1>1, <1>2
<1>3. ASSUME NEW nm \in Names, EditThaw(p, nm) PROVE NodeType'
  BY <1>1, <1>3 DEF EditThaw
<1>4. CASE EditRestore(p)
  <2>1. st[p].w \in BOOLEAN /\ st[p].r \in BOOLEAN
    BY DEF BaseInv, ConfTypeOK
  <2> QED BY <1>1, <1>4, <2>1 DEF EditRestore
<1>5. CASE CreateItem(p)
  BY <1>1, <1>5 DEF CreateItem, NewNode
<1>6. CASE WriteItem(p)
  <2>1. fd[p] \in Nodes
    BY <1>6, Ranges DEF WriteItem, BaseInv, Control
  <2>2. PICK k \in 1 .. MaxResp : node' = [node EXCEPT ![fd[p]].n = k, ![fd[p]].t = clock]
    BY <1>6 DEF WriteItem
  <2>3. k \in Nat
    BY <1>1
  <2> QED BY <1>1, <2>1, <2>2, <2>3
<1>7. CASE WriteResp(p)
  <2>1. fd[p] \in Nodes
    BY <1>7, Ranges DEF WriteResp, MayWrite, BaseInv, Control, GetPCs
  <2> QED BY <1>1, <1>7, <2>1 DEF WriteResp
<1>8. CASE WriteRespFails(p) \/ EditWrite(p)
  BY <1>1, <1>8 DEF WriteRespFails, EditWrite
<1>9. CASE Chmod(p)
  <2> DEFINE w == IF op[p] \in {"freeze", "thaw"} THEN op[p] = "thaw" ELSE st[p].w
             r == IF op[p] \in {"retire", "unretire"} THEN op[p] = "retire" ELSE st[p].r
  <2>1. w \in BOOLEAN /\ r \in BOOLEAN
    BY DEF BaseInv, ConfTypeOK
  <2>2. node' = [node EXCEPT ![fd[p]].w = w, ![fd[p]].r = r]
    BY <1>9 DEF Chmod
  <2> HIDE DEF w, r
  <2> QED BY <1>1, <2>1, <2>2
<1> QED
  BY <1>2, <1>3, <1>4, <1>5, <1>6, <1>7, <1>8, <1>9, NodeChanges

\* What put_sum() writes is an entry.
LEMMA NewEntryType ==
  ASSUME BaseInv, NEW p \in Proc
  PROVE  NewEntry(p) \in Entries
<1>1. /\ ent[p].n \in Nat /\ ent[p].flags \subseteq Flags /\ ent[p].t \in 0 .. MaxClock
      /\ flag[p] \in Flags /\ st[p].t \in 0 .. MaxClock
  BY DEF BaseInv, ConfTypeOK, Entries, Flags
<1>2. NewCount(p) \in Nat
  BY <1>1 DEF NewCount
<1>3. NewFlags(p) \subseteq Flags
  BY <1>1 DEF NewFlags, SetFlag
<1> QED
  BY <1>1, <1>2, <1>3 DEF NewEntry, Entries

\* The sum files hold entries.
LEMMA EntryTypeStep ==
  ASSUME BaseInv, NEW p \in Proc, Act(p)
  PROVE  EntryType'
<1> USE DEF EntryType
<1>1. /\ entry \in [Names -> Entries] /\ ent[p] \in Entries
      /\ pc[p] # "idle" => item[p] \in Names
  BY ItemOf DEF BaseInv, ConfTypeOK
<1>2. CASE UNCHANGED entry
  BY <1>1, <1>2
<1>3. CASE PutBack(p)
  BY <1>1, <1>3 DEF PutBack
<1>4. CASE PutLast(p) \/ PutFlags(p)
  BY <1>1, <1>4, NewEntryType DEF PutLast, PutFlags
<1>5. CASE PutNew(p)
  <2>1. st[p].t \in 0 .. MaxClock
    BY DEF BaseInv, ConfTypeOK
  <2>2. [n |-> 1, flags |-> {"A"}, t |-> st[p].t] \in Entries
    BY <2>1 DEF Entries, Flags
  <2> QED BY <1>1, <1>5, <2>2 DEF PutNew
<1>6. CASE LinkMark(p)
  <2>1. [ent[p] EXCEPT !.flags = @ \cup {"L"}] \in Entries
    BY <1>1 DEF Entries, Flags
  <2>2. ent'[p] = [ent[p] EXCEPT !.flags = @ \cup {"L"}]
    BY <1>6 DEF LinkMark, BaseInv, ConfTypeOK
  <2> QED BY <1>1, <1>6, <2>1, <2>2 DEF LinkMark
<1>7. CASE LinkDst(p)
  BY <1>1, <1>7 DEF LinkDst
<1> QED
  BY <1>2, <1>3, <1>4, <1>5, <1>6, <1>7, EntryChanges

\* A sum file has no more entries than there can be items.
LEMMA LastTypeStep ==
  ASSUME BaseInv, NEW p \in Proc, Act(p)
  PROVE  LastType'
<1> USE DEF LastType
<1>1. /\ last \in [Confs -> 0 .. MaxItem] /\ MaxItem \in Nat
      /\ pc[p] # "idle" => item[p] \in Names
  BY ConfAssumption, ItemOf DEF BaseInv, ConfTypeOK
<1>2. CASE UNCHANGED last
  BY <1>1, <1>2
<1>3. CASE PutNew(p) \/ LinkDst(p)
  <2>1. item[p] \in Names /\ Extend(item[p])
    BY <1>1, <1>3 DEF PutNew, LinkDst
  <2> QED BY <1>1, <2>1 DEF Extend, Names
<1> QED
  BY <1>2, <1>3, LastChanges

\* The history variables hold inodes.
LEMMA HistoryTypeStep ==
  ASSUME BaseInv, NEW p \in Proc, Act(p)
  PROVE  HistoryType'
<1> USE DEF HistoryType
<1>1. linked \subseteq Nodes /\ torn \subseteq Nodes /\ reused \subseteq Nodes /\ loose \subseteq Nodes
  BY DEF BaseInv, ConfTypeOK
<1>2. CASE UNCHANGED <<linked, torn, reused, loose>>
  BY <1>1, <1>2
<1>3. ASSUME NEW nm \in Names, EditThaw(p, nm) PROVE HistoryType'
  BY <1>1, <1>3, Ranges DEF EditThaw, BaseInv
<1>4. CASE EditRestore(p)
  <2>1. item[p] \in Names
    BY <1>4, ItemOf DEF EditRestore, BaseInv
  <2> QED BY <1>1, <1>4, <2>1, Ranges DEF EditRestore, BaseInv
<1>5. CASE LockSh(p) \/ WriteItem(p) \/ PutDies(p)
  <2>1. fd[p] \in Nodes
    BY <1>5, Ranges DEF LockSh, WriteItem, PutDies, BaseInv, Control, PutPCs
  <2> QED BY <1>1, <1>5, <2>1 DEF LockSh, WriteItem, PutDies
<1>6. CASE CreateItem(p)
  BY <1>1, <1>6, Ranges DEF CreateItem, BaseInv
<1>7. CASE LinkMade(p)
  <2>1. from[p] \in Names
    BY <1>7, ItemOf DEF LinkMade, BaseInv
  <2> QED BY <1>1, <1>7, <2>1, Ranges DEF LinkMade, BaseInv
<1>8. CASE Crash(p)
  <2>1. HalfDone(p) => fd[p] \in Nodes
    BY Ranges DEF HalfDone, Pending, BaseInv, Control, PutPCs
  <2> QED BY <1>1, <1>8, <2>1 DEF Crash
<1> QED
  BY <1>2, <1>3, <1>4, <1>5, <1>6, <1>7, <1>8, HistoryChanges

\* A step of one process leaves the clock, and does not make too many requests.
LEMMA ClockTypeStep ==
  ASSUME BaseInv, NEW p \in Proc, Act(p)
  PROVE  ClockType'
<1>1. clock \in 0 .. MaxClock /\ calls \in 0 .. MaxCalls /\ MaxCalls \in Nat
  BY ConfAssumption DEF BaseInv, ConfTypeOK
<1>2. clock' = clock /\ (calls' = calls \/ (calls < MaxCalls /\ calls' = calls + 1))
  <2>1. CASE OpenStep(p)
    BY <2>1 DEF OpenStep, OpenResp, Start, files, sumfile, locks, locals, history,
       OpenItem, OpenEdit, EditThaw, View, LinkItem, PostItem, EditReopen,
       EditRestore, Go, Close, LockEx, LockSh, Refused
  <2>2. CASE SumStep(p)
    BY <2>2 DEF SumStep, GetRead, Go, files, sumfile, locks, history, Scan,
       DropLocks, PutBack, locals, PutRead, PutDies, Close, PutLast, PutFlags,
       PutNew
  <2>3. CASE PostStep(p)
    BY <2>3 DEF PostStep, CreateExists, NextName, files, sumfile, locks, locals,
       history, CreateItem, WriteItem, Go, WriteItemFails, Close, ExpectResp,
       RespLate, WriteResp, WriteRespFails
  <2>4. CASE ItemStep(p)
    BY <2>4 DEF ItemStep, ModeStat, Go, files, sumfile, locks, history, Chmod,
       Close, KillCheck, locals, KillRefused, Unlink, EditWrite, ViewEnds,
       ViewOpen, ViewStat, Fix, Fixed
  <2>5. CASE LinkStep(p)
    BY <2>5 DEF LinkStep, LinkExists, NextName, files, sumfile, locks, locals,
       history, LinkNone, Close, LinkMade, Go, LinkRead, LinkDies, LinkMark,
       LinkDst
  <2>6. CASE Crash(p)
    BY <2>6 DEF Crash, Close, files, sumfile
  <2> QED BY <2>1, <2>2, <2>3, <2>4, <2>5, <2>6 DEF Act
<1> QED
  BY <1>1, <1>2 DEF ClockType

\* The next name of NextName() is a name.
LEMMA NextNameType ==
  ASSUME BaseInv, NEW p \in Proc, pc[p] # "idle", NextName(p)
  PROVE  item'[p] \in Names /\ item' = [item EXCEPT ![p] = item'[p]]
<1>1. item \in [Proc -> Names \cup {NoName}] /\ item[p] \in Names /\ MaxItem \in Nat
  BY ConfAssumption, ItemOf DEF BaseInv, ConfTypeOK
<1>2. <<item[p][1], item[p][2] + 1>> \in Names
  BY <1>1 DEF NextName, Names
<1> QED
  BY <1>1, <1>2 DEF NextName

\* The next number of post_item() and of link_item() is a name.
LEMMA NextNumber ==
  ASSUME BaseInv, NEW c \in Confs, last[c] < MaxItem
  PROVE  <<c, last[c] + 1>> \in Names
BY ConfAssumption DEF BaseInv, ConfTypeOK, Names

\* How a process can move: a request starts or ends, a process goes on, with the
\* files it has open or another one, and it tries the next name.
Starts(p) ==
  /\ \E o \in Ops, nm \in Names, d \in 0 .. nodes, where \in PCs : Start(p, o, nm, d, where)
  /\ UNCHANGED from \/ \E nm \in Names : from' = [from EXCEPT ![p] = nm]

Goes(p) ==
  /\ \E where \in PCs : pc' = [pc EXCEPT ![p] = where]
  /\ UNCHANGED fd \/ \E d \in 0 .. nodes' : fd' = [fd EXCEPT ![p] = d]
  /\ UNCHANGED <<op, item, from>>

\* A process closes, goes to another place of its request, starts one, or takes the
\* next number for an item.
LEMMA Moves ==
  ASSUME BaseInv, NEW p \in Proc, Act(p)
  PROVE  Close(p) \/ Goes(p) \/ Starts(p) \/ (pc[p] # "idle" /\ NextName(p))
<1>0. /\ \A nm \in Names : dir[nm] \in 0 .. nodes
      /\ item[p] \in Names => dir[item[p]] \in 0 .. nodes
      /\ nodes \in Nat /\ nodes <= nodes' /\ nodes' \in Nat /\ fd[p] \in 0 .. nodes
  BY Ranges, DirTypeStep DEF BaseInv, DirType
<1>1. CASE OpenStep(p)
  <2>1. ASSUME NEW nm \in Names,
               \/ \E o \in RespOps : OpenResp(p, o, nm)
               \/ \E o \in ModeOps \cup KillOps : OpenItem(p, o, nm)
               \/ OpenEdit(p, nm) \/ EditThaw(p, nm) \/ View(p, nm)
        PROVE  Starts(p)
    BY <1>0, <2>1 DEF Starts, OpenResp, OpenItem, OpenEdit, EditThaw, View, PCs, Ops,
       RespOps, ModeOps, KillOps
  <2>2. ASSUME NEW c \in Confs, NEW nm \in Names, LinkItem(p, c, nm) PROVE Starts(p)
    <3>1. Start(p, "link", <<c, last[c] + 1>>, 0, "link") /\ <<c, last[c] + 1>> \in Names
      BY <2>2, NextNumber DEF LinkItem
    <3>2. from' = [from EXCEPT ![p] = nm] /\ "link" \in Ops /\ "link" \in PCs
      BY <2>2 DEF LinkItem, Ops, PCs
    <3>3. \E o \in Ops, m \in Names, d \in 0 .. nodes, where \in PCs : Start(p, o, m, d, where)
      BY <1>0, <3>1, <3>2
    <3>4. \E m \in Names : from' = [from EXCEPT ![p] = m]
      BY <3>2
    <3> QED BY <3>3, <3>4 DEF Starts
  <2>3. ASSUME NEW c \in Confs, PostItem(p, c) PROVE Starts(p)
    BY <1>0, <2>3, NextNumber DEF Starts, PostItem, PCs, Ops
  <2>4. CASE EditReopen(p)
    <3>1. item[p] \in Names
      BY <2>4, ItemOf DEF BaseInv, EditReopen
    <3>2. 0 \in 0 .. nodes' /\ dir[item[p]] \in 0 .. nodes'
      BY <1>0, <3>1
    <3>3. PICK d \in 0 .. nodes' : fd' = [fd EXCEPT ![p] = d]
      BY <2>4, <3>2 DEF EditReopen
    <3>4. /\ \E where \in PCs : pc' = [pc EXCEPT ![p] = where]
          /\ UNCHANGED <<op, item, from>>
      BY <2>4 DEF EditReopen, PCs
    <3> QED BY <3>3, <3>4 DEF Goes
  <2>5. CASE EditRestore(p) \/ LockEx(p) \/ LockSh(p) \/ Refused(p)
    BY <2>5 DEF Goes, EditRestore, LockEx, LockSh, Refused, Go, PCs
  <2> QED BY <1>1, <2>1, <2>2, <2>3, <2>4, <2>5 DEF OpenStep
<1>2. CASE SumStep(p)
  BY <1>0, <1>2 DEF SumStep, GetRead, Scan, PutBack, PutRead, PutDies, PutLast,
     PutFlags, PutNew, Goes, Go, PCs
<1>3. CASE PostStep(p)
  BY <1>0, <1>3 DEF PostStep, CreateExists, CreateItem, WriteItem, WriteItemFails,
     ExpectResp, RespLate, WriteResp, WriteRespFails, Goes, Go, PCs
<1>4. CASE ItemStep(p)
  <2>1. CASE ViewOpen(p)
    <3>1. item[p] \in Names
      BY <2>1, ItemOf DEF BaseInv, ViewOpen
    <3> QED BY <1>0, <2>1, <3>1 DEF Goes, ViewOpen, PCs, files
  <2>2. CASE ~ViewOpen(p)
    BY <1>4, <2>2 DEF ItemStep, ModeStat, Chmod, KillCheck, KillRefused, Unlink,
       EditWrite, ViewEnds, ViewStat, Fix, Fixed, Goes, Go, PCs
  <2> QED BY <2>1, <2>2
<1>5. CASE LinkStep(p)
  BY <1>0, <1>5 DEF LinkStep, LinkExists, LinkNone, LinkMade, LinkRead, LinkDies,
     LinkMark, LinkDst, Goes, Go, PCs
<1>6. CASE Crash(p)
  BY <1>0, <1>6 DEF Crash, Goes, Go, PCs
<1> QED
  BY <1>1, <1>2, <1>3, <1>4, <1>5, <1>6 DEF Act
\* Where processes are, what they do, and the names they use.
LEMMA PlaceTypeStep ==
  ASSUME BaseInv, NEW p \in Proc, Act(p)
  PROVE  PlaceType' /\ FdType'
<1> USE DEF PlaceType, FdType
<1>1. /\ pc \in [Proc -> PCs] /\ op \in [Proc -> Ops]
      /\ item \in [Proc -> Names \cup {NoName}] /\ from \in [Proc -> Names \cup {NoName}]
      /\ fd \in [Proc -> 0 .. nodes']
  <2>1. fd \in [Proc -> 0 .. nodes] /\ nodes \in Nat /\ nodes' \in Nat /\ nodes <= nodes'
    BY Ranges, DirTypeStep DEF BaseInv, ConfTypeOK, DirType
  <2> QED BY <2>1 DEF BaseInv, ConfTypeOK
<1>2. 0 \in 0 .. nodes' /\ \A d \in 0 .. nodes : d \in 0 .. nodes'
  BY Ranges, DirTypeStep DEF BaseInv, DirType
<1>3. CASE Close(p)
  BY <1>1, <1>2, <1>3 DEF Close, PCs, Ops
<1>4. CASE Goes(p)
  BY <1>1, <1>4 DEF Goes
<1>5. CASE Starts(p)
  BY <1>1, <1>2, <1>5 DEF Starts, Start
<1>6. CASE pc[p] # "idle" /\ NextName(p)
  BY <1>1, <1>6, NextNameType DEF NextName
<1> QED
  BY <1>3, <1>4, <1>5, <1>6, Moves

\* The struct stat of a process.
LEMMA StTypeStep ==
  ASSUME BaseInv, NEW p \in Proc, Act(p)
  PROVE  StType'
<1> USE DEF StType
<1>1. /\ st \in [Proc -> [w : BOOLEAN, r : BOOLEAN, l : BOOLEAN, t : 0 .. MaxClock]]
      /\ clock \in 0 .. MaxClock /\ MaxClock \in Nat
      /\ \A d \in Nodes : node[d].w \in BOOLEAN /\ node[d].r \in BOOLEAN
  BY ConfAssumption DEF BaseInv, ConfTypeOK
<1>2. CASE UNCHANGED st
  BY <1>1, <1>2
<1>3. CASE Close(p)
  BY <1>1, <1>3 DEF Close, NoStat
<1>4. ASSUME NEW nm \in Names, EditThaw(p, nm) PROVE StType'
  <2>1. node[dir[nm]].r \in BOOLEAN
    BY <1>1, <1>4, Ranges DEF EditThaw, BaseInv
  <2> DEFINE r == node[dir[nm]].r
  <2>2. [NoStat EXCEPT !.r = node[dir[nm]].r]
           \in [w : BOOLEAN, r : BOOLEAN, l : BOOLEAN, t : 0 .. MaxClock]
    <3>1. NoStat \in [w : BOOLEAN, r : BOOLEAN, l : BOOLEAN, t : 0 .. MaxClock]
      BY <1>1 DEF NoStat
    <3>2. r \in BOOLEAN
      BY <2>1
    <3> HIDE DEF r
    <3>3. [NoStat EXCEPT !.r = r] \in [w : BOOLEAN, r : BOOLEAN, l : BOOLEAN, t : 0 .. MaxClock]
      BY <3>1, <3>2
    <3> QED BY <3>3 DEF r
  <2>3. st' = [st EXCEPT ![p] = [NoStat EXCEPT !.r = node[dir[nm]].r]]
    BY <1>4 DEF EditThaw
  <2> QED BY <1>1, <2>2, <2>3
<1>5. CASE WriteItem(p) \/ WriteResp(p)
  BY <1>1, <1>5 DEF WriteItem, WriteResp
<1>6. CASE ModeStat(p) \/ ViewStat(p)
  <2>1. node[fd[p]].w \in BOOLEAN /\ node[fd[p]].r \in BOOLEAN
    BY <1>1, <1>6, Ranges DEF ModeStat, ViewStat, BaseInv, Control
  <2>2. CASE ModeStat(p)
    <3> DEFINE w == node[fd[p]].w
               r == node[fd[p]].r
    <3>1. st' = [st EXCEPT ![p].w = w, ![p].r = r]
      BY <2>2 DEF ModeStat
    <3>2. w \in BOOLEAN /\ r \in BOOLEAN
      BY <2>1
    <3> HIDE DEF w, r
    <3> QED BY <1>1, <3>1, <3>2
  <2>3. CASE ViewStat(p)
    BY <1>1, <2>1, <2>3 DEF ViewStat, Linked
  <2> QED BY <1>6, <2>2, <2>3
<1> QED
  BY <1>2, <1>3, <1>4, <1>5, <1>6, StChanges

\* The struct sume of a process.
LEMMA EntTypeStep ==
  ASSUME BaseInv, NEW p \in Proc, Act(p)
  PROVE  EntType'
<1> USE DEF EntType
<1>1. /\ ent \in [Proc -> Entries] /\ NoEntry \in Entries
      /\ pc[p] # "idle" => item[p] \in Names
      /\ \A nm \in Names : entry[nm] \in Entries
  BY ConfAssumption, ItemOf DEF BaseInv, ConfTypeOK, Entries, NoEntry
<1>2. CASE UNCHANGED ent
  BY <1>1, <1>2
<1>3. CASE Close(p)
  BY <1>1, <1>3 DEF Close
<1>4. CASE GetRead(p) \/ PutRead(p)
  BY <1>1, <1>4 DEF GetRead, PutRead
<1>5. CASE LinkRead(p)
  BY <1>1, <1>5, ItemOf DEF LinkRead, LinkPCs, BaseInv
<1>6. CASE Scan(p)
  <2>1. item[p] \in Names
    BY <1>1, <1>6 DEF Scan
  <2>2. dir[item[p]] # 0 => Sume(dir[item[p]]) \in Entries
    BY <2>1, Ranges DEF BaseInv, ConfTypeOK, Sume, Entries, Flags
  <2> QED BY <1>1, <1>6, <2>2 DEF Scan
<1>7. CASE PutFlags(p) \/ WriteResp(p) \/ Unlink(p) \/ ViewOpen(p)
  BY <1>1, <1>7 DEF PutFlags, WriteResp, Unlink, ViewOpen
<1>8. CASE LinkMark(p)
  <2>1. [ent[p] EXCEPT !.flags = @ \cup {"L"}] \in Entries
    BY <1>1 DEF Entries, Flags
  <2> QED BY <1>1, <1>8, <2>1 DEF LinkMark
<1> QED
  BY <1>2, <1>3, <1>4, <1>5, <1>6, <1>7, <1>8, EntChanges

\* The flag put_sum() is to change, and the flags of the dictionary.
LEMMA FlagTypeStep ==
  ASSUME BaseInv, NEW p \in Proc, Act(p)
  PROVE  FlagType'
<1> USE DEF FlagType
<1>1. /\ flag \in [Proc -> {"F", "R", "L"}] /\ seen \in [Proc -> SUBSET Flags]
      /\ ent[p].flags \subseteq Flags
  BY DEF BaseInv, ConfTypeOK, Entries
<1>2. CASE UNCHANGED <<flag, seen>>
  BY <1>1, <1>2
<1>3. CASE Close(p)
  BY <1>1, <1>3 DEF Close
<1>4. CASE ModeStat(p)
  BY <1>1, <1>4 DEF ModeStat
<1>5. CASE ViewOpen(p)
  BY <1>1, <1>5 DEF ViewOpen
<1>6. CASE Fix(p)
  <2>1. FirstWrong(p) \in {"F", "R", "L"}
    BY DEF FirstWrong
  <2>2. SetFlag(seen[p], FirstWrong(p), FirstWrong(p) \notin seen[p]) \in SUBSET Flags
    BY <1>1, <2>1 DEF SetFlag, Flags
  <2> QED BY <1>1, <1>6, <2>1, <2>2 DEF Fix
<1> QED
  BY <1>2, <1>3, <1>4, <1>5, <1>6, FlagChanges

\* A process opens a file only when it has none open.
LEMMA FdChanges ==
  ASSUME BaseInv, NEW p \in Proc, Act(p)
  PROVE  \/ UNCHANGED fd
         \/ Close(p)
         \/ fd[p] = 0 /\ UNCHANGED <<ex, sh>> /\ \E d : fd' = [fd EXCEPT ![p] = d]
<1> USE DEF locks
<1>1. CASE OpenStep(p)
  BY <1>1 DEF OpenStep, OpenResp, Start, OpenItem, OpenEdit, EditThaw, View, LinkItem,
     PostItem, EditReopen, EditRestore, Go, LockEx, LockSh, Refused, BaseInv, Control,
     GetPCs
<1>2. CASE SumStep(p)
  BY <1>2 DEF SumStep, GetRead, Go, Scan, PutBack, PutRead, PutDies, PutLast,
     PutFlags, PutNew, BaseInv, Control, GetPCs
<1>3. CASE PostStep(p)
  BY <1>3 DEF PostStep, CreateExists, NextName, CreateItem, WriteItem, Go,
     WriteItemFails, ExpectResp, RespLate, WriteResp, WriteRespFails, BaseInv,
     Control, GetPCs
<1>4. CASE ItemStep(p)
  BY <1>4 DEF ItemStep, ModeStat, Go, Chmod, KillCheck, KillRefused, Unlink,
     EditWrite, ViewEnds, ViewOpen, ViewStat, Fix, Fixed, BaseInv, Control, GetPCs
<1>5. CASE LinkStep(p)
  BY <1>5 DEF LinkStep, LinkExists, NextName, LinkNone, LinkMade, Go, LinkRead,
     LinkDies, LinkMark, LinkDst, BaseInv, Control, GetPCs
<1>6. CASE Crash(p)
  BY <1>6 DEF Crash, GetPCs
<1> QED
  BY <1>1, <1>2, <1>3, <1>4, <1>5, <1>6 DEF Act

\* An exclusive lock excludes every other, and locks go with the file.
LEMMA LockStep ==
  ASSUME BaseInv, NEW p \in Proc, Act(p)
  PROVE  LockType' /\ LockInv'
<1> USE DEF LockType, LockInv
<1>1. /\ LockType /\ LockInv /\ fd \in [Proc -> 0 .. nodes] /\ NoProc \notin Proc
      /\ Nodes \subseteq Nat \ {0}
      /\ pc[p] \in {"wantex", "wantsh"} => fd[p] \in Nodes
  <2>1. LockType /\ LockInv /\ fd \in [Proc -> 0 .. nodes] /\ NoProc \notin Proc
    BY ConfAssumption DEF BaseInv, ConfTypeOK
  <2>2. Nodes \subseteq Nat \ {0}
    BY ConfAssumption DEF Nodes
  <2>3. pc[p] \in {"wantex", "wantsh"} => fd[p] \in Nodes
    BY Ranges DEF BaseInv, Control
  <2> QED BY <2>1, <2>2, <2>3
<1> HIDE DEF Nodes
<1>2. CASE UNCHANGED <<fd, ex, sh>>
  BY <1>1, <1>2
<1>3. CASE fd[p] = 0 /\ UNCHANGED <<ex, sh>> /\ \E d : fd' = [fd EXCEPT ![p] = d]
  <2>1. \A d \in Nodes : ex[d] # p /\ p \notin sh[d]
    BY <1>1, <1>3
  <2>2. \A q \in Proc : q # p => fd'[q] = fd[q]
    BY <1>1, <1>3
  <2> QED BY <1>1, <1>3, <2>1, <2>2
<1>4. CASE Close(p)
  <2>1. \A d \in Nodes : /\ ex'[d] = IF ex[d] = p THEN NoProc ELSE ex[d]
                         /\ sh'[d] = sh[d] \ {p}
    BY <1>4 DEF Close
  <2>2. /\ ex' \in [Nodes -> Proc \cup {NoProc}] /\ sh' \in [Nodes -> SUBSET Proc]
        /\ \A q \in Proc : q # p => fd'[q] = fd[q]
    BY <1>1, <1>4 DEF Close
  <2> QED BY <1>1, <2>1, <2>2
<1>5. CASE LockEx(p)
  BY <1>1, <1>5 DEF LockEx, Go
<1>6. CASE LockSh(p)
  BY <1>1, <1>6 DEF LockSh, Go
<1>7. CASE Scan(p)
  <2>1. UNCHANGED fd
    BY <1>7 DEF Scan, Go
  <2>2. UNCHANGED <<ex, sh>> \/ DropLocks(p, dir[item[p]])
    BY <1>7 DEF Scan, locks
  <2>3. CASE DropLocks(p, dir[item[p]])
    BY <1>1, <2>1, <2>3 DEF DropLocks
  <2> QED BY <1>2, <2>1, <2>2, <2>3
<1> QED
  BY <1>2, <1>3, <1>4, <1>5, <1>6, <1>7, FdChanges, LockChanges

\* A step of one process changes nothing of another's, and none of its locks.
Others(p) ==
  \A q \in Proc \ {p} :
    /\ pc'[q] = pc[q] /\ op'[q] = op[q] /\ item'[q] = item[q] /\ from'[q] = from[q]
    /\ fd'[q] = fd[q] /\ st'[q] = st[q] /\ ent'[q] = ent[q] /\ flag'[q] = flag[q]
    /\ seen'[q] = seen[q]
    /\ \A d \in Nodes : /\ (ex'[d] = q) <=> (ex[d] = q)
                        /\ (q \in sh'[d]) <=> (q \in sh[d])

\* Every handler works on the variables of its own process, and on its own locks.
LEMMA OthersStep ==
  ASSUME ConfTypeOK, NEW p \in Proc, Act(p)
  PROVE  Others(p)
<1>1. CASE OpenStep(p)
  <2>1. ASSUME NEW o \in RespOps, NEW nm \in Names, OpenResp(p, o, nm) PROVE Others(p)
    BY <2>1, ConfAssumption DEF Others, OpenResp, Start, locks, locals
  <2>2. ASSUME NEW o \in ModeOps \cup KillOps, NEW nm \in Names, OpenItem(p, o, nm) PROVE Others(p)
    BY <2>2, ConfAssumption DEF Others, OpenItem, Start, locks, locals
  <2>3. ASSUME NEW nm \in Names, OpenEdit(p, nm) \/ View(p, nm) PROVE Others(p)
    BY <2>3, ConfAssumption DEF ConfTypeOK, Others, OpenEdit, Start, locks, locals,
       View
  <2>4. ASSUME NEW nm \in Names, EditThaw(p, nm) PROVE Others(p)
    BY <2>4, ConfAssumption DEF ConfTypeOK, Others, EditThaw, Start, locks
  <2>5. ASSUME NEW c \in Confs, NEW nm \in Names, LinkItem(p, c, nm) PROVE Others(p)
    BY <2>5, ConfAssumption DEF ConfTypeOK, Others, LinkItem, Start, files, locks,
       locals
  <2>6. ASSUME NEW c \in Confs, PostItem(p, c) PROVE Others(p)
    BY <2>6, ConfAssumption DEF Others, PostItem, Start, locks, locals
  <2>7. CASE EditReopen(p)
    BY <2>7, ConfAssumption DEF Others, EditReopen, locks, locals
  <2>8. CASE EditRestore(p)
    BY <2>8, ConfAssumption DEF ConfTypeOK, Others, EditRestore, Go, locks, locals,
       Close
  <2>9. CASE LockEx(p) \/ LockSh(p)
    BY <2>9, ConfAssumption DEF ConfTypeOK, Others, LockEx, Go, files, locals, LockSh
  <2>10. CASE Refused(p)
    BY <2>10, ConfAssumption DEF ConfTypeOK, Others, Refused, Close
  <2> QED BY <1>1, <2>1, <2>2, <2>3, <2>4, <2>5, <2>6, <2>7, <2>8, <2>9, <2>10 DEF OpenStep
<1>2. CASE SumStep(p)
  <2>1. CASE GetRead(p) \/ Scan(p)
    BY <2>1, ConfAssumption DEF ConfTypeOK, Others, GetRead, Go, files, sumfile,
       locks, history, Scan, DropLocks
  <2>2. CASE PutBack(p) \/ PutRead(p)
    BY <2>2, ConfAssumption DEF ConfTypeOK, Others, PutBack, Go, locks, locals,
       PutRead
  <2>3. CASE PutDies(p) \/ PutLast(p)
    BY <2>3, ConfAssumption DEF ConfTypeOK, Others, PutDies, Close, PutLast
  <2>4. CASE PutFlags(p) \/ PutNew(p)
    BY <2>4, ConfAssumption DEF ConfTypeOK, Others, PutFlags, Go, locks, PutNew, Close
  <2> QED BY <1>2, <2>1, <2>2, <2>3, <2>4 DEF SumStep
<1>3. CASE PostStep(p)
  <2>1. CASE CreateExists(p) \/ CreateItem(p)
    BY <2>1, ConfAssumption DEF ConfTypeOK, Others, CreateExists, NextName, files,
       sumfile, locks, locals, history, CreateItem
  <2>2. CASE WriteItem(p) \/ WriteItemFails(p)
    BY <2>2, ConfAssumption DEF ConfTypeOK, Others, WriteItem, Go, locks,
       WriteItemFails, Close
  <2>3. CASE ExpectResp(p) \/ RespLate(p)
    BY <2>3, ConfAssumption DEF ConfTypeOK, Others, ExpectResp, Go, files, locks,
       locals, RespLate, Close
  <2>4. CASE WriteResp(p) \/ WriteRespFails(p)
    BY <2>4, ConfAssumption DEF ConfTypeOK, Others, WriteResp, Go, locks,
       WriteRespFails, Close
  <2> QED BY <1>3, <2>1, <2>2, <2>3, <2>4 DEF PostStep
<1>4. CASE ItemStep(p)
  <2>1. CASE ModeStat(p)
    BY <2>1, ConfAssumption DEF ConfTypeOK, Others, ModeStat, Go, files, sumfile,
       locks, history
  <2>2. CASE Chmod(p)
    BY <2>2, ConfAssumption DEF ConfTypeOK, Others, Chmod, Close
  <2>3. CASE KillCheck(p)
    BY <2>3, ConfAssumption DEF ConfTypeOK, Others, KillCheck, Go, files, locks,
       locals
  <2>4. CASE KillRefused(p)
    BY <2>4, ConfAssumption DEF Others, KillRefused, Close
  <2>5. CASE Unlink(p)
    BY <2>5, ConfAssumption DEF Others, Unlink, Go, locks
  <2>6. CASE EditWrite(p)
    BY <2>6, ConfAssumption DEF Others, EditWrite, Close
  <2>7. CASE ViewEnds(p)
    BY <2>7, ConfAssumption DEF Others, ViewEnds, Close, files
  <2>8. CASE ViewOpen(p)
    BY <2>8, ConfAssumption DEF Others, ViewOpen, files, locks
  <2>9. CASE ViewStat(p)
    BY <2>9, ConfAssumption DEF Others, ViewStat, Go, locks
  <2>10. CASE Fix(p)
    BY <2>10, ConfAssumption DEF Others, Fix, Go, locks
  <2>11. CASE Fixed(p)
    BY <2>11, ConfAssumption DEF Others, Fixed, Close
  <2> QED BY <1>4, <2>1, <2>2, <2>3, <2>4, <2>5, <2>6, <2>7, <2>8, <2>9, <2>10, <2>11 DEF ItemStep
<1>5. CASE LinkStep(p)
  <2>1. CASE LinkExists(p) \/ LinkNone(p)
    BY <2>1, ConfAssumption DEF ConfTypeOK, Others, LinkExists, NextName, files,
       sumfile, locks, locals, history, LinkNone, Close
  <2>2. CASE LinkMade(p) \/ LinkRead(p)
    BY <2>2, ConfAssumption DEF ConfTypeOK, Others, LinkMade, Go, locks, locals,
       LinkRead
  <2>3. CASE LinkDies(p) \/ LinkMark(p)
    BY <2>3, ConfAssumption DEF ConfTypeOK, Others, LinkDies, Close, LinkMark, Go,
       locks
  <2>4. CASE LinkDst(p)
    BY <2>4, ConfAssumption DEF ConfTypeOK, Others, LinkDst, Close
  <2> QED BY <1>5, <2>1, <2>2, <2>3, <2>4 DEF LinkStep
<1>6. CASE Crash(p)
  BY <1>6, ConfAssumption DEF Crash, ConfTypeOK, Others, Close, files, sumfile
<1> QED
  BY <1>1, <1>2, <1>3, <1>4, <1>5, <1>6 DEF Act

\* What a process does where: the one that moves ...
LEMMA ControlStep ==
  ASSUME BaseInv, NEW p \in Proc, Act(p)
  PROVE  Control(p)' /\ Fresh(p)'
<1>0. /\ pc \in [Proc -> PCs] /\ op \in [Proc -> Ops] /\ fd \in [Proc -> 0 .. nodes]
      /\ item \in [Proc -> Names \cup {NoName}] /\ from \in [Proc -> Names \cup {NoName}]
      /\ st \in [Proc -> [w : BOOLEAN, r : BOOLEAN, l : BOOLEAN, t : 0 .. MaxClock]]
      /\ ent \in [Proc -> Entries] /\ flag \in [Proc -> {"F", "R", "L"}]
      /\ seen \in [Proc -> SUBSET Flags] /\ nodes \in Nat
      /\ Control(p) /\ Fresh(p)
      /\ \A c \in Confs : last[c] < MaxItem => <<c, last[c] + 1>> \in Names
      /\ pc[p] # "idle" /\ NextName(p) => item'[p] \in Names
  BY Ranges, NextNumber, NextNameType DEF BaseInv, ConfTypeOK
<1>1. CASE OpenStep(p)
  <2>1. ASSUME NEW o \in RespOps, NEW nm \in Names, OpenResp(p, o, nm) PROVE Control(p)' /\ Fresh(p)'
    BY <2>1, <1>0 DEF Control, Fresh, PutPCs, GetPCs, LinkPCs, RespOps, ModeOps,
       KillOps, NoEntry, NoStat, OpenResp, Start, files, sumfile, locks, locals,
       history
  <2>2. ASSUME NEW o \in ModeOps \cup KillOps, NEW nm \in Names, OpenItem(p, o, nm) PROVE Control(p)' /\ Fresh(p)'
    BY <2>2, <1>0 DEF Control, Fresh, GetPCs, LinkPCs, NoEntry, NoStat, OpenItem,
       Start
  <2>3. ASSUME NEW nm \in Names, OpenEdit(p, nm) \/ View(p, nm) PROVE Control(p)' /\ Fresh(p)'
    BY <2>3, <1>0 DEF Control, Fresh, PutPCs, GetPCs, LinkPCs, OpenEdit, Start, View
  <2>4. ASSUME NEW nm \in Names, EditThaw(p, nm) PROVE Control(p)' /\ Fresh(p)'
    BY <2>4, <1>0 DEF Control, Fresh, PutPCs, GetPCs, LinkPCs, EditThaw, Start
  <2>5. ASSUME NEW c \in Confs, NEW nm \in Names, LinkItem(p, c, nm) PROVE Control(p)' /\ Fresh(p)'
    BY <2>5, <1>0 DEF Control, Fresh, PutPCs, GetPCs, LinkPCs, LinkItem, Start, locals
  <2>6. ASSUME NEW c \in Confs, PostItem(p, c) PROVE Control(p)' /\ Fresh(p)'
    BY <2>6, <1>0 DEF Control, Fresh, PutPCs, GetPCs, LinkPCs, PostItem, Start, locals
  <2>7. CASE EditReopen(p)
    BY <2>7, <1>0 DEF Control, Fresh, PutPCs, GetPCs, LinkPCs, EditReopen, locals
  <2>8. CASE EditRestore(p)
    BY <2>8, <1>0 DEF Control, Fresh, PutPCs, GetPCs, LinkPCs, NoEntry, NoStat,
       EditRestore, Go, Close
  <2>9. CASE LockEx(p) \/ LockSh(p)
    BY <2>9, <1>0 DEF Control, Fresh, PutPCs, GetPCs, LinkPCs, NoEntry, NoStat,
       LockEx, Go, LockSh
  <2>10. CASE Refused(p)
    BY <2>10, <1>0 DEF Control, Fresh, PutPCs, GetPCs, LinkPCs, NoEntry, NoStat,
       Refused, Close
  <2> QED BY <1>1, <2>1, <2>2, <2>3, <2>4, <2>5, <2>6, <2>7, <2>8, <2>9, <2>10 DEF OpenStep
<1>2. CASE SumStep(p)
  <2>1. CASE GetRead(p) \/ Scan(p)
    BY <2>1, <1>0 DEF Control, Fresh, PutPCs, GetPCs, LinkPCs, RespOps, ModeOps,
       KillOps, NoEntry, NoStat, GetRead, Go, files, sumfile, locks, history, Scan,
       DropLocks
  <2>2. CASE PutBack(p) \/ PutRead(p)
    BY <2>2, <1>0 DEF Control, Fresh, PutPCs, GetPCs, LinkPCs, NoStat, PutBack, Go,
       locals, PutRead
  <2>3. CASE PutDies(p) \/ PutLast(p)
    BY <2>3, <1>0 DEF Control, Fresh, PutPCs, GetPCs, LinkPCs, NoEntry, NoStat,
       PutDies, Close, PutLast
  <2>4. CASE PutFlags(p) \/ PutNew(p)
    BY <2>4, <1>0 DEF Control, Fresh, PutPCs, GetPCs, LinkPCs, NoEntry, NoStat,
       PutFlags, Go, PutNew, Close
  <2> QED BY <1>2, <2>1, <2>2, <2>3, <2>4 DEF SumStep
<1>3. CASE PostStep(p)
  <2>1. CASE CreateExists(p) \/ CreateItem(p)
    BY <2>1, <1>0 DEF Control, Fresh, PutPCs, GetPCs, LinkPCs, RespOps, ModeOps,
       KillOps, NoEntry, NoStat, CreateExists, NextName, files, sumfile, locks,
       locals, history, CreateItem
  <2>2. CASE WriteItem(p) \/ WriteItemFails(p)
    BY <2>2, <1>0 DEF Control, Fresh, PutPCs, GetPCs, LinkPCs, NoEntry, NoStat,
       WriteItem, Go, WriteItemFails, Close
  <2>3. CASE ExpectResp(p) \/ RespLate(p)
    BY <2>3, <1>0 DEF Control, Fresh, PutPCs, GetPCs, LinkPCs, NoEntry, NoStat,
       ExpectResp, Go, RespLate, Close
  <2>4. CASE WriteResp(p) \/ WriteRespFails(p)
    BY <2>4, <1>0 DEF Control, Fresh, PutPCs, GetPCs, LinkPCs, RespOps, NoEntry,
       NoStat, WriteResp, MayWrite, Go, WriteRespFails, Close
  <2> QED BY <1>3, <2>1, <2>2, <2>3, <2>4 DEF PostStep
<1>4. CASE ItemStep(p)
  <2>1. CASE ModeStat(p)
    BY <2>1, <1>0 DEF Control, Fresh, PutPCs, GetPCs, LinkPCs, RespOps, ModeOps,
       KillOps, NoEntry, NoStat, ModeStat, Go, files, sumfile, locks, history
  <2>2. CASE Chmod(p)
    BY <2>2, <1>0 DEF Control, Fresh, PutPCs, GetPCs, LinkPCs, NoEntry, NoStat, Chmod,
       Close
  <2>3. CASE KillCheck(p)
    BY <2>3, <1>0 DEF Control, Fresh, PutPCs, GetPCs, LinkPCs, NoEntry, NoStat,
       KillCheck, Go
  <2>4. CASE KillRefused(p)
    BY <2>4, <1>0 DEF Control, Fresh, PutPCs, GetPCs, LinkPCs, NoEntry, NoStat,
       KillRefused, Close
  <2>5. CASE Unlink(p)
    BY <2>5, <1>0 DEF Control, Fresh, PutPCs, GetPCs, LinkPCs, KillOps, NoEntry,
       NoStat, Unlink, Go
  <2>6. CASE EditWrite(p)
    BY <2>6, <1>0 DEF Control, Fresh, PutPCs, GetPCs, LinkPCs, KillOps, NoEntry,
       NoStat, EditWrite, Close
  <2>7. CASE ViewEnds(p)
    BY <2>7, <1>0 DEF Control, Fresh, PutPCs, GetPCs, LinkPCs, NoEntry, NoStat,
       ViewEnds, Close
  <2>8. CASE ViewOpen(p)
    BY <2>8, <1>0 DEF Control, Fresh, PutPCs, GetPCs, LinkPCs, NoEntry, NoStat,
       ViewOpen
  <2>9. CASE ViewStat(p)
    BY <2>9, <1>0 DEF Control, Fresh, GetPCs, LinkPCs, ViewStat, Go
  <2>10. CASE Fix(p)
    BY <2>10, <1>0 DEF Control, Fresh, GetPCs, LinkPCs, Fix, Go
  <2>11. CASE Fixed(p)
    BY <2>11, <1>0 DEF Control, Fresh, PutPCs, GetPCs, LinkPCs, NoEntry, NoStat,
       Fixed, Close
  <2> QED BY <1>4, <2>1, <2>2, <2>3, <2>4, <2>5, <2>6, <2>7, <2>8, <2>9, <2>10, <2>11 DEF ItemStep
<1>5. CASE LinkStep(p)
  <2>1. CASE LinkExists(p) \/ LinkNone(p)
    BY <2>1, <1>0 DEF Control, Fresh, PutPCs, GetPCs, LinkPCs, RespOps, ModeOps,
       KillOps, NoEntry, NoStat, LinkExists, NextName, files, sumfile, locks, locals,
       history, LinkNone, Close
  <2>2. CASE LinkMade(p) \/ LinkRead(p)
    BY <2>2, <1>0 DEF Control, Fresh, PutPCs, GetPCs, LinkPCs, NoEntry, NoStat,
       LinkMade, Go, locals, LinkRead
  <2>3. CASE LinkDies(p) \/ LinkMark(p)
    BY <2>3, <1>0 DEF Control, Fresh, PutPCs, GetPCs, LinkPCs, NoEntry, NoStat,
       LinkDies, Close, LinkMark, Go
  <2>4. CASE LinkDst(p)
    BY <2>4, <1>0 DEF Control, Fresh, PutPCs, GetPCs, LinkPCs, NoEntry, NoStat,
       LinkDst, Close
  <2> QED BY <1>5, <2>1, <2>2, <2>3, <2>4 DEF LinkStep
<1>6. CASE Crash(p)
  BY <1>6, <1>0 DEF Crash, Control, Fresh, PutPCs, GetPCs, LinkPCs, RespOps, ModeOps,
     KillOps, NoEntry, NoStat, Close, files, sumfile
<1> QED
  BY <1>1, <1>2, <1>3, <1>4, <1>5, <1>6 DEF Act

\* ... and the others stay as they are.
LEMMA BaseStep ==
  ASSUME BaseInv, NEW p \in Proc, Act(p)
  PROVE  BaseInv'
<1>1. ConfTypeOK'
  BY DirTypeStep, NodeTypeStep, EntryTypeStep, LastTypeStep, HistoryTypeStep,
     ClockTypeStep, PlaceTypeStep, StTypeStep, EntTypeStep, FlagTypeStep, LockStep
     DEF ConfTypeOK, DirType, NodeType, EntryType, LastType, HistoryType, ClockType,
         PlaceType, FdType, StType, EntType, FlagType, LockType
<1>2. ASSUME NEW q \in Proc PROVE Control(q)' /\ Fresh(q)'
  <2>1. CASE q = p
    BY <2>1, ControlStep
  <2>2. CASE q # p
    BY <2>2, OthersStep DEF Others, BaseInv, Control, Fresh
  <2> QED BY <2>1, <2>2
<1> QED
  BY <1>1, <1>2, LockStep DEF BaseInv

\* Time passes for nobody in particular.
LEMMA BaseTick ==
  ASSUME BaseInv, Tick \/ UNCHANGED vars
  PROVE  BaseInv'
<1> USE DEF Tick, vars, files, sumfile, locks, locals, history
<1>1. ConfTypeOK'
  BY ConfAssumption DEF BaseInv, ConfTypeOK
<1>2. (\A p \in Proc : Control(p) /\ Fresh(p))' /\ LockInv'
  BY DEF BaseInv, Control, Fresh, LockInv
<1> QED
  BY <1>1, <1>2 DEF BaseInv

\* Everything starts empty.
LEMMA BaseInit == Init => BaseInv
<1> SUFFICES ASSUME Init PROVE BaseInv
  OBVIOUS
<1>1. ConfTypeOK
  BY ConfAssumption DEF Init, ConfTypeOK, NewNode, NoEntry, NoStat, Entries, Flags, PCs, Ops
<1>2. \A p \in Proc : Control(p) /\ Fresh(p)
  BY DEF Init, Control, Fresh, NoEntry, NoStat, LinkPCs, GetPCs, PutPCs
<1>3. LockInv
  BY ConfAssumption DEF Init, LockInv
<1> QED
  BY <1>1, <1>2, <1>3 DEF BaseInv

\* A step is one of a process or of the clock.
LEMMA NextActs == Next <=> (\E p \in Proc : Act(p)) \/ Tick
BY DEF Next, Act

\* Every variable keeps its type, whoever waits for a lock or holds one has the file
\* open, and an exclusive lock excludes every other, for any number of processes.
THEOREM ConfTypeCorrect == Spec => []ConfTypeOK
<1>1. BaseInv /\ [Next]_vars => BaseInv'
  BY NextActs, BaseStep, BaseTick
<1>2. BaseInv => ConfTypeOK
  BY DEF BaseInv
<1> QED
  BY <1>1, <1>2, BaseInit, PTL DEF Spec

-----------------------------------------------------------------------------
(* Sound names and who works on them.                                      *)

\* What is once noted in the history stays there.
LEMMA HistoryGrows ==
  ASSUME NEW p \in Proc, Act(p)
  PROVE  linked \subseteq linked' /\ torn \subseteq torn' /\ reused \subseteq reused' /\ loose \subseteq loose'
<1>1. CASE UNCHANGED <<linked, torn, reused, loose>>
  BY <1>1
<1>2. ASSUME NEW nm \in Names, EditThaw(p, nm)
      PROVE  linked \subseteq linked' /\ torn \subseteq torn' /\ reused \subseteq reused' /\ loose \subseteq loose'
  BY <1>2 DEF EditThaw
<1>3. CASE \/ EditRestore(p) \/ LockSh(p) \/ PutDies(p) \/ CreateItem(p) \/ WriteItem(p)
           \/ LinkMade(p) \/ Crash(p)
  BY <1>3 DEF EditRestore, LockSh, PutDies, CreateItem, WriteItem, LinkMade, Crash
<1> QED
  BY <1>1, <1>2, <1>3, HistoryChanges

\* A name is sound because it was, or because its file has just been made.
New(p, nm) ==
  /\ CreateItem(p) /\ nm = item[p] /\ dir'[nm] = nodes + 1 /\ entry[nm] = NoEntry
  /\ \A q \in Proc : Busy(q) => item[q] # nm /\ from[q] # nm

\* A name becomes sound in post_item() only, and a sound one stays on its file.
LEMMA SoundStep ==
  ASSUME BaseInv, NEW p \in Proc, Act(p), NEW nm \in Names, Sound(nm)'
  PROVE  New(p, nm) \/ (Sound(nm) /\ dir'[nm] = dir[nm] /\ ~(CreateItem(p) /\ item[p] = nm))
<1>1. /\ linked \subseteq linked' /\ reused \subseteq reused'
      /\ dir \in [Names -> 0 .. nodes] /\ (pc[p] # "idle" => item[p] \in Names)
  BY HistoryGrows, ItemOf DEF BaseInv, ConfTypeOK
<1>2. CASE UNCHANGED <<dir, nodes>>
  <2>1. ~CreateItem(p)
    BY <1>2, Ranges DEF CreateItem, BaseInv
  <2> QED BY <1>1, <1>2, <2>1 DEF Sound
<1>3. CASE CreateItem(p)
  <2>1. dir' = [dir EXCEPT ![item[p]] = nodes + 1] /\ item[p] \in Names
    BY <1>1, <1>3 DEF CreateItem
  <2>2. CASE nm = item[p]
    BY <1>1, <1>3, <2>1, <2>2 DEF CreateItem, New, Sound
  <2>3. CASE nm # item[p]
    BY <1>1, <2>1, <2>3 DEF Sound
  <2> QED BY <2>2, <2>3
<1>4. CASE WriteItemFails(p) \/ Unlink(p)
  BY <1>1, <1>4 DEF WriteItemFails, Unlink, Sound, CreateItem
<1>5. CASE LinkMade(p)
  BY <1>1, <1>5, ItemOf DEF LinkMade, Sound, BaseInv, CreateItem
<1> QED
  BY <1>2, <1>3, <1>4, <1>5, DirChanges

\* A file gets a second name by link_item() only.
LEMMA NamesStep ==
  ASSUME BaseInv, NamesInv, NEW p \in Proc, Act(p)
  PROVE  NamesInv'
<1> SUFFICES ASSUME NEW m \in Names, NEW k \in Names, m # k, dir'[m] = dir'[k], dir'[m] # 0
             PROVE  dir'[m] \in linked'
  BY DEF NamesInv
<1>1. /\ linked \subseteq linked' /\ dir \in [Names -> 0 .. nodes] /\ nodes \in Nat
      /\ (dir[m] = dir[k] /\ dir[m] # 0 => dir[m] \in linked)
      /\ \A j \in Names : dir[j] # nodes + 1
      /\ pc[p] # "idle" => item[p] \in Names
  <2>1. dir \in [Names -> 0 .. nodes] /\ nodes \in Nat
    BY Ranges DEF BaseInv, ConfTypeOK
  <2> QED BY <2>1, HistoryGrows, ItemOf DEF BaseInv, NamesInv
<1>2. CASE UNCHANGED <<dir, nodes>>
  BY <1>1, <1>2
<1>3. CASE CreateItem(p)
  BY <1>1, <1>3 DEF CreateItem
<1>4. CASE WriteItemFails(p) \/ Unlink(p)
  BY <1>1, <1>4 DEF WriteItemFails, Unlink
<1>5. CASE LinkMade(p)
  <2>1. from[p] \in Names /\ item[p] \in Names
    BY <1>5, ItemOf DEF BaseInv, LinkMade
  <2>2. /\ dir' = [dir EXCEPT ![item[p]] = dir[from[p]]]
        /\ linked' = linked \cup {dir[from[p]]}
    BY <1>5 DEF LinkMade
  <2> QED BY <1>1, <2>1, <2>2
<1> QED
  BY <1>2, <1>3, <1>4, <1>5, DirChanges

NameInv == BaseInv /\ NamesInv /\ WorkInv

\* What holds of a process and a sound name, taken together.
LEMMA SoundFacts ==
  ASSUME NameInv, NEW nm \in Names, Sound(nm), NEW p \in Proc
  PROVE  /\ Work(p, nm) /\ Holds(p, nm) /\ Control(p) /\ Fresh(p)
         /\ "L" \notin entry[nm].flags /\ dir[nm] \in Nodes /\ dir[nm] # 0
         /\ \A m \in Names : m # nm => dir[m] # dir[nm]
         /\ ~Linked(dir[nm])
BY Ranges DEF NameInv, BaseInv, WorkInv, Sound, NamesInv, Linked

\* The process that moves: it reads no link from the entry of a sound name, and
\* keeps its lock.
LEMMA OwnWork ==
  ASSUME NameInv, NEW p \in Proc, Act(p), NEW k \in Names, Sound(k), Sound(k)',
         dir'[k] = dir[k], ~(CreateItem(p) /\ item[p] = k)
  PROVE  Work(p, k)' /\ Holds(p, k)'
<1>b. /\ pc \in [Proc -> PCs] /\ op \in [Proc -> Ops] /\ fd \in [Proc -> 0 .. nodes]
      /\ item \in [Proc -> Names \cup {NoName}] /\ from \in [Proc -> Names \cup {NoName}]
      /\ st \in [Proc -> [w : BOOLEAN, r : BOOLEAN, l : BOOLEAN, t : 0 .. MaxClock]]
      /\ ent \in [Proc -> Entries] /\ flag \in [Proc -> {"F", "R", "L"}]
      /\ seen \in [Proc -> SUBSET Flags]
      /\ ex \in [Nodes -> Proc \cup {NoProc}] /\ sh \in [Nodes -> SUBSET Proc]
      /\ dir \in [Names -> 0 .. nodes] /\ nodes \in Nat /\ k # NoName
      /\ pc[p] # "idle" => item[p] \in Names
  BY ConfAssumption, Ranges, ItemOf DEF NameInv, BaseInv, ConfTypeOK, Names
<1>a. /\ Work(p, k) /\ Holds(p, k) /\ Control(p) /\ Fresh(p)
       /\ "L" \notin entry[k].flags /\ dir[k] \in Nodes /\ dir[k] # 0
       /\ \A m \in Names : m # k => dir[m] # dir[k]
       /\ ~Linked(dir[k])
  BY SoundFacts
<1>1. CASE OpenStep(p)
  <2>1. ASSUME NEW o \in RespOps, NEW nm \in Names, OpenResp(p, o, nm) PROVE Work(p, k)' /\ Holds(p, k)'
    BY <2>1, <1>a, <1>b DEF Work, Holds, Busy, InLock, LockedPCs, Control, Fresh,
       PutPCs, GetPCs, LinkPCs, RespOps, ModeOps, KillOps, NoEntry, NoStat, OpenResp,
       Start, files, sumfile, locks, locals, history
  <2>2. ASSUME NEW o \in ModeOps \cup KillOps, NEW nm \in Names, OpenItem(p, o, nm) PROVE Work(p, k)' /\ Holds(p, k)'
    BY <2>2, <1>a, <1>b DEF Work, Holds, InLock, LockedPCs, Fresh, PutPCs, LinkPCs,
       NoEntry, NoStat, OpenItem, Start, locals
  <2>3. ASSUME NEW nm \in Names, OpenEdit(p, nm) \/ View(p, nm) PROVE Work(p, k)' /\ Holds(p, k)'
    BY <2>3, <1>a, <1>b DEF Work, Holds, InLock, LockedPCs, Fresh, PutPCs, LinkPCs,
       OpenEdit, Start, locals, View
  <2>4. ASSUME NEW nm \in Names, EditThaw(p, nm) PROVE Work(p, k)' /\ Holds(p, k)'
    BY <2>4, <1>a, <1>b DEF Work, Holds, InLock, LockedPCs, Fresh, LinkPCs, KillOps,
       NoStat, EditThaw, Start
  <2>5. ASSUME NEW c \in Confs, NEW nm \in Names, LinkItem(p, c, nm) PROVE Work(p, k)' /\ Holds(p, k)'
    BY <2>5, <1>a, <1>b DEF Work, Holds, InLock, LockedPCs, Fresh, LinkPCs, KillOps,
       NoStat, LinkItem, Start, locals
  <2>6. ASSUME NEW c \in Confs, PostItem(p, c) PROVE Work(p, k)' /\ Holds(p, k)'
    BY <2>6, <1>a, <1>b DEF Work, Holds, Busy, PostItem, Start, locals
  <2>7. CASE EditReopen(p)
    BY <2>7, <1>a, <1>b DEF Work, Holds, Busy, InLock, LockedPCs, Control, LinkPCs,
       KillOps, EditReopen, locals
  <2>8. CASE EditRestore(p)
    BY <2>8, <1>a, <1>b DEF Work, Holds, Busy, InLock, LockedPCs, Control, LinkPCs,
       KillOps, EditRestore, Go, locals, Close
  <2>9. CASE LockEx(p) \/ LockSh(p)
    BY <2>9, <1>a, <1>b DEF Work, Holds, Busy, InLock, LockedPCs, Control, PutPCs,
       LinkPCs, KillOps, LockEx, Go, locals, LockSh
  <2>10. CASE Refused(p)
    BY <2>10, <1>a, <1>b DEF Work, Holds, Busy, Control, PutPCs, LinkPCs, Refused,
       Close
  <2> QED BY <1>1, <2>1, <2>2, <2>3, <2>4, <2>5, <2>6, <2>7, <2>8, <2>9, <2>10 DEF OpenStep
<1>2. CASE SumStep(p)
  <2>1. CASE GetRead(p)
    BY <2>1, <1>a, <1>b DEF Work, Holds, Busy, InLock, LockedPCs, Control, Fresh,
       PutPCs, GetPCs, LinkPCs, RespOps, ModeOps, KillOps, NoEntry, NoStat, GetRead,
       Go, files, sumfile, locks, history
  <2>2. CASE Scan(p)
    BY <2>2, <1>a, <1>b DEF Work, Holds, Busy, InLock, LockedPCs, PutPCs, LinkPCs,
       NoEntry, NoStat, Scan, Go, locks, DropLocks
  <2>3. CASE PutBack(p)
    BY <2>3, <1>a, <1>b DEF Work, Holds, Busy, PutBack, Go
  <2>4. CASE PutRead(p)
    BY <2>4, <1>a, <1>b DEF Work, Holds, Busy, InLock, LockedPCs, PutPCs, LinkPCs,
       PutRead, Go, locks
  <2>5. CASE PutDies(p)
    BY <2>5, <1>a, <1>b DEF Work, Holds, Busy, InLock, LockedPCs, PutPCs, LinkPCs,
       PutDies, Close
  <2>6. CASE PutLast(p)
    BY <2>6, <1>a, <1>b DEF Work, Holds, PutLast, Close
  <2>7. CASE PutFlags(p)
    BY <2>7, <1>a, <1>b DEF Work, Holds, Busy, InLock, LockedPCs, LinkPCs, ModeOps,
       KillOps, NoEntry, PutFlags, Go, locks
  <2>8. CASE PutNew(p)
    BY <2>8, <1>a, <1>b DEF Work, Holds, Busy, InLock, LockedPCs, LinkPCs, ModeOps,
       KillOps, NoEntry, PutNew, Close
  <2> QED BY <1>2, <2>1, <2>2, <2>3, <2>4, <2>5, <2>6, <2>7, <2>8 DEF SumStep
<1>3. CASE PostStep(p)
  <2>1. CASE CreateExists(p)
    BY <2>1, <1>a, <1>b DEF Work, Holds, Busy, InLock, LockedPCs, Control, Fresh,
       PutPCs, GetPCs, LinkPCs, RespOps, ModeOps, KillOps, NoEntry, NoStat,
       CreateExists, NextName, files, sumfile, locks, locals, history
  <2>2. CASE CreateItem(p)
    BY <2>2, <1>a, <1>b DEF Work, Holds, Control, NoEntry, NoStat, CreateItem
  <2>3. CASE WriteItem(p)
    BY <2>3, <1>a, <1>b DEF Work, Holds, Busy, InLock, LockedPCs, LinkPCs, KillOps,
       WriteItem, Go, locks
  <2>4. CASE WriteItemFails(p)
    BY <2>4, <1>a, <1>b DEF Work, Holds, Busy, InLock, LockedPCs, LinkPCs, KillOps,
       WriteItemFails, Close
  <2>5. CASE ExpectResp(p)
    BY <2>5, <1>a, <1>b DEF Work, Holds, Busy, InLock, LockedPCs, LinkPCs, KillOps,
       ExpectResp, Go, locks, locals
  <2>6. CASE RespLate(p)
    BY <2>6, <1>a, <1>b DEF Work, Holds, Busy, InLock, LockedPCs, LinkPCs, KillOps,
       RespLate, Close
  <2>7. CASE WriteResp(p)
    BY <2>7, <1>a, <1>b DEF Work, Holds, Busy, InLock, LockedPCs, LinkPCs, KillOps,
       NoEntry, WriteResp, MayWrite, Go, locks
  <2>8. CASE WriteRespFails(p)
    BY <2>8, <1>a, <1>b DEF Work, Holds, Busy, InLock, LockedPCs, LinkPCs, KillOps,
       NoEntry, WriteRespFails, MayWrite, Close
  <2> QED BY <1>3, <2>1, <2>2, <2>3, <2>4, <2>5, <2>6, <2>7, <2>8 DEF PostStep
<1>4. CASE ItemStep(p)
  <2>1. CASE ModeStat(p)
    BY <2>1, <1>a, <1>b DEF Work, Holds, Busy, InLock, LockedPCs, Control, Fresh,
       PutPCs, GetPCs, LinkPCs, RespOps, ModeOps, KillOps, NoEntry, NoStat, ModeStat,
       Go, files, sumfile, locks, history
  <2>2. CASE Chmod(p)
    BY <2>2, <1>a, <1>b DEF Work, Holds, Busy, InLock, LockedPCs, LinkPCs, ModeOps,
       KillOps, NoEntry, NoStat, Chmod, Close
  <2>3. CASE KillCheck(p)
    BY <2>3, <1>a, <1>b DEF Work, Holds, Busy, InLock, LockedPCs, PutPCs, LinkPCs,
       KillCheck, Go, locks, locals
  <2>4. CASE KillRefused(p)
    BY <2>4, <1>a, <1>b DEF Work, Holds, Busy, InLock, LockedPCs, PutPCs, LinkPCs,
       KillRefused, Close
  <2>5. CASE Unlink(p)
    BY <2>5, <1>a, <1>b DEF Work, Holds, Unlink, Go
  <2>6. CASE EditWrite(p)
    BY <2>6, <1>a, <1>b DEF Work, Holds, EditWrite, Close
  <2>7. CASE ViewEnds(p)
    BY <2>7, <1>a, <1>b DEF Work, Holds, ViewEnds, Close
  <2>8. CASE ViewOpen(p)
    BY <2>8, <1>a, <1>b DEF Work, Holds, Busy, InLock, LockedPCs, LinkPCs, KillOps,
       NoEntry, ViewOpen
  <2>9. CASE ViewStat(p)
    <3>1. fd[p] = dir[k] => ~Linked(fd[p])
      BY <1>a DEF Linked
    <3>2. st'[p].l = Linked(fd[p])
      BY <1>b, <2>9 DEF ViewStat
    <3>3. fd[p] # 0 /\ fd' = fd /\ item' = item /\ from' = from /\ op' = op /\ pc'[p] = "fix"
      BY <1>a, <1>b, <2>9 DEF ViewStat, Go, Control
    <3>4. UNCHANGED <<ent, flag, seen, ex, sh>>
      BY <2>9 DEF ViewStat, locks
    <3> QED BY <1>a, <1>b, <2>9, <3>1, <3>2, <3>3, <3>4 DEF ViewStat, Work, Holds, Busy, InLock,
       LockedPCs, Control, PutPCs, GetPCs, LinkPCs, RespOps, ModeOps, KillOps
  <2>10. CASE Fix(p)
    <3>1. pc[p] = "fix" /\ op[p] = "view" /\ fd[p] # 0 /\ pc'[p] = "put" /\ from[p] = NoName
      BY <1>a, <1>b, <2>10 DEF Fix, Go, Control, Fresh, LinkPCs
    <3>2. /\ flag'[p] = FirstWrong(p)
          /\ seen'[p] = SetFlag(seen[p], FirstWrong(p), FirstWrong(p) \notin seen[p])
          /\ UNCHANGED <<fd, item, from, op, ent, st, ex, sh>>
      BY <1>b, <2>10 DEF Fix, Go, locks
    <3>3. "L" \notin seen[p] /\ ~st[p].l => FirstWrong(p) \in {"F", "R"}
      <4>1. "L" \notin seen[p] /\ ~st[p].l => "L" \notin Wrong(p)
        BY <1>b DEF Wrong
      <4> QED BY <4>1 DEF FirstWrong
    <3>4. "L" \notin seen[p] /\ ~st[p].l => flag'[p] # "L" /\ "L" \notin seen'[p]
      BY <3>2, <3>3 DEF SetFlag
    <3> QED BY <1>a, <1>b, <3>1, <3>2, <3>4 DEF Work, Holds, Busy, InLock,
       LockedPCs, PutPCs, LinkPCs, ModeOps, KillOps
  <2>11. CASE Fixed(p)
    BY <2>11, <1>a, <1>b DEF Work, Holds, Busy, InLock, LockedPCs, Control, Fresh,
       PutPCs, GetPCs, LinkPCs, RespOps, ModeOps, KillOps, NoEntry, NoStat, Fixed,
       Close, files, sumfile, history
  <2> QED BY <1>4, <2>1, <2>2, <2>3, <2>4, <2>5, <2>6, <2>7, <2>8, <2>9, <2>10, <2>11 DEF ItemStep
<1>5. CASE LinkStep(p)
  <2>1. CASE LinkExists(p)
    BY <2>1, <1>a, <1>b DEF Work, Holds, Busy, InLock, LockedPCs, Control, Fresh,
       PutPCs, GetPCs, LinkPCs, RespOps, ModeOps, KillOps, NoEntry, NoStat,
       LinkExists, NextName, files, sumfile, locks, locals, history
  <2>2. CASE LinkNone(p)
    BY <2>2, <1>a, <1>b DEF Work, Holds, Control, NoEntry, NoStat, LinkNone, Close
  <2>3. CASE LinkMade(p)
    <3>1. pc[p] = "link" /\ from[p] \in Names /\ item[p] \in Names /\ fd[p] = 0
      BY <1>a, <2>3 DEF LinkMade, Control
    <3>2. /\ dir'[item[p]] = dir[from[p]] /\ linked' = linked \cup {dir[from[p]]}
          /\ dir[from[p]] # 0 /\ dir[item[p]] = 0 /\ pc'[p] = "linkread"
          /\ UNCHANGED <<fd, item, from, op>>
      BY <1>b, <2>3, <3>1 DEF LinkMade, Go
    <3>3. from[p] # k /\ item[p] # k
      BY <1>a, <3>1, <3>2 DEF Sound
    <3> QED BY <1>a, <1>b, <3>1, <3>2, <3>3 DEF Work, Holds, Busy, InLock, LockedPCs
  <2>4. CASE LinkRead(p)
    BY <2>4, <1>a, <1>b DEF Work, Holds, Busy, InLock, LockedPCs, Control, Fresh,
       PutPCs, GetPCs, LinkPCs, RespOps, ModeOps, KillOps, NoEntry, NoStat, LinkRead,
       Go, files, sumfile, locks, history
  <2>5. CASE LinkDies(p)
    BY <2>5, <1>a, <1>b DEF Work, Holds, Busy, LinkPCs, NoEntry, NoStat, LinkDies,
       Close
  <2>6. CASE LinkMark(p)
    BY <2>6, <1>a, <1>b DEF Work, Holds, Busy, LinkPCs, LinkMark, Go
  <2>7. CASE LinkDst(p)
    BY <2>7, <1>a, <1>b DEF Work, Holds, Busy, LinkPCs, LinkDst, Close
  <2> QED BY <1>5, <2>1, <2>2, <2>3, <2>4, <2>5, <2>6, <2>7 DEF LinkStep
<1>6. CASE Crash(p)
  BY <1>6, <1>a, <1>b DEF Crash, Work, Holds, Busy, InLock, LockedPCs, Control, Fresh,
     PutPCs, GetPCs, LinkPCs, RespOps, ModeOps, KillOps, NoEntry, NoStat, Close,
     files, sumfile
<1> QED
  BY <1>1, <1>2, <1>3, <1>4, <1>5, <1>6 DEF Act

\* A sound name keeps an entry that does not say that it is linked.
LEMMA UnlinkedStep ==
  ASSUME NameInv, NEW p \in Proc, Act(p), NEW nm \in Names, Sound(nm),
         "L" \notin entry[nm].flags
  PROVE  "L" \notin entry'[nm].flags
<1>1. /\ Work(p, nm) /\ Control(p) /\ Fresh(p)
      /\ item[p] # NoName => item[p] \in Names
      /\ entry \in [Names -> Entries] /\ ent \in [Proc -> Entries]
  BY SoundFacts DEF NameInv, BaseInv, ConfTypeOK
<1>2. CASE UNCHANGED entry
  BY <1>2
<1>3. CASE item[p] # nm /\ from[p] # nm
  BY <1>1, <1>3, EntryChanges DEF PutBack, PutLast, PutFlags, PutNew, LinkMark, LinkDst
<1>4. CASE PutBack(p) \/ LinkMark(p) \/ LinkDst(p)
  <2>1. item[p] # nm /\ (LinkMark(p) => from[p] # nm)
    BY <1>1, <1>4 DEF Work, Busy, PutBack, LinkMark, LinkDst, LinkPCs
  <2> QED BY <1>1, <1>4, <2>1 DEF PutBack, LinkMark, LinkDst
<1>5. CASE PutNew(p)
  BY <1>1, <1>5 DEF PutNew
<1>6. CASE PutLast(p) \/ PutFlags(p)
  <2>1. CASE item[p] = nm
    <3>1. "L" \notin ent[p].flags \cup seen[p] /\ flag[p] # "L"
      BY <1>1, <1>6, <2>1 DEF Work, Busy, PutLast, PutFlags
    <3>2. "L" \notin NewFlags(p)
      <4>1. CASE op[p] \in KillOps
        BY <4>1 DEF NewFlags, KillOps, ModeOps
      <4>2. CASE op[p] \in ModeOps
        BY <3>1, <4>2 DEF NewFlags, SetFlag, KillOps, ModeOps
      <4>3. CASE op[p] = "view"
        BY <3>1, <4>3 DEF NewFlags, SetFlag, KillOps, ModeOps
      <4>4. CASE op[p] \notin KillOps \cup ModeOps \cup {"view"}
        BY <3>1, <4>4 DEF NewFlags
      <4> QED BY <4>1, <4>2, <4>3, <4>4
    <3> QED BY <1>1, <1>6, <2>1, <3>2 DEF PutLast, PutFlags, NewEntry
  <2>2. CASE item[p] # nm
    BY <1>1, <1>6, <2>2 DEF PutLast, PutFlags
  <2> QED BY <2>1, <2>2
<1> QED
  BY <1>2, <1>4, <1>5, <1>6, EntryChanges

\* Who works on a sound name.
LEMMA WorkStep ==
  ASSUME NameInv, NEW p \in Proc, Act(p)
  PROVE  WorkInv'
<1> SUFFICES ASSUME NEW nm \in Names, Sound(nm)'
             PROVE  /\ "L" \notin entry'[nm].flags
                    /\ \A q \in Proc : Work(q, nm)' /\ Holds(q, nm)'
  BY DEF WorkInv
<1>0. BaseInv /\ Others(p) /\ Control(p) /\ Fresh(p)
  BY OthersStep DEF NameInv, BaseInv
<1>1. CASE New(p, nm)
  <2>0. /\ dir'[nm] = nodes + 1 /\ nm = item[p] /\ entry' = entry /\ entry[nm] = NoEntry
        /\ nm # NoName
        /\ pc[p] = "create" /\ op[p] = "post" /\ pc'[p] = "wantex" /\ fd'[p] = nodes + 1
        /\ item'[p] = nm /\ from'[p] = NoName /\ UNCHANGED <<ent, seen, st, flag, op>>
    BY <1>0, <1>1, ConfAssumption
       DEF New, CreateItem, sumfile, locals, BaseInv, ConfTypeOK, Fresh, Control, LinkPCs, Names
  <2>1. "L" \notin entry'[nm].flags
    BY <2>0 DEF NoEntry
  <2>2. Work(p, nm)' /\ Holds(p, nm)'
    BY <1>0, <2>0 DEF Work, Holds, Busy, InLock, LockedPCs, Fresh, LinkPCs, KillOps, PutPCs
  <2>3. ASSUME NEW q \in Proc, q # p PROVE Work(q, nm)' /\ Holds(q, nm)'
    <3>1. fd[q] \in 0 .. nodes /\ nodes \in Nat /\ Fresh(q)
      BY <1>0, Ranges DEF BaseInv
    <3>2. Busy(q) => item[q] # nm /\ from[q] # nm
      BY <1>1 DEF New
    <3>3. /\ pc'[q] = pc[q] /\ item'[q] = item[q] /\ from'[q] = from[q] /\ fd'[q] = fd[q]
      BY <1>0, <2>3 DEF Others
    <3>4. fd'[q] # dir'[nm] /\ (Busy(q) <=> Busy(q)')
      BY <2>0, <3>1, <3>3 DEF Busy
    <3> QED BY <2>0, <3>1, <3>2, <3>3, <3>4 DEF Work, Holds, Busy, Fresh, LinkPCs
  <2> QED BY <2>1, <2>2, <2>3
<1>2. CASE Sound(nm) /\ dir'[nm] = dir[nm] /\ ~(CreateItem(p) /\ item[p] = nm)
  <2>1. "L" \notin entry'[nm].flags
    BY <1>2, UnlinkedStep, SoundFacts
  <2>2. Work(p, nm)' /\ Holds(p, nm)'
    BY <1>2, OwnWork
  <2>3. ASSUME NEW q \in Proc, q # p PROVE Work(q, nm)' /\ Holds(q, nm)'
    BY <1>0, <1>2, <2>3, SoundFacts DEF Others, Work, Holds, Busy, InLock
  <2> QED BY <2>1, <2>2, <2>3
<1> QED
  BY <1>0, <1>1, <1>2, SoundStep


\* Names, and who works on them, as a step leaves them.
LEMMA NameStep ==
  ASSUME NameInv, NEW p \in Proc, Act(p)
  PROVE  NameInv'
BY BaseStep, NamesStep, WorkStep DEF NameInv

\* Time changes no name.
LEMMA NameTick ==
  ASSUME NameInv, Tick \/ UNCHANGED vars
  PROVE  NameInv'
<1> USE DEF Tick, vars, files, sumfile, locks, locals, history
<1>1. NamesInv'
  BY DEF NameInv, NamesInv
<1>2. WorkInv'
  BY DEF NameInv, WorkInv, Sound, Work, Holds, Busy, InLock
<1> QED
  BY <1>1, <1>2, BaseTick DEF NameInv

\* At first there are no names.
LEMMA NameInit == Init => NameInv
<1> SUFFICES ASSUME Init PROVE NameInv
  OBVIOUS
<1>1. NamesInv /\ WorkInv
  BY DEF Init, NamesInv, WorkInv, Sound
<1> QED
  BY <1>1, BaseInit DEF NameInv

-----------------------------------------------------------------------------
(* The count of responses.                                                 *)

\* Where a process gets to by which step ...
LEMMA Arrives ==
  ASSUME BaseInv, NEW p \in Proc, Act(p)
  PROVE  /\ pc'[p] = "putnew" => WriteItem(p)
         /\ pc'[p] = "put" => WriteResp(p) \/ ModeStat(p) \/ Unlink(p) \/ Fix(p)
         /\ pc'[p] = "add" => PutRead(p) \/ Scan(p)
         /\ pc'[p] \in {"putscan", "putback", "noadd"} => PutRead(p) \/ Scan(p) \/ PutBack(p)
         /\ pc'[p] = "got" => GetRead(p) \/ Scan(p) \/ PutBack(p)
         /\ pc'[p] = "chmod" => PutFlags(p)
         /\ pc'[p] = "fix" => ViewStat(p) \/ PutFlags(p)
<1>0. pc \in [Proc -> PCs] /\ op \in [Proc -> Ops]
  BY DEF BaseInv, ConfTypeOK
<1>1. CASE OpenStep(p)
  <2>1. ASSUME NEW nm \in Names,
               \/ \E o \in RespOps : OpenResp(p, o, nm)
               \/ \E o \in ModeOps \cup KillOps : OpenItem(p, o, nm)
               \/ OpenEdit(p, nm)
        PROVE  pc'[p] \in {"wantex", "wantsh"}
    BY <2>1, <1>0 DEF OpenResp, OpenItem, OpenEdit, Start, Go
  <2>2. ASSUME NEW nm \in Names,
               EditThaw(p, nm) \/ View(p, nm) \/ \E c \in Confs : LinkItem(p, c, nm)
        PROVE  pc'[p] \in {"thawed", "wantsh", "get", "link"}
    BY <2>2, <1>0 DEF EditThaw, View, LinkItem, Start, Go
  <2>3. CASE (\E c \in Confs : PostItem(p, c)) \/ EditReopen(p) \/ EditRestore(p)
    BY <2>3, <1>0 DEF PostItem, EditReopen, EditRestore, Start, Go, Close
  <2>4. CASE LockEx(p) \/ LockSh(p) \/ Refused(p)
    BY <2>4, <1>0 DEF LockEx, LockSh, Refused, Go, Close
  <2> QED BY <1>1, <2>1, <2>2, <2>3, <2>4 DEF OpenStep
<1>2. CASE SumStep(p)
  <2>1. CASE GetRead(p)
    BY <2>1, <1>0 DEF GetRead, Go, Close, NextName
  <2>2. CASE Scan(p)
    BY <2>2, <1>0 DEF Scan, Go, Close, NextName
  <2>3. CASE PutBack(p)
    BY <2>3, <1>0 DEF PutBack, Go, Close, NextName
  <2>4. CASE PutRead(p)
    BY <2>4, <1>0 DEF PutRead, Go, Close, NextName
  <2>5. CASE PutDies(p)
    BY <2>5, <1>0 DEF PutDies, Go, Close, NextName
  <2>6. CASE PutLast(p)
    BY <2>6, <1>0 DEF PutLast, Go, Close, NextName
  <2>7. CASE PutFlags(p)
    BY <2>7, <1>0 DEF PutFlags, Go, Close, NextName
  <2>8. CASE PutNew(p)
    BY <2>8, <1>0 DEF PutNew, Go, Close, NextName
  <2> QED BY <1>2, <2>1, <2>2, <2>3, <2>4, <2>5, <2>6, <2>7, <2>8 DEF SumStep
<1>3. CASE PostStep(p)
  <2>1. CASE CreateExists(p)
    BY <2>1, <1>0 DEF CreateExists, Go, Close, NextName
  <2>2. CASE CreateItem(p)
    BY <2>2, <1>0 DEF CreateItem, Go, Close, NextName
  <2>3. CASE WriteItem(p)
    BY <2>3, <1>0 DEF WriteItem, Go, Close, NextName
  <2>4. CASE WriteItemFails(p)
    BY <2>4, <1>0 DEF WriteItemFails, Go, Close, NextName
  <2>5. CASE ExpectResp(p)
    BY <2>5, <1>0 DEF ExpectResp, Go, Close, NextName
  <2>6. CASE RespLate(p)
    BY <2>6, <1>0 DEF RespLate, Go, Close, NextName
  <2>7. CASE WriteResp(p)
    BY <2>7, <1>0 DEF WriteResp, Go, Close, NextName
  <2>8. CASE WriteRespFails(p)
    BY <2>8, <1>0 DEF WriteRespFails, Go, Close, NextName
  <2> QED BY <1>3, <2>1, <2>2, <2>3, <2>4, <2>5, <2>6, <2>7, <2>8 DEF PostStep
<1>4. CASE ItemStep(p)
  <2>1. CASE ModeStat(p)
    BY <2>1, <1>0 DEF ModeStat, Go, Close, NextName
  <2>2. CASE Chmod(p)
    BY <2>2, <1>0 DEF Chmod, Go, Close, NextName
  <2>3. CASE KillCheck(p)
    BY <2>3, <1>0 DEF KillCheck, Go, Close, NextName
  <2>4. CASE KillRefused(p)
    BY <2>4, <1>0 DEF KillRefused, Go, Close, NextName
  <2>5. CASE Unlink(p)
    BY <2>5, <1>0 DEF Unlink, Go, Close, NextName
  <2>6. CASE EditWrite(p)
    BY <2>6, <1>0 DEF EditWrite, Go, Close, NextName
  <2>7. CASE ViewEnds(p)
    BY <2>7, <1>0 DEF ViewEnds, Go, Close, NextName
  <2>8. CASE ViewOpen(p)
    BY <2>8, <1>0 DEF ViewOpen, Go, Close, NextName
  <2>9. CASE ViewStat(p)
    BY <2>9, <1>0 DEF ViewStat, Go, Close, NextName
  <2>10. CASE Fix(p)
    BY <2>10, <1>0 DEF Fix, Go, Close, NextName
  <2>11. CASE Fixed(p)
    BY <2>11, <1>0 DEF Fixed, Go, Close, NextName
  <2> QED BY <1>4, <2>1, <2>2, <2>3, <2>4, <2>5, <2>6, <2>7, <2>8, <2>9, <2>10, <2>11 DEF ItemStep
<1>5. CASE LinkStep(p)
  BY <1>0, <1>5 DEF LinkStep, LinkExists, LinkNone, LinkMade, LinkRead, LinkDies,
     LinkMark, LinkDst, Go, Close, NextName
<1>6. CASE Crash(p)
  BY <1>0, <1>6 DEF Crash, Go, Close, NextName
<1> QED
  BY <1>1, <1>2, <1>3, <1>4, <1>5, <1>6 DEF Act

\* ... and by which it leaves put_sum() and the place before fchmod().
LEMMA Leaves ==
  ASSUME BaseInv, NEW p \in Proc, Act(p)
  PROVE  /\ pc[p] = "chmod" => Chmod(p) \/ Crash(p)
         /\ pc[p] \in {"putnew"} \cup PutPCs =>
              \/ PutRead(p) \/ Scan(p) \/ PutBack(p) \/ PutDies(p) \/ PutLast(p) \/ PutFlags(p)
              \/ PutNew(p) \/ Crash(p)
<1>1. CASE OpenStep(p)
  BY <1>1 DEF OpenStep, OpenResp, OpenItem, OpenEdit, EditThaw, View, LinkItem,
     PostItem, EditReopen, EditRestore, LockEx, LockSh, Refused, Start, PutPCs
<1>2. CASE SumStep(p)
  <2>1. CASE GetRead(p) \/ Scan(p)
    BY <2>1 DEF GetRead, Scan, PutPCs
  <2>2. CASE PutBack(p) \/ PutRead(p)
    BY <2>2 DEF PutBack, PutRead, PutPCs
  <2>3. CASE PutDies(p) \/ PutLast(p)
    BY <2>3 DEF PutDies, PutLast, PutPCs
  <2>4. CASE PutFlags(p) \/ PutNew(p)
    BY <2>4 DEF PutFlags, PutNew
  <2> QED BY <1>2, <2>1, <2>2, <2>3, <2>4 DEF SumStep
<1>3. CASE PostStep(p)
  BY <1>3 DEF PostStep, CreateExists, CreateItem, WriteItem, WriteItemFails,
     ExpectResp, RespLate, WriteResp, WriteRespFails, MayWrite, PutPCs
<1>4. CASE ItemStep(p)
  <2>1. CASE ModeStat(p) \/ Chmod(p)
    BY <2>1 DEF ModeStat, Chmod, PutPCs
  <2>2. CASE KillCheck(p) \/ KillRefused(p)
    BY <2>2 DEF KillCheck, KillRefused, PutPCs
  <2>3. CASE Unlink(p) \/ EditWrite(p)
    BY <2>3 DEF Unlink, EditWrite, PutPCs
  <2>4. CASE ViewEnds(p) \/ ViewOpen(p)
    BY <2>4 DEF ViewEnds, ViewOpen, PutPCs
  <2>5. CASE ViewStat(p) \/ Fix(p)
    BY <2>5 DEF ViewStat, Fix, PutPCs
  <2>6. CASE Fixed(p)
    BY <2>6 DEF Fixed, PutPCs
  <2> QED BY <1>4, <2>1, <2>2, <2>3, <2>4, <2>5, <2>6 DEF ItemStep
<1>5. CASE LinkStep(p)
  BY <1>5 DEF LinkStep, LinkExists, LinkNone, LinkMade, LinkRead, LinkDies, LinkMark,
     LinkDst, PutPCs
<1>6. CASE Crash(p)
  BY <1>6
<1> QED
  BY <1>1, <1>2, <1>3, <1>4, <1>5, <1>6 DEF Act

\* What a process has written to a file is owed to the sum file until put_sum() has
\* written it there, or the process dies, which is noted.
LEMMA PendingStep ==
  ASSUME BaseInv, NEW p \in Proc, Act(p)
  PROVE  /\ Pending(p)' => WriteItem(p) \/ WriteResp(p)
                           \/ (Pending(p) /\ fd'[p] = fd[p] /\ op'[p] = op[p])
         /\ Pending(p) => PutLast(p) \/ PutNew(p) \/ fd[p] \in torn'
                          \/ (Pending(p)' /\ fd'[p] = fd[p])
<1>0. /\ pc \in [Proc -> PCs] /\ op \in [Proc -> Ops] /\ Control(p)
      /\ PutPCs = {"put", "putscan", "putback", "add", "noadd"}
  BY DEF BaseInv, ConfTypeOK, PutPCs
<1>1. CASE PutRead(p) \/ Scan(p)
  BY <1>0, <1>1 DEF PutRead, Scan, Go, Pending
<1>2. CASE PutBack(p)
  BY <1>0, <1>2 DEF PutBack, Go, Pending
<1>3. ASSUME Pending(p)' PROVE \/ WriteItem(p) \/ WriteResp(p)
                               \/ (Pending(p) /\ fd'[p] = fd[p] /\ op'[p] = op[p])
  <2>1. pc'[p] \in {"put", "putscan", "putback", "add", "noadd", "putnew"}
    BY <1>3 DEF Pending
  <2>2. CASE ModeStat(p) \/ Unlink(p) \/ Fix(p)
    BY <1>0, <1>3, <2>2 DEF Pending, ModeStat, Unlink, Fix, Go, RespOps, ModeOps, Control
  <2> QED BY <1>1, <1>2, <1>3, <2>1, <2>2, Arrives
<1>4. ASSUME Pending(p) PROVE \/ PutLast(p) \/ PutNew(p) \/ fd[p] \in torn'
                              \/ (Pending(p)' /\ fd'[p] = fd[p])
  <2>1. pc[p] \in {"putnew"} \cup PutPCs
    BY <1>0, <1>4 DEF Pending
  <2>2. CASE PutDies(p)
    BY <1>0, <1>4, <2>2 DEF Pending, PutDies, Control, RespOps, ModeOps, KillOps
  <2>3. CASE PutFlags(p)
    BY <1>0, <1>4, <2>3 DEF Pending, PutFlags, RespOps, ModeOps
  <2>4. CASE Crash(p)
    BY <1>4, <2>4 DEF Crash, HalfDone
  <2> QED BY <1>1, <1>2, <1>4, <2>1, <2>2, <2>3, <2>4, Leaves
<1> QED
  BY <1>3, <1>4

\* The entry of a sound name is written by a process that has its file open.
LEMMA EntrySame ==
  ASSUME NameInv, NEW p \in Proc, Act(p), NEW nm \in Names, Sound(nm)
  PROVE  \/ entry'[nm] = entry[nm]
         \/ item[p] = nm /\ fd[p] = dir[nm] /\ (PutLast(p) \/ PutFlags(p) \/ PutNew(p))
<1>1. /\ Work(p, nm) /\ Control(p) /\ entry \in [Names -> Entries]
  BY SoundFacts DEF NameInv, BaseInv, ConfTypeOK
<1>2. CASE PutBack(p) \/ LinkMark(p) \/ LinkDst(p)
  <2>1. item[p] # nm /\ (LinkMark(p) => from[p] # nm)
    BY <1>1, <1>2 DEF Work, Busy, PutBack, LinkMark, LinkDst, LinkPCs
  <2> QED BY <1>1, <1>2, <2>1 DEF PutBack, LinkMark, LinkDst
<1>3. CASE PutLast(p) \/ PutFlags(p) \/ PutNew(p)
  <2>1. CASE item[p] = nm
    BY <1>1, <1>3, <2>1 DEF Work, Busy, Control, PutPCs, PutLast, PutFlags, PutNew
  <2>2. CASE item[p] # nm
    BY <1>1, <1>3, <2>2 DEF PutLast, PutFlags, PutNew
  <2> QED BY <2>1, <2>2
<1> QED
  BY <1>2, <1>3, EntryChanges

\* Responses are only written to an open file.
LEMMA CountSame ==
  ASSUME BaseInv, NEW p \in Proc, Act(p), NEW d \in Nodes, d <= nodes
  PROVE  node'[d].n = node[d].n \/ (fd[p] = d /\ (WriteItem(p) \/ WriteResp(p)))
<1>1. /\ node \in [Nodes -> [n : Nat, w : BOOLEAN, r : BOOLEAN, t : 0 .. MaxClock]]
      /\ d # nodes + 1 /\ Nodes \subseteq Nat
  BY Ranges DEF BaseInv, ConfTypeOK, Nodes
<1> HIDE DEF Nodes
<1>2. ASSUME NEW nm \in Names, EditThaw(p, nm) PROVE node'[d].n = node[d].n
  BY <1>1, <1>2 DEF EditThaw
<1>3. CASE EditRestore(p)
  BY <1>1, <1>3 DEF EditRestore
<1>4. CASE CreateItem(p)
  BY <1>1, <1>4 DEF CreateItem
<1>5. CASE WriteItem(p) \/ WriteResp(p)
  BY <1>1, <1>5 DEF WriteItem, WriteResp
<1>6. CASE WriteRespFails(p) \/ Chmod(p) \/ EditWrite(p)
  BY <1>1, <1>6 DEF WriteRespFails, Chmod, EditWrite
<1> QED
  BY <1>2, <1>3, <1>4, <1>5, <1>6, NodeChanges

\* Who holds the exclusive lock of a sound name is alone with it.
LEMMA Excluded ==
  ASSUME NameInv, NEW nm \in Names, Sound(nm), NEW p \in Proc, NEW q \in Proc, p # q,
         ex[dir[nm]] = p, fd[q] = dir[nm]
  PROVE  ~InLock(q)
<1>1. Work(q, nm) /\ Holds(q, nm) /\ Control(q) /\ dir[nm] \in Nodes /\ dir[nm] # 0
  BY SoundFacts
<1>2. sh[dir[nm]] = {} /\ Busy(q) /\ item[q] = nm
  BY <1>1, ConfAssumption DEF NameInv, BaseInv, ConfTypeOK, Work, Control, Busy
<1> QED
  BY <1>1, <1>2 DEF Holds

\* Who writes responses or an item has the exclusive lock.
LEMMA Owner ==
  ASSUME NameInv, NEW nm \in Names, Sound(nm), NEW p \in Proc, fd[p] = dir[nm],
         InLock(p), op[p] \in RespOps \cup {"post", "edit"}
  PROVE  ex[dir[nm]] = p
<1>1. Work(p, nm) /\ Holds(p, nm) /\ Control(p) /\ dir[nm] # 0
  BY SoundFacts
<1> QED
  BY <1>1 DEF Work, Holds, Control, Busy, RespOps, ModeOps, KillOps

\* A pending process is one of these.
LEMMA PendingOwner ==
  ASSUME NameInv, NEW nm \in Names, Sound(nm), NEW p \in Proc, fd[p] = dir[nm], Pending(p)
  PROVE  ex[dir[nm]] = p /\ pc[p] \in {"put", "add", "putnew"}
<1>1. Work(p, nm) /\ Control(p) /\ dir[nm] # 0
  BY SoundFacts
<1>2. pc[p] \in {"put", "add", "putnew"}
  BY <1>1 DEF Work, Control, Busy, Pending
<1> QED
  BY <1>2, Owner DEF Pending, InLock, LockedPCs

\* The counts of one name.
Counted(nm) ==
  /\ \A p \in Proc : Counts(p, nm)
  /\ (\A p \in Proc : fd[p] = dir[nm] => ~Pending(p)) => entry[nm].n = node[dir[nm]].n

\* CountInv, name by name.
LEMMA CountInvNames ==
  CountInv <=> \A nm \in Names : Sound(nm) /\ dir[nm] \notin torn => Counted(nm)
BY DEF CountInv, CountsAgree, Counted, Sound

\* A name that nobody but the holder of the exclusive lock has locked.
LEMMA AloneCounted ==
  ASSUME NameInv, NEW nm \in Names, Sound(nm), NEW p \in Proc, ex[dir[nm]] = p, Act(p),
         dir'[nm] = dir[nm], NEW q \in Proc, q # p
  PROVE  Counts(q, nm)' /\ (fd'[q] = dir'[nm] => ~Pending(q)')
<1>1. Others(p)
  BY OthersStep DEF NameInv, BaseInv
<1>2. fd[q] = dir[nm] => ~InLock(q) /\ ~Pending(q)
  BY Excluded, PendingOwner
<1>3. Control(q) /\ dir[nm] # 0
  BY SoundFacts
<1>4. fd[q] = dir[nm] => pc[q] \notin {"add", "got"}
  BY <1>2, <1>3 DEF InLock, LockedPCs, Control, GetPCs
<1> QED
  BY <1>1, <1>2, <1>4 DEF Others, Counts, Pending

\* A file just made has no response, and its entry counts none.
LEMMA CountNew ==
  ASSUME NameInv, NEW p \in Proc, Act(p), NEW nm \in Names, New(p, nm)
  PROVE  Counted(nm)'
<1>1. /\ node \in [Nodes -> [n : Nat, w : BOOLEAN, r : BOOLEAN, t : 0 .. MaxClock]]
      /\ nodes \in Nat /\ nodes + 1 \in Nodes /\ pc \in [Proc -> PCs] /\ fd \in [Proc -> 0 .. nodes]
  BY Ranges DEF NameInv, BaseInv, ConfTypeOK, New, CreateItem
<1>2. /\ dir'[nm] = nodes + 1 /\ entry'[nm].n = 0 /\ pc'[p] = "wantex"
      /\ node' = [node EXCEPT ![nodes + 1] = [NewNode EXCEPT !.t = clock]]
  BY <1>1 DEF New, CreateItem, sumfile, NoEntry
<1>3. node'[dir'[nm]].n = 0
  BY <1>1, <1>2 DEF NewNode
<1>4. ASSUME NEW q \in Proc PROVE Counts(q, nm)'
  <2>1. CASE q = p
    BY <1>2, <2>1 DEF Counts, Pending
  <2>2. CASE q # p
    BY <1>1, <1>2, <2>2, OthersStep DEF NameInv, BaseInv, Others, Counts
  <2> QED BY <2>1, <2>2
<1> QED
  BY <1>2, <1>3, <1>4 DEF Counted

\* Where neither the file nor the entry changes its count.
LEMMA CountQuiet ==
  ASSUME NameInv, NEW p \in Proc, Act(p), NEW nm \in Names, Sound(nm), Counted(nm),
         Sound(nm)', dir'[nm] = dir[nm], dir[nm] \notin torn',
         entry'[nm].n = entry[nm].n, node'[dir[nm]].n = node[dir[nm]].n,
         ~WriteItem(p), ~WriteResp(p), ~PutLast(p), ~PutNew(p)
  PROVE  Counted(nm)'
<1>1. Others(p) /\ NameInv' /\ Work(p, nm) /\ Work(p, nm)' /\ Control(p)
  <2>1. NameInv'
    BY NameStep
  <2> QED BY <2>1, OthersStep, SoundFacts DEF NameInv, BaseInv, WorkInv
<1>2. ASSUME NEW q \in Proc, q # p
      PROVE  Counts(q, nm)' /\ (fd[q] = dir[nm] /\ Pending(q) => fd'[q] = dir'[nm] /\ Pending(q)')
  BY <1>1, <1>2 DEF Others, Counted, Counts, Pending
<1>3. /\ Pending(p)' => Pending(p) /\ fd'[p] = fd[p] /\ op'[p] = op[p]
      /\ Pending(p) => fd[p] \in torn' \/ (Pending(p)' /\ fd'[p] = fd[p])
  BY PendingStep DEF NameInv
<1>4. ASSUME item'[p] = nm, fd'[p] = dir'[nm] PROVE Counts(p, nm)'
  <2>1. Pending(p)' => node'[dir'[nm]].n = IF op'[p] = "post" THEN 1 ELSE entry'[nm].n + 1
    BY <1>1, <1>3, <1>4 DEF Counted, Counts, Work
  <2>2. ASSUME pc'[p] \in {"add", "got"} PROVE ent'[p].n = entry'[nm].n
    <3>1. PutRead(p) \/ GetRead(p) \/ Scan(p) \/ PutBack(p)
      BY <2>2, Arrives DEF NameInv
    <3>2. item[p] = nm /\ Busy(p)
      BY <1>4, <3>1 DEF PutRead, GetRead, Scan, PutBack, Go, Busy
    <3>3. PutRead(p) \/ GetRead(p)
      BY <1>1, <3>1, <3>2 DEF Work, Scan, PutBack
    <3>4. ent \in [Proc -> Entries] /\ ent'[p] = entry[nm]
      BY <3>2, <3>3 DEF NameInv, BaseInv, ConfTypeOK, PutRead, GetRead
    <3> QED BY <3>4
  <2> QED BY <2>1, <2>2 DEF Counts
<1>5. (\A q \in Proc : fd'[q] = dir'[nm] => ~Pending(q)') => entry'[nm].n = node'[dir'[nm]].n
  BY <1>2, <1>3 DEF Counted
<1> QED
  BY <1>2, <1>4, <1>5 DEF Counted, Counts

\* Where one of them does, the process that changes it has the lock for itself.
LEMMA CountOld ==
  ASSUME NameInv, NEW p \in Proc, Act(p), NEW nm \in Names, Sound(nm), Counted(nm),
         Sound(nm)', dir'[nm] = dir[nm], dir[nm] \notin torn'
  PROVE  Counted(nm)'
<1> DEFINE d == dir[nm]
<1>1. /\ Work(p, nm) /\ Control(p) /\ d \in Nodes /\ d # 0 /\ d <= nodes
      /\ node \in [Nodes -> [n : Nat, w : BOOLEAN, r : BOOLEAN, t : 0 .. MaxClock]]
      /\ entry \in [Names -> Entries] /\ pc \in [Proc -> PCs] /\ op \in [Proc -> Ops]
      /\ fd \in [Proc -> 0 .. nodes] /\ ent \in [Proc -> Entries]
      /\ Nodes \subseteq Nat /\ node[d].n \in Nat
  <2>1. d \in Nodes /\ d # 0 /\ Work(p, nm) /\ Control(p)
    BY SoundFacts
  <2>2. d <= nodes /\ Nodes \subseteq Nat
    BY Ranges DEF NameInv, BaseInv, Nodes
  <2> HIDE DEF Nodes, d
  <2> QED BY <2>1, <2>2 DEF NameInv, BaseInv, ConfTypeOK
<1> HIDE DEF Nodes
<1>2. ASSUME ex[d] = p, entry'[nm].n = node'[d].n, fd'[p] = 0
      PROVE  Counted(nm)'
  BY <1>1, <1>2, AloneCounted DEF Counted, Counts
<1>3. ASSUME ex[d] = p, Pending(p)', fd'[p] = d, pc'[p] \notin {"add", "got"},
             node'[d].n = IF op'[p] = "post" THEN 1 ELSE entry'[nm].n + 1
      PROVE  Counted(nm)'
  BY <1>3, AloneCounted DEF Counted, Counts
<1>4. CASE WriteItem(p) /\ fd[p] = d
  <2>1. ex[d] = p
    BY <1>4, Owner DEF WriteItem, InLock, LockedPCs
  <2>2. torn' = IF node[d].n > 0 THEN torn \cup {d} ELSE torn
    BY <1>4 DEF WriteItem
  <2>3. node[d].n = 0
    BY <1>1, <2>2
  <2>4. node'[d].n = 1
    BY <1>1, <1>4, <2>3 DEF WriteItem
  <2>5. Pending(p)' /\ op'[p] = "post" /\ fd'[p] = d /\ pc'[p] = "putnew"
    BY <1>1, <1>4 DEF WriteItem, Go, Pending
  <2> QED BY <1>3, <2>1, <2>4, <2>5
<1>5. CASE WriteResp(p) /\ fd[p] = d
  <2>1. op[p] \in RespOps /\ InLock(p) /\ ~Pending(p)
    BY <1>5 DEF WriteResp, MayWrite, RespOps, InLock, LockedPCs, Pending
  <2>2. ex[d] = p
    BY <1>5, <2>1, Owner
  <2>3. \A q \in Proc : fd[q] = d => ~Pending(q)
    BY <2>1, <2>2, PendingOwner
  <2>4. entry[nm].n = node[d].n
    BY <2>3 DEF Counted
  <2>5. node'[d].n = node[d].n + 1 /\ entry'[nm].n = entry[nm].n
    BY <1>1, <1>5 DEF WriteResp, sumfile
  <2>6. Pending(p)' /\ op'[p] # "post" /\ fd'[p] = d /\ pc'[p] = "put"
    BY <1>1, <1>5, <2>1 DEF WriteResp, Go, Pending, RespOps
  <2> QED BY <1>3, <2>2, <2>4, <2>5, <2>6
<1>6. CASE PutLast(p) /\ item[p] = nm /\ fd[p] = d
  <2>1. op[p] \in RespOps /\ pc[p] = "add"
    BY <1>1, <1>6 DEF PutLast, Work, Busy, PutPCs
  <2>2. Pending(p) /\ ex[d] = p
    BY <1>6, <2>1, Owner DEF Pending, InLock, LockedPCs
  <2>3. ent[p].n = entry[nm].n /\ node[d].n = entry[nm].n + 1
    BY <1>6, <2>1, <2>2 DEF Counted, Counts, RespOps
  <2>4. NewEntry(p).n = ent[p].n + 1
    BY <2>1 DEF NewEntry, NewCount, RespOps, KillOps
  <2>5. entry'[nm].n = node[d].n /\ node' = node /\ fd'[p] = 0
    BY <1>1, <1>6, <2>3, <2>4 DEF PutLast, Close, files
  <2> QED BY <1>2, <2>2, <2>5
<1>7. CASE PutNew(p) /\ item[p] = nm /\ fd[p] = d
  <2>1. op[p] = "post" /\ pc[p] = "putnew"
    BY <1>1, <1>7 DEF PutNew, Control
  <2>2. Pending(p) /\ ex[d] = p
    BY <1>7, <2>1, Owner DEF Pending, InLock, LockedPCs
  <2>3. node[d].n = 1
    BY <1>7, <2>1, <2>2 DEF Counted, Counts
  <2>4. entry'[nm].n = 1 /\ node' = node /\ fd'[p] = 0
    BY <1>1, <1>7 DEF PutNew, Close, files
  <2> QED BY <1>2, <2>2, <2>3, <2>4
<1>8. CASE PutFlags(p) /\ item[p] = nm /\ fd[p] = d
  <2>1. pc[p] = "add" /\ op[p] \notin KillOps \cup RespOps
    BY <1>1, <1>8 DEF PutFlags, Work, Busy, RespOps, ModeOps, KillOps
  <2>2. NewEntry(p).n = ent[p].n
    BY <2>1 DEF NewEntry, NewCount
  <2>3. entry'[nm].n = entry[nm].n /\ node' = node
    BY <1>1, <1>8, <2>1, <2>2 DEF PutFlags, files, Counted, Counts
  <2>4. ~WriteItem(p) /\ ~WriteResp(p) /\ ~PutLast(p) /\ ~PutNew(p)
    BY <2>1 DEF WriteItem, WriteResp, MayWrite, PutLast, PutNew
  <2> QED BY <2>3, <2>4, CountQuiet
<1>9. CASE /\ ~(fd[p] = d /\ (WriteItem(p) \/ WriteResp(p)))
           /\ ~(item[p] = nm /\ fd[p] = d /\ (PutLast(p) \/ PutFlags(p) \/ PutNew(p)))
  <2>1. entry'[nm] = entry[nm] /\ node'[d].n = node[d].n
    BY <1>1, <1>9, EntrySame, CountSame DEF NameInv
  <2>2. CASE ~WriteItem(p) /\ ~WriteResp(p) /\ ~PutLast(p) /\ ~PutNew(p)
    BY <2>1, <2>2, CountQuiet
  <2>3. CASE WriteItem(p) \/ WriteResp(p) \/ PutLast(p) \/ PutNew(p)
    <3>1. fd[p] # d /\ fd'[p] # d
      BY <1>1, <1>9, <2>3 DEF WriteItem, WriteResp, PutLast, PutNew, Go, Close, Work,
         Busy, Control, PutPCs
    <3>2. Others(p)
      BY OthersStep DEF NameInv, BaseInv
    <3> QED BY <2>1, <3>1, <3>2 DEF Others, Counted, Counts, Pending
  <2> QED BY <2>2, <2>3
<1> QED
  BY <1>4, <1>5, <1>6, <1>7, <1>8, <1>9

\* The counts, after any step of any process ...
LEMMA CountStep ==
  ASSUME NameInv, CountInv, NEW p \in Proc, Act(p)
  PROVE  CountInv'
<1>1. ASSUME NEW nm \in Names, Sound(nm)', dir'[nm] \notin torn' PROVE Counted(nm)'
  <2>1. CASE New(p, nm)
    BY <2>1, CountNew
  <2>2. CASE Sound(nm) /\ dir'[nm] = dir[nm]
    <3>1. Counted(nm)
      BY <1>1, <2>2, HistoryGrows, CountInvNames
    <3> QED BY <1>1, <2>2, <3>1, CountOld
  <2> QED BY <1>1, <2>1, <2>2, SoundStep DEF NameInv
<1> QED
  BY <1>1 DEF CountInv, CountsAgree, Counted, Sound

\* ... or of the clock, and at the start.
LEMMA CountTick ==
  ASSUME CountInv, Tick \/ UNCHANGED vars
  PROVE  CountInv'
BY DEF Tick, vars, files, sumfile, locks, locals, history, CountInv, CountsAgree,
   Sound, Counts, Pending

\* At first there is nothing to count.
LEMMA CountInit == Init => CountInv
BY DEF Init, CountInv, CountsAgree, Sound

\* The sum file counts the responses of every item that was never linked, whose name
\* was used once, and none of whose updates was cut short, but for a response just
\* being posted: for any number of conferences, items, processes and responses.
THEOREM ConfCountsAgree == Spec => []CountsAgree
<1> DEFINE Inv == NameInv /\ CountInv
<1>1. Init => Inv
  BY NameInit, CountInit
<1>2. Inv /\ [Next]_vars => Inv'
  BY NextActs, NameStep, NameTick, CountStep, CountTick
<1>3. Inv => CountsAgree
  BY DEF CountInv
<1> QED
  BY <1>1, <1>2, <1>3, PTL DEF Spec

\* kill_item() by an author: whoever has found no response holds a lock of the item,
\* so that nobody is posting one, and the count it has read is that of the file.
LEMMA KillSafe == NameInv /\ CountInv => AuthorKillsUnanswered
<1> SUFFICES ASSUME NameInv, CountInv, NEW p \in Proc, pc[p] = "got", op[p] = "authorkill",
                    MayKill(p), dir[item[p]] = fd[p], fd[p] \notin linked \cup torn \cup reused
             PROVE  node[fd[p]].n <= 1
  BY DEF AuthorKillsUnanswered
<1> DEFINE nm == item[p]
           d == fd[p]
<1>1. nm \in Names /\ d # 0
  <2>1. Control(p)
    BY DEF NameInv, BaseInv
  <2> QED BY <2>1 DEF Control, GetPCs
<1>2. Sound(nm) /\ Counted(nm)
  BY <1>1, CountInvNames DEF Sound
<1>3. InLock(p) /\ ~Pending(p) /\ Busy(p)
  BY DEF InLock, LockedPCs, Pending, Busy
<1>4. ex[d] = p \/ p \in sh[d]
  BY <1>2, <1>3, SoundFacts, <1>1 DEF Holds
<1>5. ASSUME NEW q \in Proc, fd[q] = d PROVE ~Pending(q)
  <2>1. CASE q = p
    BY <1>3, <2>1
  <2>2. CASE q # p
    <3>1. Pending(q) => ex[d] = q
      BY <1>1, <1>2, <1>5, PendingOwner
    <3>2. d \in Nodes
      BY <1>1, <1>2, SoundFacts
    <3>3. ex[d] # NoProc => sh[d] = {}
      BY <3>2 DEF NameInv, BaseInv, ConfTypeOK
    <3> QED BY <1>4, <2>2, <3>1, <3>3, ConfAssumption
  <2> QED BY <2>1, <2>2
<1>6. entry[nm].n = node[d].n /\ ent[p].n = entry[nm].n
  BY <1>2, <1>5 DEF Counted, Counts
<1> QED
  BY <1>6 DEF MayKill

\* An author's kill_item() removes no item that somebody has responded to, if the item
\* was never linked: the check under the lock still holds when the file is removed.
THEOREM ConfAuthorKills == Spec => []AuthorKillsUnanswered
<1> DEFINE Inv == NameInv /\ CountInv
<1>1. Init => Inv
  BY NameInit, CountInit
<1>2. Inv /\ [Next]_vars => Inv'
  BY NextActs, NameStep, NameTick, CountStep, CountTick
<1> QED
  BY <1>1, <1>2, KillSafe, PTL DEF Spec

-----------------------------------------------------------------------------
(* The flags and the mode.                                                 *)

\* A file that has a response keeps one.
LEMMA CountGrows ==
  ASSUME BaseInv, NEW p \in Proc, Act(p), NEW d \in Nodes, d <= nodes, node[d].n # 0
  PROVE  node'[d].n # 0
<1>1. /\ node \in [Nodes -> [n : Nat, w : BOOLEAN, r : BOOLEAN, t : 0 .. MaxClock]]
      /\ node[d].n \in Nat
  BY DEF BaseInv, ConfTypeOK
<1>2. CASE WriteItem(p) /\ fd[p] = d
  <2>1. PICK k \in 1 .. MaxResp : node' = [node EXCEPT ![fd[p]].n = k, ![fd[p]].t = clock]
    BY <1>2 DEF WriteItem
  <2> QED BY <1>1, <1>2, <2>1
<1>3. CASE WriteResp(p) /\ fd[p] = d
  BY <1>1, <1>3 DEF WriteResp
<1> QED
  BY <1>2, <1>3, CountSame

\* Only item_mode() changes the mode of a file under a lock.
LEMMA ModeSame ==
  ASSUME BaseInv, NEW p \in Proc, Act(p), NEW d \in Nodes, d <= nodes, d \notin loose'
  PROVE  \/ node'[d].w = node[d].w /\ node'[d].r = node[d].r
         \/ fd[p] = d /\ Chmod(p)
<1>1. /\ node \in [Nodes -> [n : Nat, w : BOOLEAN, r : BOOLEAN, t : 0 .. MaxClock]]
      /\ d # nodes + 1 /\ Nodes \subseteq Nat
  BY Ranges DEF BaseInv, ConfTypeOK, Nodes
<1> HIDE DEF Nodes
<1>2. ASSUME NEW nm \in Names, EditThaw(p, nm)
      PROVE  node'[d].w = node[d].w /\ node'[d].r = node[d].r
  BY <1>1, <1>2 DEF EditThaw
<1>3. CASE EditRestore(p)
  BY <1>1, <1>3 DEF EditRestore
<1>4. CASE CreateItem(p)
  BY <1>1, <1>4 DEF CreateItem
<1>5. CASE WriteItem(p)
  <2>1. PICK k \in 1 .. MaxResp : node' = [node EXCEPT ![fd[p]].n = k, ![fd[p]].t = clock]
    BY <1>5 DEF WriteItem
  <2> QED BY <1>1, <2>1
<1>6. CASE WriteResp(p) \/ WriteRespFails(p) \/ EditWrite(p)
  BY <1>1, <1>6 DEF WriteResp, WriteRespFails, EditWrite
<1>7. CASE Chmod(p) /\ fd[p] # d
  BY <1>1, <1>7 DEF Chmod
<1> QED
  BY <1>2, <1>3, <1>4, <1>5, <1>6, <1>7, NodeChanges

\* item_mode() has found a response.
LEMMA ModeHasResponse ==
  ASSUME BaseInv, BlankInv, NEW p \in Proc, Act(p), NEW q \in Proc,
         op'[q] \in ModeOps, pc'[q] \in {"chmod"} \cup PutPCs
  PROVE  node'[fd'[q]].n # 0
<1>1. /\ pc \in [Proc -> PCs] /\ op \in [Proc -> Ops]
      /\ \A s \in Proc : fd[s] \in 0 .. nodes /\ (fd[s] # 0 => fd[s] \in Nodes)
      /\ \A s \in Proc : Control(s)
  BY Ranges DEF BaseInv, ConfTypeOK
<1>2. ASSUME NEW s \in Proc, fd'[s] = fd[s], fd[s] # 0, node[fd[s]].n # 0
      PROVE  node'[fd'[s]].n # 0
  BY <1>1, <1>2, CountGrows
<1>3. CASE q # p
  <2>1. op[q] \in ModeOps /\ pc[q] \in {"chmod"} \cup PutPCs /\ fd'[q] = fd[q]
    BY <1>3, OthersStep DEF BaseInv, Others
  <2> QED BY <1>1, <1>2, <2>1 DEF BlankInv, Control
<1>4. CASE q = p
  <2>1. \/ WriteResp(p) \/ ModeStat(p) \/ Unlink(p) \/ Fix(p) \/ PutRead(p) \/ Scan(p)
        \/ PutBack(p) \/ PutFlags(p)
    BY <1>4, Arrives DEF PutPCs
  <2>2. CASE ModeStat(p)
    BY <1>1, <1>2, <1>4, <2>2 DEF ModeStat, Go, Control, files
  <2>3. CASE WriteResp(p) \/ Unlink(p) \/ Fix(p)
    BY <1>1, <1>4, <2>3
       DEF WriteResp, MayWrite, Unlink, Fix, Go, Control, RespOps, ModeOps, KillOps
  <2>4. CASE PutRead(p) \/ Scan(p) \/ PutBack(p) \/ PutFlags(p)
    <3>1. op'[p] = op[p] /\ fd'[p] = fd[p]
      BY <1>1, <2>4 DEF PutRead, Scan, PutBack, PutFlags, Go
    <3>2. pc[p] \in PutPCs
      <4>1. CASE PutBack(p)
        BY <1>1, <1>4, <4>1 DEF PutBack, Go, PutPCs
      <4>2. CASE Scan(p)
        BY <1>1, <1>4, <4>2 DEF Scan, Go, PutPCs
      <4> QED BY <2>4, <4>1, <4>2 DEF PutRead, PutFlags, PutPCs
    <3> QED BY <1>1, <1>2, <1>4, <3>1, <3>2 DEF BlankInv, Control
  <2> QED BY <2>1, <2>2, <2>3, <2>4
<1> QED
  BY <1>3, <1>4

\* fchmod() is item_mode()'s.
LEMMA ChmodOp ==
  ASSUME BaseInv, NEW p \in Proc, Chmod(p)
  PROVE  pc[p] = "chmod" /\ op[p] \in ModeOps /\ fd[p] \in Nodes /\ fd[p] <= nodes
BY Ranges DEF BaseInv, Control, Chmod, Nodes

\* No file is written before it is made.
LEMMA BeyondSame ==
  ASSUME BaseInv, NEW p \in Proc, Act(p), NEW d \in Nodes, d > nodes
  PROVE  node'[d] = node[d] \/ (CreateItem(p) /\ d = nodes + 1)
<1>1. /\ node \in [Nodes -> [n : Nat, w : BOOLEAN, r : BOOLEAN, t : 0 .. MaxClock]]
      /\ nodes \in Nat /\ fd[p] <= nodes /\ (fd[p] # 0 => fd[p] \in Nodes)
      /\ \A nm \in Names : dir[nm] <= nodes
      /\ Nodes \subseteq Nat /\ (pc[p] # "idle" => item[p] \in Names) /\ Control(p)
  <2>1. /\ nodes \in Nat /\ fd[p] \in 0 .. nodes /\ (fd[p] # 0 => fd[p] \in Nodes)
        /\ \A nm \in Names : dir[nm] \in 0 .. nodes
    BY Ranges DEF BaseInv
  <2>2. Nodes \subseteq Nat
    BY DEF Nodes
  <2>3. fd[p] <= nodes /\ \A nm \in Names : dir[nm] <= nodes
    BY <2>1
  <2> HIDE DEF Nodes
  <2> QED BY <2>1, <2>2, <2>3, ItemOf DEF BaseInv, ConfTypeOK
<1> HIDE DEF Nodes
<1>2. d # fd[p] /\ (\A nm \in Names : d # dir[nm])
  BY <1>1
<1>3. ASSUME NEW nm \in Names, EditThaw(p, nm) PROVE node'[d] = node[d]
  BY <1>1, <1>2, <1>3 DEF EditThaw
<1>4. CASE EditRestore(p)
  BY <1>1, <1>2, <1>4 DEF EditRestore
<1>5. CASE CreateItem(p)
  BY <1>1, <1>5 DEF CreateItem
<1>6. CASE WriteItem(p) \/ WriteResp(p) \/ WriteRespFails(p)
  BY <1>1, <1>2, <1>6 DEF WriteItem, WriteResp, WriteRespFails
<1>7. CASE Chmod(p) \/ EditWrite(p)
  BY <1>1, <1>2, <1>7 DEF Chmod, EditWrite
<1> QED
  BY <1>3, <1>4, <1>5, <1>6, <1>7, NodeChanges

\* A file without an item is neither frozen nor retired.
LEMMA BlankStep ==
  ASSUME BaseInv, BlankInv, NEW p \in Proc, Act(p)
  PROVE  BlankInv'
<1>1. ASSUME NEW d \in Nodes, node'[d].n = 0, d \notin loose'
      PROVE  node'[d].w /\ ~node'[d].r
  <2>1. /\ node \in [Nodes -> [n : Nat, w : BOOLEAN, r : BOOLEAN, t : 0 .. MaxClock]]
        /\ loose \subseteq loose' /\ nodes \in Nat
    BY Ranges, HistoryGrows DEF BaseInv, ConfTypeOK
  <2>2. CASE d <= nodes
    <3>1. node[d].n = 0 /\ node[d].w /\ ~node[d].r
      BY <1>1, <2>1, <2>2, CountGrows DEF BlankInv
    <3>2. ~(Chmod(p) /\ fd[p] = d)
      BY <3>1, ChmodOp DEF BlankInv
    <3> QED BY <1>1, <2>2, <3>1, <3>2, ModeSame
  <2>3. CASE CreateItem(p) /\ d = nodes + 1
    BY <2>1, <2>3 DEF CreateItem, NewNode
  <2>4. CASE d > nodes /\ ~(CreateItem(p) /\ d = nodes + 1)
    <3>1. node'[d] = node[d]
      BY <2>1, <2>4, BeyondSame
    <3> QED BY <1>1, <2>1, <3>1 DEF BlankInv
  <2>5. d \in Nat
    BY DEF Nodes
  <2> QED BY <2>1, <2>2, <2>3, <2>4, <2>5
<1> QED
  BY <1>1, ModeHasResponse DEF BlankInv

\* Whose shared lock is new has just taken it.
LEMMA ShareGrows ==
  ASSUME BaseInv, NEW p \in Proc, Act(p), NEW d \in Nodes, p \in sh'[d]
  PROVE  (p \in sh[d] /\ op'[p] = op[p]) \/ (LockSh(p) /\ d = fd[p])
<1>1. /\ sh \in [Nodes -> SUBSET Proc] /\ op \in [Proc -> Ops] /\ LockInv
      /\ ex \in [Nodes -> Proc \cup {NoProc}] /\ 0 \notin Nodes
      /\ pc \in [Proc -> PCs] /\ fd \in [Proc -> 0 .. nodes] /\ Control(p)
  BY DEF BaseInv, ConfTypeOK, Nodes
<1> HIDE DEF Nodes
<1>2. CASE Close(p)
  BY <1>1, <1>2 DEF Close
<1>3. CASE LockSh(p)
  BY <1>1, <1>3 DEF LockSh, Go
<1>4. CASE UNCHANGED sh
  <2>1. p \in sh[d] /\ fd[p] # 0 /\ pc[p] # "idle"
    BY <1>1, <1>4 DEF LockInv, Control
  <2>2. CASE Starts(p)
    BY <2>1, <2>2 DEF Starts, Start
  <2>3. CASE Goes(p) \/ NextName(p)
    BY <2>1, <2>3 DEF Goes, NextName
  <2> QED BY <1>2, <2>1, <2>2, <2>3, Moves
<1>5. CASE LockEx(p) \/ Scan(p)
  <2>1. sh'[d] \subseteq sh[d] /\ op' = op
    BY <1>1, <1>5 DEF LockEx, Scan, DropLocks, locks, Go
  <2> QED BY <2>1
<1> QED
  BY <1>2, <1>3, <1>4, <1>5, LockChanges

\* Two processes that share a lock only look.
LEMMA ShareStep ==
  ASSUME BaseInv, ShareInv, NEW p \in Proc, Act(p)
  PROVE  ShareInv'
<1> SUFFICES ASSUME NEW d \in Nodes, d \notin loose', NEW q \in sh'[d], NEW r \in sh'[d], q # r
             PROVE  op'[q] = "view"
  BY DEF ShareInv
<1>1. BaseInv' /\ Others(p) /\ d \notin loose
  BY BaseStep, OthersStep, HistoryGrows DEF BaseInv
<1>2. q \in Proc /\ r \in Proc
  BY <1>1 DEF BaseInv, ConfTypeOK
<1>3. CASE LockSh(p) /\ d = fd[p]
  <2>1. \A s \in sh[d] : op[p] = "view" /\ op[s] = "view"
    BY <1>3 DEF LockSh
  <2>2. op' = op /\ \A s \in Proc : s \in sh'[d] => s = p \/ s \in sh[d]
    BY <1>1, <1>3 DEF LockSh, Go, Others
  <2> QED BY <1>2, <2>1, <2>2
<1>4. CASE ~(LockSh(p) /\ d = fd[p])
  <2>1. \A s \in Proc : s \in sh'[d] => s \in sh[d] /\ op'[s] = op[s]
    BY <1>1, <1>4, ShareGrows DEF Others
  <2> QED BY <1>1, <1>2, <2>1 DEF ShareInv
<1> QED
  BY <1>3, <1>4

\* Who changes an item has it for itself.
LEMMA Alone ==
  ASSUME NameInv, ShareInv, NEW nm \in Names, Sound(nm), dir[nm] \notin loose,
         NEW p \in Proc, NEW q \in Proc, p # q, fd[p] = dir[nm], fd[q] = dir[nm],
         InLock(p), op[p] # "view"
  PROVE  ~InLock(q)
<1>1. /\ Work(p, nm) /\ Holds(p, nm) /\ Control(p)
      /\ Work(q, nm) /\ Holds(q, nm) /\ Control(q)
      /\ dir[nm] \in Nodes /\ dir[nm] # 0
  BY SoundFacts
<1>2. ex[dir[nm]] # NoProc => sh[dir[nm]] = {}
  BY <1>1 DEF NameInv, BaseInv, ConfTypeOK
<1>3. /\ item[p] = nm /\ item[q] = nm /\ Busy(p) /\ Busy(q)
  BY <1>1 DEF Work, Control, Busy
<1>4. ex[dir[nm]] = p \/ p \in sh[dir[nm]]
  BY <1>1, <1>3 DEF Holds
<1>5. InLock(q) => ex[dir[nm]] = q \/ q \in sh[dir[nm]]
  BY <1>1, <1>3 DEF Holds
<1>6. ~(p \in sh[dir[nm]] /\ q \in sh[dir[nm]])
  BY <1>1 DEF ShareInv
<1> QED
  BY <1>2, <1>4, <1>5, <1>6, ConfAssumption

\* The flags of one name.
Flagged(nm) ==
  /\ \A p \in Proc : Modes(p, nm)
  /\ (\A p \in Proc : fd[p] = dir[nm] => pc[p] # "chmod") => Says(entry[nm].flags, node[dir[nm]])

\* ModeInv, name by name.
LEMMA ModeInvNames ==
  ModeInv <=> \A nm \in Names : Sound(nm) /\ dir[nm] \notin torn \cup loose => Flagged(nm)
BY DEF ModeInv, FlagsAgree, Flagged, Sound, Says

\* What is said of a process is about an item it has locked.
LEMMA ModesLocked ==
  ASSUME BaseInv, NEW p \in Proc, NEW nm \in Names, fd[p] = dir[nm] => ~InLock(p)
  PROVE  Modes(p, nm)
BY DEF Modes, InLock, LockedPCs

\* So nothing is, of the others, while one changes it.
LEMMA AloneFlagged ==
  ASSUME NameInv, ShareInv, NEW nm \in Names, Sound(nm), dir[nm] \notin loose,
         NEW p \in Proc, fd[p] = dir[nm], InLock(p), op[p] # "view", Act(p),
         dir'[nm] = dir[nm], NEW q \in Proc, q # p
  PROVE  Modes(q, nm)' /\ (fd'[q] = dir'[nm] => pc'[q] # "chmod")
<1>1. Others(p)
  BY OthersStep DEF NameInv, BaseInv
<1>2. fd[q] = dir[nm] => ~InLock(q)
  BY Alone
<1> QED
  BY <1>1, <1>2 DEF Others, Modes, InLock, LockedPCs

\* A file just made has the mode that its blank entry says.
LEMMA FlagsNew ==
  ASSUME NameInv, NEW p \in Proc, Act(p), NEW nm \in Names, New(p, nm)
  PROVE  Flagged(nm)'
<1>1. /\ node \in [Nodes -> [n : Nat, w : BOOLEAN, r : BOOLEAN, t : 0 .. MaxClock]]
      /\ nodes \in Nat /\ nodes + 1 \in Nodes /\ pc \in [Proc -> PCs] /\ fd \in [Proc -> 0 .. nodes]
  BY Ranges DEF NameInv, BaseInv, ConfTypeOK, New, CreateItem
<1>2. /\ dir'[nm] = nodes + 1 /\ entry'[nm].flags = {} /\ pc'[p] = "wantex"
      /\ node' = [node EXCEPT ![nodes + 1] = [NewNode EXCEPT !.t = clock]]
  BY <1>1 DEF New, CreateItem, sumfile, NoEntry
<1>3. node'[dir'[nm]].w = TRUE /\ node'[dir'[nm]].r = FALSE
  BY <1>1, <1>2 DEF NewNode
<1>4. Says(entry'[nm].flags, node'[dir'[nm]])
  <2>1. /\ ("F" \in entry'[nm].flags) = FALSE /\ ("R" \in entry'[nm].flags) = FALSE
        /\ (~node'[dir'[nm]].w) = FALSE
    BY <1>2, <1>3
  <2> QED BY <1>3, <2>1, Zenon DEF Says
<1>5. ASSUME NEW q \in Proc PROVE Modes(q, nm)'
  <2>1. CASE q = p
    BY <1>2, <2>1 DEF Modes
  <2>2. CASE q # p
    BY <1>1, <1>2, <2>2, OthersStep DEF NameInv, BaseInv, Others, Modes
  <2> QED BY <2>1, <2>2
<1> QED
  BY <1>4, <1>5 DEF Flagged

\* Where neither the mode nor the entry changes.
LEMMA FlagsQuiet ==
  ASSUME NameInv, BlankInv, ShareInv, NEW p \in Proc, Act(p), NEW nm \in Names, Sound(nm),
         Flagged(nm), Sound(nm)', dir'[nm] = dir[nm], dir[nm] \notin torn' \cup loose',
         entry'[nm].flags = entry[nm].flags, ~Chmod(p), ~PutFlags(p),
         node'[dir[nm]].w = node[dir[nm]].w, node'[dir[nm]].r = node[dir[nm]].r
  PROVE  Flagged(nm)'
<1> DEFINE d == dir[nm]
<1>1. /\ Others(p) /\ Work(p, nm) /\ Work(p, nm)' /\ Control(p) /\ Control(p)'
      /\ d # 0 /\ d \in Nodes /\ d \notin torn \cup loose
  <2>1. NameInv'
    BY NameStep
  <2> QED BY <2>1, OthersStep, SoundFacts, HistoryGrows DEF NameInv, BaseInv, WorkInv
<1>2. /\ pc \in [Proc -> PCs] /\ op \in [Proc -> Ops] /\ fd \in [Proc -> 0 .. nodes]
      /\ st \in [Proc -> [w : BOOLEAN, r : BOOLEAN, l : BOOLEAN, t : 0 .. MaxClock]]
      /\ ent \in [Proc -> Entries] /\ flag \in [Proc -> {"F", "R", "L"}]
      /\ seen \in [Proc -> SUBSET Flags] /\ item \in [Proc -> Names \cup {NoName}]
      /\ node[d].w \in BOOLEAN /\ node[d].r \in BOOLEAN /\ node[d].n \in Nat
  BY <1>1 DEF NameInv, BaseInv, ConfTypeOK
<1> HIDE DEF d
<1>3. ASSUME NEW q \in Proc, q # p
      PROVE  Modes(q, nm)' /\ (fd[q] = d /\ pc[q] = "chmod" => fd'[q] = d /\ pc'[q] = "chmod")
  BY <1>1, <1>3 DEF d, Others, Flagged, Modes, Says, Wanted
<1>4. ASSUME item'[p] = nm, fd'[p] = d PROVE Modes(p, nm)'
  <2>1. CASE WriteItem(p)
    <3>1. fd[p] = d /\ pc'[p] = "putnew"
      BY <1>2, <1>4, <2>1 DEF WriteItem, Go
    <3>2. torn' = IF node[d].n > 0 THEN torn \cup {d} ELSE torn
      BY <2>1, <3>1 DEF WriteItem
    <3>3. node[d].n = 0
      BY <1>2, <3>2 DEF d
    <3>4. node'[d].w /\ ~node'[d].r
      BY <1>1, <3>3 DEF d, BlankInv
    <3> QED BY <1>4, <3>1, <3>4 DEF d, Modes
  <2>2. CASE PutRead(p)
    <3>1. /\ fd[p] = d /\ item[p] = nm /\ pc[p] = "put" /\ op'[p] = op[p] /\ ent'[p] = entry[nm]
          /\ UNCHANGED <<st, flag, seen>>
      BY <1>2, <1>4, <2>2 DEF PutRead, Go
    <3>2. pc'[p] = "add"
      BY <1>1, <1>2, <1>4, <2>2 DEF PutRead, Go, Work, Busy
    <3>3. ASSUME NEW q \in Proc, fd[q] = d PROVE pc[q] # "chmod"
      <4>1. CASE q = p
        BY <3>1, <4>1
      <4>2. CASE q # p /\ pc[q] = "chmod"
        <5>1. InLock(q) /\ InLock(p) /\ op[q] # "view"
          BY <1>1, <3>1, <4>2 DEF InLock, LockedPCs, NameInv, BaseInv, Control, ModeOps
        <5> QED BY <1>1, <3>1, <3>3, <4>2, <5>1, Alone DEF d
      <4> QED BY <4>1, <4>2
    <3>4. Says(entry[nm].flags, node[d])
      BY <3>3 DEF d, Flagged
    <3>5. Says(ent'[p].flags, node'[d])
      BY <3>1, <3>4 DEF d, Says
    <3>6. Modes(p, nm)
      BY DEF Flagged
    <3> QED BY <3>1, <3>2, <3>5, <3>6 DEF d, Modes
  <2>3. CASE ModeStat(p)
    <3>1. /\ fd[p] = d /\ op'[p] = op[p] /\ op[p] \in ModeOps /\ pc'[p] = "put"
          /\ flag'[p] = IF op[p] \in {"freeze", "thaw"} THEN "F" ELSE "R"
      BY <1>2, <1>4, <2>3 DEF ModeStat, Go
    <3>2. st'[p].w = node[d].w /\ st'[p].r = node[d].r
      BY <1>2, <2>3, <3>1 DEF ModeStat
    <3> QED BY <3>1, <3>2 DEF d, Modes, ModeOps
  <2>4. CASE ViewStat(p)
    <3>1. fd[p] = d /\ pc'[p] = "fix"
      BY <1>2, <1>4, <2>4 DEF ViewStat, Go
    <3>2. st'[p].w = node[d].w /\ st'[p].r = node[d].r
      BY <1>2, <2>4, <3>1 DEF ViewStat
    <3> QED BY <3>1, <3>2 DEF d, Modes
  <2>5. CASE Fix(p)
    <3>1. /\ fd[p] = d /\ item[p] = nm /\ op[p] = "view" /\ op'[p] = "view" /\ pc[p] = "fix"
          /\ pc'[p] = "put" /\ st' = st
      BY <1>1, <1>2, <1>4, <2>5 DEF Fix, Go, Control
    <3>2. st'[p].w = node'[d].w /\ st'[p].r = node'[d].r
      BY <3>1 DEF d, Flagged, Modes
    <3>3. /\ flag'[p] = FirstWrong(p)
          /\ seen'[p] = SetFlag(seen[p], FirstWrong(p), FirstWrong(p) \notin seen[p])
      BY <1>2, <2>5 DEF Fix
    <3>4. /\ FirstWrong(p) \in {"F", "R"} /\ FirstWrong(p) \in Wrong(p)
      <4>1. "L" \notin seen[p] /\ ~st[p].l
        BY <1>1, <3>1 DEF Work, Busy
      <4>2. "L" \notin Wrong(p)
        BY <1>2, <4>1 DEF Wrong
      <4>3. Wrong(p) \subseteq {"L", "F", "R"} /\ Wrong(p) # {}
        BY <2>5 DEF Wrong, Fix
      <4> QED BY <4>2, <4>3 DEF FirstWrong
    <3>5. (FirstWrong(p) \in seen[p])
            # (IF FirstWrong(p) = "F" THEN ~st[p].w ELSE st[p].r)
      BY <3>4 DEF Wrong
    <3>6. (flag'[p] \in seen'[p]) = (FirstWrong(p) \notin seen[p])
      BY <3>3 DEF SetFlag
    <3>7. (flag'[p] \in seen'[p]) = IF flag'[p] = "F" THEN ~st'[p].w ELSE st'[p].r
      BY <1>2, <3>1, <3>3, <3>5, <3>6
    <3> QED BY <3>1, <3>2, <3>7 DEF d, Modes, ModeOps
  <2>6. CASE WriteResp(p) \/ Unlink(p)
    <3>1. pc'[p] = "put" /\ op'[p] \in RespOps \cup KillOps
      BY <1>2, <2>6 DEF WriteResp, MayWrite, Unlink, Go, RespOps, KillOps
    <3> QED BY <3>1 DEF Modes, RespOps, KillOps, ModeOps
  <2>7. CASE Scan(p)
    BY <1>1, <1>2, <1>4, <2>7 DEF Scan, Go, Work, Busy
  <2>8. CASE pc'[p] \notin {"putnew", "put", "add", "chmod", "fix"}
    BY <2>8 DEF Modes
  <2> QED BY <2>1, <2>2, <2>3, <2>4, <2>5, <2>6, <2>7, <2>8, Arrives DEF NameInv
<1>5. (\A q \in Proc : fd'[q] = d => pc'[q] # "chmod") => Says(entry'[nm].flags, node'[d])
  <2>1. fd[p] = d => pc[p] # "chmod"
    BY <1>1, Leaves DEF d, NameInv, Crash, HalfDone
  <2> QED BY <1>3, <2>1 DEF d, Flagged, Says
<1> QED
  BY <1>3, <1>4, <1>5 DEF d, Flagged, Modes

\* The flags that put_sum() writes for item_mode() are those of the mode it sets next.
LEMMA FlagsOfMode ==
  ASSUME NEW p \in Proc, NEW s, op[p] \in ModeOps, Says(ent[p].flags, s),
         s.w \in BOOLEAN, s.r \in BOOLEAN, st[p].w = s.w, st[p].r = s.r,
         flag[p] = IF op[p] \in {"freeze", "thaw"} THEN "F" ELSE "R",
         st \in [Proc -> [w : BOOLEAN, r : BOOLEAN, l : BOOLEAN, t : 0 .. MaxClock]]
  PROVE  Says(NewFlags(p), Wanted(p))
<1>1. NewFlags(p) = SetFlag(ent[p].flags, flag[p], op[p] \in {"freeze", "retire"})
  BY DEF NewFlags, KillOps, ModeOps
<1>2. /\ Wanted(p).w = IF op[p] \in {"freeze", "thaw"} THEN op[p] = "thaw" ELSE st[p].w
      /\ Wanted(p).r = IF op[p] \in {"retire", "unretire"} THEN op[p] = "retire" ELSE st[p].r
  BY DEF Wanted
<1>3. ("F" \in ent[p].flags) = ~s.w /\ ("R" \in ent[p].flags) = s.r
  BY DEF Says
<1>4. ("F" \in NewFlags(p)) = ~Wanted(p).w
  <2>1. CASE op[p] = "freeze"
    <3>1. NewFlags(p) = ent[p].flags \cup {"F"}
      BY <1>1, <2>1 DEF SetFlag
    <3>2. Wanted(p).w = FALSE
      BY <1>2, <2>1
    <3> QED BY <3>1, <3>2
  <2>2. CASE op[p] = "thaw"
    <3>1. NewFlags(p) = ent[p].flags \ {"F"}
      BY <1>1, <2>2 DEF SetFlag
    <3>2. Wanted(p).w = TRUE
      BY <1>2, <2>2
    <3> QED BY <3>1, <3>2
  <2>3. CASE op[p] \in {"retire", "unretire"}
    <3>1. ("F" \in NewFlags(p)) = ("F" \in ent[p].flags)
      BY <1>1, <2>3 DEF SetFlag
    <3>2. Wanted(p).w = s.w
      BY <1>2, <2>3
    <3> QED BY <1>3, <3>1, <3>2
  <2> QED BY <2>1, <2>2, <2>3 DEF ModeOps
<1>5. ("R" \in NewFlags(p)) = Wanted(p).r
  BY <1>1, <1>2, <1>3 DEF SetFlag, ModeOps
<1> QED
  BY <1>4, <1>5 DEF Says

\* Those it writes for fiximodes() are those of the mode.
LEMMA FlagsOfView ==
  ASSUME NEW p \in Proc, NEW s, op[p] = "view", Says(ent[p].flags, s),
         s.w \in BOOLEAN, s.r \in BOOLEAN, st[p].w = s.w, st[p].r = s.r, flag[p] \in {"F", "R"},
         (flag[p] \in seen[p]) = IF flag[p] = "F" THEN ~st[p].w ELSE st[p].r
  PROVE  Says(NewFlags(p), s)
<1>1. NewFlags(p) = SetFlag(ent[p].flags, flag[p], flag[p] \in seen[p])
  BY DEF NewFlags, KillOps, ModeOps
<1>2. ("F" \in ent[p].flags) = ~s.w /\ ("R" \in ent[p].flags) = s.r
  BY DEF Says
<1>3. ("F" \in NewFlags(p)) = ~s.w
  BY <1>1, <1>2 DEF SetFlag
<1>4. ("R" \in NewFlags(p)) = s.r
  BY <1>1, <1>2 DEF SetFlag
<1> QED
  BY <1>3, <1>4 DEF Says

\* Where the mode or the entry changes, it is under a lock, and they agree again.
LEMMA FlagsOld ==
  ASSUME NameInv, BlankInv, ShareInv, NEW p \in Proc, Act(p), NEW nm \in Names, Sound(nm),
         Flagged(nm), Sound(nm)', dir'[nm] = dir[nm], dir[nm] \notin torn' \cup loose'
  PROVE  Flagged(nm)'
<1> DEFINE d == dir[nm]
<1>1. /\ Others(p) /\ Work(p, nm) /\ Control(p) /\ d # 0 /\ d \in Nodes /\ d <= nodes
      /\ d \notin torn \cup loose
  <2>1. d <= nodes
    BY Ranges DEF NameInv, BaseInv
  <2> HIDE DEF d
  <2> QED BY <2>1, OthersStep, SoundFacts, HistoryGrows DEF d, NameInv, BaseInv
<1>2. /\ pc \in [Proc -> PCs] /\ op \in [Proc -> Ops] /\ fd \in [Proc -> 0 .. nodes]
      /\ st \in [Proc -> [w : BOOLEAN, r : BOOLEAN, l : BOOLEAN, t : 0 .. MaxClock]]
      /\ node \in [Nodes -> [n : Nat, w : BOOLEAN, r : BOOLEAN, t : 0 .. MaxClock]]
      /\ entry \in [Names -> Entries] /\ flag \in [Proc -> {"F", "R", "L"}]
      /\ item \in [Proc -> Names \cup {NoName}]
      /\ node[d].w \in BOOLEAN /\ node[d].r \in BOOLEAN
  BY <1>1 DEF NameInv, BaseInv, ConfTypeOK
<1> HIDE DEF d
<1>3. ASSUME fd[p] = d, InLock(p), op[p] # "view", Says(entry'[nm].flags, node'[d]), fd'[p] = 0
      PROVE  Flagged(nm)'
  BY <1>1, <1>3, AloneFlagged DEF d, Flagged, Modes
<1>4. CASE Chmod(p) /\ fd[p] = d
  <2>1. pc[p] = "chmod" /\ op[p] \in ModeOps /\ InLock(p)
    BY <1>4, ChmodOp DEF NameInv, InLock, LockedPCs
  <2>2. Says(entry[nm].flags, Wanted(p)) /\ item[p] = nm
    BY <1>1, <1>4, <2>1 DEF d, Flagged, Modes, Work
  <2>3. /\ Wanted(p).w = IF op[p] \in {"freeze", "thaw"} THEN op[p] = "thaw" ELSE st[p].w
        /\ Wanted(p).r = IF op[p] \in {"retire", "unretire"} THEN op[p] = "retire" ELSE st[p].r
    BY <1>2 DEF Wanted
  <2>4. node'[d].w = Wanted(p).w /\ node'[d].r = Wanted(p).r
    BY <1>1, <1>2, <1>4, <2>3 DEF Chmod
  <2>5. entry' = entry /\ fd'[p] = 0
    BY <1>2, <1>4 DEF Chmod, Close, sumfile
  <2>6. Says(entry'[nm].flags, node'[d])
    BY <2>2, <2>4, <2>5 DEF Says
  <2> QED BY <1>3, <1>4, <2>1, <2>5, <2>6 DEF ModeOps
<1>5. CASE PutFlags(p) /\ item[p] = nm /\ fd[p] = d
  <2>1. pc[p] = "add" /\ op[p] \in ModeOps \cup {"view"} /\ InLock(p)
    BY <1>1, <1>5 DEF PutFlags, Work, Busy, InLock, LockedPCs
  <2>2. /\ Says(ent[p].flags, node[d]) /\ st[p].w = node[d].w /\ st[p].r = node[d].r
        /\ op[p] \in ModeOps => flag[p] = IF op[p] \in {"freeze", "thaw"} THEN "F" ELSE "R"
        /\ op[p] = "view"
           => (flag[p] \in seen[p]) = IF flag[p] = "F" THEN ~st[p].w ELSE st[p].r
    BY <1>5, <2>1 DEF d, Flagged, Modes
  <2>3. /\ entry'[nm].flags = NewFlags(p) /\ node' = node
        /\ UNCHANGED <<fd, item, op, st, flag, seen>>
    BY <1>2, <1>5 DEF PutFlags, NewEntry, Go, files
  <2>4. CASE op[p] \in ModeOps
    <3>1. Says(entry'[nm].flags, Wanted(p)) /\ pc'[p] = "chmod"
      BY <1>2, <1>5, <2>2, <2>3, <2>4, FlagsOfMode DEF PutFlags, Go, ModeOps
    <3>2. Wanted(p)' = Wanted(p)
      BY <2>3 DEF Wanted
    <3>3. Modes(p, nm)'
      BY <1>5, <2>2, <2>3, <2>4, <3>1, <3>2 DEF d, Modes, ModeOps
    <3>4. \A q \in Proc : q # p => Modes(q, nm)'
      BY <1>1, <1>5, <2>1, <2>4, AloneFlagged DEF d, ModeOps
    <3>5. ~(fd'[p] = dir'[nm] => pc'[p] # "chmod")
      BY <1>5, <2>3, <3>1 DEF d
    <3> QED BY <3>3, <3>4, <3>5 DEF Flagged
  <2>5. CASE op[p] = "view"
    <3>1. flag[p] \in {"F", "R"}
      BY <1>1, <1>2, <1>5, <2>1 DEF Work, Busy
    <3>2. Says(entry'[nm].flags, node[d]) /\ pc'[p] = "fix"
      BY <1>2, <1>5, <2>2, <2>3, <2>5, <3>1, FlagsOfView DEF PutFlags, Go
    <3>3. Modes(p, nm)'
      BY <1>5, <2>2, <2>3, <2>5, <3>2 DEF d, Modes, ModeOps
    <3>4. ASSUME NEW q \in Proc, q # p PROVE Modes(q, nm)'
      <4>1. ~(item[q] = nm /\ fd[q] = d /\ pc[q] = "chmod")
        <5> SUFFICES ASSUME item[q] = nm, fd[q] = d, pc[q] = "chmod" PROVE FALSE
          OBVIOUS
        <5>1. InLock(q) /\ op[q] # "view"
          BY DEF InLock, LockedPCs, NameInv, BaseInv, Control, ModeOps
        <5> QED BY <1>1, <1>5, <2>1, <3>4, <5>1, Alone DEF d
      <4>2. Modes(q, nm)
        BY DEF Flagged
      <4>3. node'[d] = node[d] /\ dir'[nm] = d
        BY <2>3 DEF d
      <4> QED BY <1>1, <3>4, <4>1, <4>2, <4>3 DEF d, Others, Modes, Says
    <3>5. Says(entry'[nm].flags, node'[dir'[nm]])
      BY <2>3, <3>2 DEF d
    <3> QED BY <3>3, <3>4, <3>5 DEF Flagged
  <2> QED BY <2>1, <2>4, <2>5
<1>6. CASE PutLast(p) /\ item[p] = nm /\ fd[p] = d
  <2>1. op[p] \in RespOps /\ pc[p] = "add" /\ InLock(p)
    BY <1>1, <1>6 DEF PutLast, Work, Busy, PutPCs, InLock, LockedPCs
  <2>2. Says(ent[p].flags, node[d])
    BY <1>6, <2>1 DEF d, Flagged, Modes
  <2>3. NewFlags(p) = ent[p].flags
    BY <2>1 DEF NewFlags, RespOps, KillOps, ModeOps
  <2>4. entry'[nm].flags = NewFlags(p) /\ node' = node /\ fd'[p] = 0
    BY <1>2, <1>6 DEF PutLast, NewEntry, Close, files
  <2>5. Says(entry'[nm].flags, node'[d])
    BY <2>2, <2>3, <2>4
  <2> QED BY <1>3, <1>6, <2>1, <2>4, <2>5 DEF RespOps
<1>7. CASE PutNew(p) /\ item[p] = nm /\ fd[p] = d
  <2>1. op[p] = "post" /\ pc[p] = "putnew" /\ InLock(p)
    BY <1>1, <1>7 DEF PutNew, Control, InLock, LockedPCs
  <2>2. node[d].w = TRUE /\ node[d].r = FALSE
    BY <1>2, <1>7, <2>1 DEF d, Flagged, Modes
  <2>3. entry'[nm].flags = {"A"} /\ node' = node /\ fd'[p] = 0
    BY <1>2, <1>7 DEF PutNew, Close, files
  <2>4. Says(entry'[nm].flags, node'[d])
    <3>1. ("F" \in entry'[nm].flags) = FALSE /\ ("R" \in entry'[nm].flags) = FALSE
      BY <2>3
    <3>2. (~node'[d].w) = FALSE /\ node'[d].r = FALSE
      BY <2>2, <2>3
    <3> QED BY <3>1, <3>2, Zenon DEF Says
  <2> QED BY <1>3, <1>7, <2>1, <2>3, <2>4
<1>8. CASE /\ ~(Chmod(p) /\ fd[p] = d)
           /\ ~(item[p] = nm /\ fd[p] = d /\ (PutLast(p) \/ PutFlags(p) \/ PutNew(p)))
  <2>1. /\ entry'[nm].flags = entry[nm].flags
        /\ node'[d].w = node[d].w /\ node'[d].r = node[d].r
    BY <1>1, <1>8, EntrySame, ModeSame DEF d, NameInv
  <2>2. CASE ~Chmod(p) /\ ~PutFlags(p)
    BY <2>1, <2>2, FlagsQuiet DEF d
  <2>3. CASE Chmod(p) \/ PutFlags(p)
    <3>1. fd[p] # d /\ fd'[p] # d
      BY <1>1, <1>2, <1>8, <2>3 DEF d, Chmod, PutFlags, Go, Close, Work, Busy, Control, PutPCs
    <3>2. \A q \in Proc : Modes(q, nm)'
      BY <1>1, <2>1, <3>1 DEF d, Others, Flagged, Modes, Says, Wanted
    <3>3. (\A q \in Proc : fd'[q] = d => pc'[q] # "chmod") => Says(entry'[nm].flags, node'[d])
      BY <1>1, <2>1, <3>1 DEF d, Others, Flagged, Says
    <3> QED BY <3>2, <3>3 DEF d, Flagged
  <2> QED BY <2>2, <2>3
<1> QED
  BY <1>4, <1>5, <1>6, <1>7, <1>8

\* The flags, after any step of any process ...
LEMMA ModeStep ==
  ASSUME NameInv, BlankInv, ShareInv, ModeInv, NEW p \in Proc, Act(p)
  PROVE  ModeInv'
<1>1. ASSUME NEW nm \in Names, Sound(nm)', dir'[nm] \notin torn' \cup loose' PROVE Flagged(nm)'
  <2>1. CASE New(p, nm)
    BY <2>1, FlagsNew
  <2>2. CASE Sound(nm) /\ dir'[nm] = dir[nm]
    <3>1. Flagged(nm)
      BY <1>1, <2>2, HistoryGrows, ModeInvNames
    <3> QED BY <1>1, <2>2, <3>1, FlagsOld
  <2> QED BY <1>1, <2>1, <2>2, SoundStep DEF NameInv
<1> QED
  BY <1>1 DEF ModeInv, FlagsAgree, Flagged, Sound, Says

\* ... or of the clock, and at the start.
LEMMA ModeTick ==
  ASSUME BlankInv, ShareInv, ModeInv, Tick \/ UNCHANGED vars
  PROVE  BlankInv' /\ ShareInv' /\ ModeInv'
<1> USE DEF Tick, vars, files, sumfile, locks, locals, history
<1>1. BlankInv' /\ ShareInv'
  BY DEF BlankInv, ShareInv
<1>2. ModeInv'
  BY DEF ModeInv, FlagsAgree, Sound, Modes, Says, Wanted
<1> QED
  BY <1>1, <1>2

\* At first there is no mode to tell.
LEMMA ModeInit == Init => BlankInv /\ ShareInv /\ ModeInv
<1>1. Init => BlankInv
  BY DEF Init, BlankInv, NewNode, ModeOps
<1>2. Init => ShareInv
  BY DEF Init, ShareInv
<1>3. Init => ModeInv
  BY DEF Init, ModeInv, FlagsAgree, Sound
<1> QED
  BY <1>1, <1>2, <1>3

\* The sum file says of every item that was never linked, whose name was used once, none
\* of whose updates was cut short and whose mode was never changed without an exclusive
\* lock, whether it is frozen and whether it is retired, but while item_mode() has
\* written the one and not yet the other.
THEOREM ConfFlagsAgree == Spec => []FlagsAgree
<1> DEFINE Inv == NameInv /\ BlankInv /\ ShareInv /\ ModeInv
<1>1. Init => Inv
  BY NameInit, ModeInit
<1>2. Inv /\ [Next]_vars => Inv'
  <2> SUFFICES ASSUME Inv, [Next]_vars PROVE Inv'
    OBVIOUS
  <2>1. CASE Tick \/ UNCHANGED vars
    BY <2>1, NameTick, ModeTick
  <2>2. ASSUME NEW p \in Proc, Act(p) PROVE Inv'
    BY <2>2, NameStep, BlankStep, ShareStep, ModeStep DEF NameInv
  <2> QED BY <2>1, <2>2, NextActs
<1>3. Inv => FlagsAgree
  BY DEF ModeInv
<1> QED
  BY <1>1, <1>2, <1>3, PTL DEF Spec
=============================================================================
