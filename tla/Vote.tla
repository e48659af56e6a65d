-------------------------------- MODULE Vote --------------------------------
(* The ballot of one voter: the file votes/<voter> with a line for every     *)
(* candidate chosen, and the file .vdir/<voter>, the history, to which every *)
(* cast appends a hash of the ballot.  The voter may be at the board program *)
(* on several terminals and send the web form (webcast) at the same time:    *)
(* nothing is locked.  record() unlinks the old file, makes the new one,     *)
(* writes its lines in one write() at its own offset 0, and then appends to  *)
(* the history.  Other voters have files of their own.  The hash is taken    *)
(* for the set of the candidates: it is the sum of their characters.         *)
EXTENDS Integers, FiniteSets, Sequences, SequencesExt

CONSTANTS Proc,      \* processes: board sessions and webcast requests
          Cand,      \* candidates
          Slots,     \* candidates a voter may choose
          MaxCasts   \* bound: ballot files ever made

ASSUME VoteAssumption == Slots \in Nat /\ MaxCasts \in Nat \ {0} /\ IsFiniteSet(Cand)

VARIABLES
  open,    \* polls_open(): the clock is between start and end
  file,    \* the inode votes/<voter>, 0 if there is none
  made,    \* ballot files made so far
  lines,   \* per inode: its lines
  hist,    \* .vdir/<voter>: the ballots cast
  pc,      \* per process: where it is
  web,     \* per process: it is webcast
  marks,   \* per process: the candidates marked (uvote, votefor)
  fd,      \* per process: the inode it writes to
  mine,    \* history, per process: the inode its marks were taken from or written to
  fault,   \* history: a process died or a call failed in record()
  overlap, \* history: two processes were in record() at once
  raced    \* history: two processes were between unlink() and fopen() at once

disk == <<file, made, lines, hist>>
history == <<mine, fault, overlap, raced>>
vars == <<open, file, made, lines, hist, pc, web, marks, fd, mine, fault, overlap, raced>>

Node == 1 .. MaxCasts
Unknown == -1   \* no inode holds what the process has marked
Recording(p) == pc[p] \in {"open", "write", "hist"}
Goes(p, from, to) == pc[p] = from /\ pc' = [pc EXCEPT ![p] = to]

\* A process ends, and its variables with it.
Ends(p) ==
  /\ pc' = [pc EXCEPT ![p] = "out"] /\ web' = [web EXCEPT ![p] = FALSE]
  /\ marks' = [marks EXCEPT ![p] = {}]
  /\ fd' = [fd EXCEPT ![p] = 0] /\ mine' = [mine EXCEPT ![p] = Unknown]

\* votedfor(), getcands(): the candidates a ballot file names, none without a file.
VotedFor(n) == IF n = 0 THEN {} ELSE ToSet(lines[n])

\* No process has the file open for writing.
Complete(n) == \A q \in Proc : pc[q] = "write" => fd[q] # n

Init ==
  /\ open = TRUE /\ file = 0 /\ made = 0 /\ lines = [n \in Node |-> <<>>] /\ hist = <<>>
  /\ pc = [p \in Proc |-> "out"] /\ web = [p \in Proc |-> FALSE]
  /\ marks = [p \in Proc |-> {}] /\ fd = [p \in Proc |-> 0]
  /\ mine = [p \in Proc |-> Unknown] /\ fault = FALSE /\ overlap = FALSE /\ raced = FALSE

-----------------------------------------------------------------------------
(* Start of the programs, and the voter's answers *)

\* The end of the election goes by.
PollsClose == open /\ open' = FALSE
              /\ UNCHANGED <<disk, pc, web, marks, fd, history>>

\* board: main(), getcands(): the marks are those of the voter's file; the polls
\* are looked at here only.
EnterBoard(p) ==
  /\ open /\ Goes(p, "out", "menu")
  /\ marks' = [marks EXCEPT ![p] = VotedFor(file)]
  /\ mine' = [mine EXCEPT ![p] = IF Complete(file) THEN file ELSE Unknown]
  /\ UNCHANGED <<open, disk, web, fd, fault, overlap, raced>>

\* webcast: main(), getvdata(): what the form says replaces the marks of the file.
EnterWeb(p) ==
  /\ open /\ Goes(p, "out", "menu")
  /\ web' = [web EXCEPT ![p] = TRUE]
  /\ UNCHANGED <<open, disk, marks, fd, history>>

\* A plausible mistake: savevote is not copied back.
RestoredNone(p, chosen) == chosen

\* What is marked after a vote that was cancelled.
Restored(p, chosen) == marks[p]

\* vote() asks its questions, and the voter has chosen too many or does not confirm:
\* "Vote canceled; previous vote (if any) unchanged".
Cancel(p) ==
  /\ pc[p] = "menu" /\ ~ web[p]
  /\ \E chosen \in SUBSET Cand : marks' = [marks EXCEPT ![p] = Restored(p, chosen)]
  /\ UNCHANGED <<open, disk, pc, web, fd, history>>

\* bye(), the end of input, toomany() of webcast, or a signal before record().
Leave(p) ==
  /\ pc[p] = "menu" /\ Ends(p)
  /\ UNCHANGED <<open, disk, fault, overlap, raced>>

-----------------------------------------------------------------------------
(* record() *)

\* A plausible mistake: an off-by-one.
AllowedOneMore(n) == n <= Slots + 1

\* May this many candidates be voted for?
Allowed(n) == n <= Slots

\* A plausible mistake: fopen() is left to cut the old file.
UnlinkedNot == file

\* The name after unlink().
Unlinked == 0

\* The voter has chosen, and confirmed (vote()); or the form has (webcast).
\* record() begins with unlink().
Unlink(p) ==
  /\ Goes(p, "menu", "open")
  /\ \E chosen \in SUBSET Cand :
       Allowed(Cardinality(chosen)) /\ marks' = [marks EXCEPT ![p] = chosen]
  /\ made + Cardinality({q \in Proc : pc[q] = "open"}) < MaxCasts
  /\ file' = Unlinked
  /\ overlap' = (overlap \/ \E q \in Proc : Recording(q))
  /\ raced' = (raced \/ \E q \in Proc : pc[q] = "open")
  /\ UNCHANGED <<open, made, lines, hist, web, fd, mine, fault>>

\* fopen(voter, "w"): a new file, or the one another process has just made, cut
\* to nothing.
Open(p) ==
  LET n == IF file = 0 THEN made + 1 ELSE file IN
  /\ Goes(p, "open", "write") /\ n \in Node
  /\ file' = n /\ made' = (IF file = 0 THEN made + 1 ELSE made)
  /\ lines' = [lines EXCEPT ![n] = <<>>]
  /\ fd' = [fd EXCEPT ![p] = n]
  /\ UNCHANGED <<open, hist, web, marks, history>>

\* A plausible mistake: the file opened for appending.
OverwrittenAppend(old, b) == old \o b

\* A file after b was written at its beginning: what was longer than b stays.
Overwritten(old, b) == b \o SubSeq(old, Len(b) + 1, Len(old))

\* The orders in which rndorder() may put candidates.
Orders(S) == {b \in [1 .. Cardinality(S) -> S] : ToSet(b) = S}

\* fclose() writes the lines, in the order rndorder() gave the candidates.
Write(p) ==
  /\ Goes(p, "write", "hist")
  /\ \E b \in Orders(marks[p]) :
       lines' = [lines EXCEPT ![fd[p]] = Overwritten(lines[fd[p]], b)]
  /\ mine' = [mine EXCEPT ![p] = fd[p]]
  /\ UNCHANGED <<open, file, made, hist, web, marks, fd, fault, overlap, raced>>

\* fclose() fails, on a full disk: nobody looks at its result.
WriteFails(p) ==
  /\ Goes(p, "write", "hist") /\ fault' = TRUE
  /\ mine' = [mine EXCEPT ![p] = Unknown]
  /\ UNCHANGED <<open, disk, web, marks, fd, overlap, raced>>

\* A plausible mistake: a ballot without candidates is not logged.
AppendedUnlessBlank(h, b) == IF b = {} THEN h ELSE Append(h, b)

\* fopen(voter, "a") and the write.
Appended(h, b) == Append(h, b)

\* hashrec(): the board appends to the history, and shows its menu again.
LogBoard(p) ==
  /\ ~ web[p] /\ Goes(p, "hist", "menu")
  /\ hist' = Appended(hist, marks[p])
  /\ fd' = [fd EXCEPT ![p] = 0]
  /\ UNCHANGED <<open, file, made, lines, web, marks, history>>

\* The end of record() of vote.c, and of webcast.
LogWeb(p) ==
  /\ web[p] /\ pc[p] = "hist" /\ Ends(p)
  /\ hist' = Appended(hist, marks[p])
  /\ UNCHANGED <<open, file, made, lines, fault, overlap, raced>>

\* fopen() fails (the board runs into a null pointer), the history cannot be
\* opened, or a signal comes: the process ends in the middle of record().
Die(p) ==
  /\ Recording(p) /\ Ends(p) /\ fault' = TRUE
  /\ UNCHANGED <<open, disk, overlap, raced>>

Step(p) ==
  \/ EnterBoard(p) \/ EnterWeb(p) \/ Cancel(p) \/ Leave(p)
  \/ Unlink(p) \/ Open(p) \/ Write(p) \/ WriteFails(p)
  \/ LogBoard(p) \/ LogWeb(p) \/ Die(p)

Next == PollsClose \/ \E p \in Proc : Step(p)

Spec == Init /\ [][Next]_vars

-----------------------------------------------------------------------------
(* Properties *)

\* Types; a process in record() is to write a ballot the voter may cast.
VoteTypeOK ==
  /\ {open, fault, overlap, raced} \subseteq BOOLEAN
  /\ made \in 0 .. MaxCasts /\ file \in 0 .. made
  /\ lines \in [Node -> Seq(Cand)] /\ hist \in Seq(SUBSET Cand)
  /\ pc \in [Proc -> {"out", "menu", "open", "write", "hist"}]
  /\ web \in [Proc -> BOOLEAN]
  /\ marks \in [Proc -> SUBSET Cand]
  /\ fd \in [Proc -> 0 .. made] /\ mine \in [Proc -> -1 .. made]
  /\ \A p \in Proc : Recording(p) => Cardinality(marks[p]) <= Slots

\* Whatever processes meet, die or fail on the way, a ballot file never has more
\* lines than there are positions; and a candidate is named twice in it only if
\* two processes had both unlinked the old file before either made a new one.
BallotLegal ==
  \A n \in Node : Len(lines[n]) <= Slots
                  /\ (raced \/ Cardinality(ToSet(lines[n])) = Len(lines[n]))

\* With nobody in record(), the ballot that counts is one the history knows of
\* (never a mixture of two), and there is one if any was ever cast: also when
\* casts overlapped, unless a process died, a call failed, or two processes were
\* between unlink() and fopen() at once.
KeptIsOnRecord ==
  (\A p \in Proc : ~ Recording(p)) /\ ~ fault /\ ~ raced =>
     /\ file = 0 <=> hist = <<>>
     /\ file # 0 => VotedFor(file) \in ToSet(hist)

\* The last line of the history is the ballot that counts, unless casts have
\* overlapped (the history may then have them the other way round) or failed.
HistoryEndsWithBallot ==
  (\A p \in Proc : ~ Recording(p)) /\ ~ fault /\ ~ overlap /\ hist # <<>> =>
     VotedFor(file) = Last(hist)

\* The stars the board shows ("Candidates you've voted for are marked with a *")
\* are those of the ballot that counts, also after votes that were cancelled,
\* unless the file has been replaced since by another process.
StarsAreTheVote ==
  \A p \in Proc : pc[p] = "menu" /\ ~ web[p] /\ mine[p] = file /\ ~ raced /\ Complete(file) =>
                     marks[p] = VotedFor(file)
=============================================================================
