----------------------------- MODULE VoteProofs -----------------------------
(***************************************************************************)
(* Proofs about the ballot of a voter: whatever the processes, candidates  *)
(* and positions, and however casts meet, die or fail, a ballot file never *)
(* has more lines than there are positions; the ballot that counts is on   *)
(* record unless two casts were between unlink() and fopen() at once; and  *)
(* it is the last on record unless casts overlapped.                       *)
(***************************************************************************)
EXTENDS Vote, FiniteSetTheorems, SequenceTheorems, TLAPS

Writing(p) == pc[p] \in {"write", "hist"}
Shows(p) == pc[p] = "hist" \/ (pc[p] = "menu" /\ ~ web[p])

\* Inodes not made yet are empty; a process that writes has one.
FileInv ==
  /\ \A n \in Node : n > made => lines[n] = <<>>
  /\ \A p \in Proc : Writing(p) => fd[p] \in 1 .. made
  /\ raced => overlap

\* Nothing longer than a ballot is ever in a file, nor a candidate twice.
LenInv == BallotLegal

\* Without a race one process at most has removed the file and not made another.
OpenInv ==
  ~ raced => /\ \A p, q \in Proc : pc[p] = "open" /\ pc[q] = "open" => p = q
             /\ \A p \in Proc : pc[p] = "open" => file = 0

\* Without a race every process writes to an empty file of its own.
WriterInv ==
  ~ raced => /\ \A p \in Proc : pc[p] = "write" => lines[fd[p]] = <<>>
             /\ \A p, q \in Proc : Writing(p) /\ Writing(q) /\ fd[p] = fd[q] => p = q
             /\ \A p, q \in Proc : pc[q] = "write" => fd[q] # mine[p]

\* What a process shows is in the file it has read or written last.
StarInv ==
  ~ raced => \A p \in Proc : Shows(p) /\ mine[p] >= 0 => marks[p] = VotedFor(mine[p])

\* Every ballot file is on record or its writer is on the way to record it.
RecordInv ==
  ~ raced /\ ~ fault =>
    /\ \A n \in 1 .. made :
         \/ \E p \in Proc : pc[p] = "write" /\ fd[p] = n
         \/ \E p \in Proc : pc[p] = "hist" /\ fd[p] = n /\ marks[p] = ToSet(lines[n])
         \/ ToSet(lines[n]) \in ToSet(hist)
    /\ file = 0 => made = 0 \/ \E p \in Proc : pc[p] = "open"
    /\ hist # <<>> => made > 0

\* Without an overlap one process is in record(), and writes the file that counts.
LastInv ==
  ~ fault /\ ~ overlap =>
    /\ \A p, q \in Proc : Recording(p) /\ Recording(q) => p = q
    /\ \A p \in Proc : Writing(p) => fd[p] = file
    /\ \A p \in Proc : pc[p] = "hist" => marks[p] = VotedFor(file)
    /\ (\A p \in Proc : ~ Recording(p)) /\ hist # <<>> => VotedFor(file) = Last(hist)

VoteInv ==
  VoteTypeOK /\ FileInv /\ LenInv /\ OpenInv /\ WriterInv /\ StarInv /\ RecordInv /\ LastInv

-----------------------------------------------------------------------------
(* Ballots and files.                                                      *)

\* The lines of a ballot: the candidates chosen, each once.
LEMMA OrdersAreBallots ==
  ASSUME NEW S \in SUBSET Cand, NEW b \in Orders(S)
  PROVE  b \in Seq(Cand) /\ Len(b) = Cardinality(S) /\ ToSet(b) = S
<1>1. IsFiniteSet(S)
  BY VoteAssumption, FS_Subset
<1>2. Cardinality(S) \in Nat
  BY <1>1, FS_CardinalityType
<1> QED
  BY <1>2 DEF Orders

\* Writing at the beginning makes a file no longer than the longer of the two.
LEMMA OverwrittenIsShort ==
  ASSUME NEW T, NEW old \in Seq(T), NEW b \in Seq(T), NEW k \in Nat, Len(old) <= k, Len(b) <= k
  PROVE  Overwritten(old, b) \in Seq(T) /\ Len(Overwritten(old, b)) <= k
<1> DEFINE s == SubSeq(old, Len(b) + 1, Len(old))
<1>1. CASE Len(b) >= Len(old)
  <2>1. s = <<>>
    BY <1>1, EmptySeq, SubSeqProperties DEF Overwritten
  <2> QED
    BY <2>1 DEF Overwritten
<1>2. CASE Len(b) < Len(old)
  <2>1. s \in Seq(T) /\ Len(s) = Len(old) - Len(b)
    BY <1>2, SubSeqProperties
  <2> QED
    BY <2>1 DEF Overwritten
<1> QED
  BY <1>1, <1>2

\* Writing to an empty file leaves what was written.
LEMMA OverwrittenEmpty ==
  ASSUME NEW T, NEW b \in Seq(T)
  PROVE  Overwritten(<<>>, b) = b
<1>1. SubSeq(<<>>, Len(b) + 1, Len(<<>>)) = <<>>
  BY SubSeqProperties
<1> QED
  BY <1>1 DEF Overwritten

\* The history has what was appended, and what it had before.
LEMMA AppendedHas ==
  ASSUME NEW T, NEW h \in Seq(T), NEW b \in T
  PROVE  /\ Append(h, b) \in Seq(T) /\ Append(h, b) # <<>> /\ Last(Append(h, b)) = b
         /\ ToSet(Append(h, b)) = ToSet(h) \cup {b}
  BY DEF ToSet, Last

-----------------------------------------------------------------------------
(* The steps.                                                              *)

\* The clock passes the end.
LEMMA PollsCloseKeeps ==
  ASSUME VoteInv, PollsClose
  PROVE  VoteInv'
<1>1. VoteTypeOK'
  BY VoteAssumption DEF VoteInv, PollsClose, disk, history, VoteTypeOK, Recording, Node, FileInv, Writing
<1>2. FileInv'
  BY DEF VoteInv, PollsClose, disk, history, FileInv, Writing, Node
<1>3. LenInv'
  BY DEF VoteInv, PollsClose, disk, history, LenInv, BallotLegal, Node
<1>4. OpenInv'
  BY DEF VoteInv, PollsClose, disk, history, OpenInv
<1>5. WriterInv'
  BY DEF VoteInv, PollsClose, disk, history, WriterInv, Writing
<1>6. StarInv'
  BY DEF VoteInv, PollsClose, disk, history, StarInv, Shows, VotedFor
<1>7. RecordInv'
  BY DEF VoteInv, PollsClose, disk, history, RecordInv, Node
<1>8. LastInv'
  BY DEF VoteInv, PollsClose, disk, history, LastInv, Recording, Writing, VotedFor
<1> QED
  BY <1>1, <1>2, <1>3, <1>4, <1>5, <1>6, <1>7, <1>8 DEF VoteInv

\* board starts.
LEMMA EnterBoardKeeps ==
  ASSUME VoteInv, NEW p \in Proc, EnterBoard(p)
  PROVE  VoteInv'
<1>1. VoteTypeOK'
<2>1. VotedFor(file) \in SUBSET Cand
  BY VoteAssumption DEF VoteInv, VoteTypeOK, VotedFor, ToSet, Node
<2>2. (IF Complete(file) THEN file ELSE Unknown) \in -1 .. made
  BY DEF VoteInv, VoteTypeOK, Unknown
<2> QED
  BY <2>1, <2>2 DEF VoteInv, VoteTypeOK, EnterBoard, Goes, disk, Recording
<1>2. FileInv'
  BY DEF VoteInv, EnterBoard, disk, Goes, Unknown, Complete, FileInv, Writing, Node, VoteTypeOK, Recording
<1>3. LenInv'
  BY DEF VoteInv, EnterBoard, disk, Goes, Unknown, Complete, LenInv, BallotLegal, Node
<1>4. OpenInv'
  BY DEF VoteInv, EnterBoard, disk, Goes, Unknown, Complete, OpenInv, VoteTypeOK, FileInv, Writing, Node, Recording
<1>5. WriterInv'
  BY VoteAssumption DEF VoteInv, EnterBoard, disk, Goes, Unknown, Complete, WriterInv, Writing, VoteTypeOK, FileInv, Node, Recording
<1>6. StarInv'
<2>1. (mine'[p] = file /\ marks'[p] = VotedFor(file)) \/ mine'[p] = -1
  BY DEF VoteInv, VoteTypeOK, EnterBoard, Unknown
<2>2. \A q \in Proc : q # p => mine'[q] = mine[q] /\ marks'[q] = marks[q] /\ pc'[q] = pc[q]
  BY DEF VoteInv, VoteTypeOK, EnterBoard, Goes
<2> QED
  BY <2>1, <2>2 DEF VoteInv, StarInv, Shows, VotedFor, EnterBoard, disk
<1>7. RecordInv'
  BY DEF VoteInv, EnterBoard, disk, Goes, Unknown, Complete, RecordInv, Node, VoteTypeOK, FileInv, Writing, Recording
<1>8. LastInv'
  BY DEF VoteInv, EnterBoard, disk, Goes, Unknown, Complete, LastInv, Recording, Writing, VotedFor, VoteTypeOK, FileInv, Node
<1> QED
  BY <1>1, <1>2, <1>3, <1>4, <1>5, <1>6, <1>7, <1>8 DEF VoteInv

\* webcast starts.
LEMMA EnterWebKeeps ==
  ASSUME VoteInv, NEW p \in Proc, EnterWeb(p)
  PROVE  VoteInv'
<1>1. VoteTypeOK'
  BY VoteAssumption DEF VoteInv, EnterWeb, disk, Goes, history, VoteTypeOK, Recording, Node, FileInv, Writing
<1>2. FileInv'
  BY DEF VoteInv, EnterWeb, disk, Goes, history, FileInv, Writing, Node, VoteTypeOK, Recording
<1>3. LenInv'
  BY DEF VoteInv, EnterWeb, disk, Goes, history, LenInv, BallotLegal, Node
<1>4. OpenInv'
  BY DEF VoteInv, EnterWeb, disk, Goes, history, OpenInv, VoteTypeOK, FileInv, Writing, Node, Recording
<1>5. WriterInv'
  BY VoteAssumption DEF VoteInv, EnterWeb, disk, Goes, history, WriterInv, Writing, VoteTypeOK, FileInv, Node, Recording
<1>6. StarInv'
  BY VoteAssumption DEF VoteInv, EnterWeb, disk, Goes, history, StarInv, Shows, VotedFor, VoteTypeOK, FileInv, Writing, Node, Recording
<1>7. RecordInv'
  BY DEF VoteInv, EnterWeb, disk, Goes, history, RecordInv, Node, VoteTypeOK, FileInv, Writing, Recording
<1>8. LastInv'
  BY DEF VoteInv, EnterWeb, disk, Goes, history, LastInv, Recording, Writing, VotedFor, VoteTypeOK, FileInv, Node
<1> QED
  BY <1>1, <1>2, <1>3, <1>4, <1>5, <1>6, <1>7, <1>8 DEF VoteInv

\* A vote is cancelled.
LEMMA CancelKeeps ==
  ASSUME VoteInv, NEW p \in Proc, Cancel(p)
  PROVE  VoteInv'
<1>1. VoteTypeOK'
  BY VoteAssumption DEF VoteInv, Cancel, disk, history, Restored, VoteTypeOK, Recording, Node, FileInv, Writing
<1>2. FileInv'
  BY DEF VoteInv, Cancel, disk, history, Restored, FileInv, Writing, Node
<1>3. LenInv'
  BY DEF VoteInv, Cancel, disk, history, Restored, LenInv, BallotLegal, Node
<1>4. OpenInv'
  BY DEF VoteInv, Cancel, disk, history, Restored, OpenInv
<1>5. WriterInv'
  BY DEF VoteInv, Cancel, disk, history, Restored, WriterInv, Writing
<1>6. StarInv'
  BY VoteAssumption DEF VoteInv, Cancel, disk, history, Restored, StarInv, Shows, VotedFor, VoteTypeOK, FileInv, Writing, Node, Recording
<1>7. RecordInv'
  BY DEF VoteInv, Cancel, disk, history, Restored, RecordInv, Node, VoteTypeOK, FileInv, Writing, Recording
<1>8. LastInv'
  BY DEF VoteInv, Cancel, disk, history, Restored, LastInv, Recording, Writing, VotedFor, VoteTypeOK, FileInv, Node
<1> QED
  BY <1>1, <1>2, <1>3, <1>4, <1>5, <1>6, <1>7, <1>8 DEF VoteInv

\* A process ends at its questions.
LEMMA LeaveKeeps ==
  ASSUME VoteInv, NEW p \in Proc, Leave(p)
  PROVE  VoteInv'
<1>1. VoteTypeOK'
  BY VoteAssumption DEF VoteInv, Leave, disk, Ends, Unknown, VoteTypeOK, Recording, Node, FileInv, Writing
<1>2. FileInv'
  BY DEF VoteInv, Leave, disk, Ends, Unknown, FileInv, Writing, Node, VoteTypeOK, Recording
<1>3. LenInv'
  BY DEF VoteInv, Leave, disk, Ends, Unknown, LenInv, BallotLegal, Node
<1>4. OpenInv'
  BY DEF VoteInv, Leave, disk, Ends, Unknown, OpenInv, VoteTypeOK, FileInv, Writing, Node, Recording
<1>5. WriterInv'
  BY VoteAssumption DEF VoteInv, Leave, disk, Ends, Unknown, WriterInv, Writing, VoteTypeOK, FileInv, Node, Recording
<1>6. StarInv'
  BY VoteAssumption DEF VoteInv, Leave, disk, Ends, Unknown, StarInv, Shows, VotedFor, VoteTypeOK, FileInv, Writing, Node, Recording
<1>7. RecordInv'
  BY DEF VoteInv, Leave, disk, Ends, Unknown, RecordInv, Node, VoteTypeOK, FileInv, Writing, Recording
<1>8. LastInv'
  BY DEF VoteInv, Leave, disk, Ends, Unknown, LastInv, Recording, Writing, VotedFor, VoteTypeOK, FileInv, Node
<1> QED
  BY <1>1, <1>2, <1>3, <1>4, <1>5, <1>6, <1>7, <1>8 DEF VoteInv

\* record() removes the old file.
LEMMA UnlinkKeeps ==
  ASSUME VoteInv, NEW p \in Proc, Unlink(p)
  PROVE  VoteInv'
<1>1. VoteTypeOK'
  <2>1. PICK chosen \in SUBSET Cand :
          Allowed(Cardinality(chosen)) /\ marks' = [marks EXCEPT ![p] = chosen]
    BY DEF Unlink
  <2>2. \A q \in Proc : Recording(q)' => Cardinality(marks'[q]) <= Slots
    <3> SUFFICES ASSUME NEW q \in Proc, Recording(q)'
                 PROVE  Cardinality(marks'[q]) <= Slots
      OBVIOUS
    <3>1. CASE q = p
      BY <2>1, <3>1 DEF VoteInv, VoteTypeOK, Allowed
    <3>2. CASE q # p
      BY <2>1, <3>2 DEF VoteInv, VoteTypeOK, Unlink, Goes, Recording
    <3> QED
      BY <3>1, <3>2
  <2>3. marks' \in [Proc -> SUBSET Cand] /\ file' \in 0 .. made'
    BY <2>1 DEF VoteInv, VoteTypeOK, Unlink, Unlinked
  <2>4. pc' \in [Proc -> {"out", "menu", "open", "write", "hist"}]
    BY DEF VoteInv, VoteTypeOK, Unlink, Goes
  <2>5. overlap' \in BOOLEAN /\ raced' \in BOOLEAN
    BY DEF VoteInv, VoteTypeOK, Unlink
  <2> QED
    BY <2>2, <2>3, <2>4, <2>5 DEF VoteInv, VoteTypeOK, Unlink, Node
<1>2. FileInv'
  BY DEF VoteInv, Unlink, Goes, Recording, Allowed, Unlinked, FileInv, Writing, Node, VoteTypeOK
<1>3. LenInv'
  BY DEF VoteInv, Unlink, Goes, Recording, Allowed, Unlinked, LenInv, BallotLegal, Node, VoteTypeOK, FileInv, Writing
<1>4. OpenInv'
  BY DEF VoteInv, Unlink, Goes, Recording, Allowed, Unlinked, OpenInv, VoteTypeOK, FileInv, Writing, Node
<1>5. WriterInv'
  BY VoteAssumption DEF VoteInv, Unlink, Goes, Recording, Allowed, Unlinked, WriterInv, Writing, VoteTypeOK, FileInv, Node
<1>6. StarInv'
  BY VoteAssumption DEF VoteInv, Unlink, Goes, Recording, Allowed, Unlinked, StarInv, Shows, VotedFor, VoteTypeOK, FileInv, Writing, Node
<1>7. RecordInv'
  BY DEF VoteInv, Unlink, Goes, Recording, Allowed, Unlinked, RecordInv, Node, VoteTypeOK, FileInv, Writing
<1>8. LastInv'
  BY DEF VoteInv, Unlink, Goes, Recording, Allowed, Unlinked, LastInv, Writing, VotedFor, VoteTypeOK, FileInv, Node
<1> QED
  BY <1>1, <1>2, <1>3, <1>4, <1>5, <1>6, <1>7, <1>8 DEF VoteInv

\* record() makes the new one.
LEMMA OpenKeeps ==
  ASSUME VoteInv, NEW p \in Proc, Open(p)
  PROVE  VoteInv'
<1>1. VoteTypeOK'
<2> DEFINE n == IF file = 0 THEN made + 1 ELSE file
<2>1. pc[p] = "open" /\ pc' = [pc EXCEPT ![p] = "write"] /\ file' = n
      /\ made' = (IF file = 0 THEN made + 1 ELSE made)
      /\ lines' = [lines EXCEPT ![n] = <<>>] /\ fd' = [fd EXCEPT ![p] = n]
      /\ hist' = hist /\ marks' = marks /\ mine' = mine /\ raced' = raced /\ overlap' = overlap
      /\ fault' = fault /\ web' = web /\ open' = open
  BY DEF Open, Goes, history
<2>2. made \in Nat /\ made' \in 0 .. MaxCasts /\ n \in 1 .. made' /\ made <= made'
  BY <2>1, VoteAssumption DEF VoteInv, VoteTypeOK, Open, Node
<2>3. n \in Node /\ lines'[n] = <<>> /\ \A k \in Node : k # n => lines'[k] = lines[k]
  BY <2>1, <2>2, VoteAssumption DEF VoteInv, VoteTypeOK, Node
<2> HIDE DEF n
<2>4. lines' \in [Node -> Seq(Cand)]
  BY <2>1, <2>3 DEF VoteInv, VoteTypeOK
<2>6. fd' \in [Proc -> 0 .. made']
  BY <2>1, <2>2 DEF VoteInv, VoteTypeOK
<2>7. mine' \in [Proc -> -1 .. made']
  BY <2>1, <2>2 DEF VoteInv, VoteTypeOK
<2>5. \A q \in Proc : Recording(q)' => Recording(q)
  BY <2>1 DEF VoteInv, VoteTypeOK, Recording
<2> QED
  BY <2>1, <2>2, <2>4, <2>5, <2>6, <2>7 DEF VoteInv, VoteTypeOK
<1>2. FileInv'
<2> DEFINE n == IF file = 0 THEN made + 1 ELSE file
<2>1. pc[p] = "open" /\ pc' = [pc EXCEPT ![p] = "write"] /\ file' = n
      /\ made' = (IF file = 0 THEN made + 1 ELSE made)
      /\ lines' = [lines EXCEPT ![n] = <<>>] /\ fd' = [fd EXCEPT ![p] = n]
      /\ hist' = hist /\ marks' = marks /\ mine' = mine /\ raced' = raced /\ overlap' = overlap
      /\ fault' = fault /\ web' = web /\ open' = open
  BY DEF Open, Goes, history
<2>2. made \in Nat /\ made' \in 0 .. MaxCasts /\ n \in 1 .. made' /\ made <= made'
  BY <2>1, VoteAssumption DEF VoteInv, VoteTypeOK, Open, Node
<2>3. n \in Node /\ lines'[n] = <<>> /\ \A k \in Node : k # n => lines'[k] = lines[k]
  BY <2>1, <2>2, VoteAssumption DEF VoteInv, VoteTypeOK, Node
<2> HIDE DEF n
<2>4. \A k \in Node : k > made' => lines'[k] = <<>>
  BY <2>1, <2>2, <2>3 DEF VoteInv, FileInv, Node
<2>5. \A q \in Proc : Writing(q)' => fd'[q] \in 1 .. made'
  BY <2>1, <2>2 DEF VoteInv, VoteTypeOK, FileInv, Writing
<2> QED
  BY <2>1, <2>4, <2>5 DEF VoteInv, FileInv
<1>3. LenInv'
<2> DEFINE n == IF file = 0 THEN made + 1 ELSE file
<2>1. pc[p] = "open" /\ pc' = [pc EXCEPT ![p] = "write"] /\ file' = n
      /\ made' = (IF file = 0 THEN made + 1 ELSE made)
      /\ lines' = [lines EXCEPT ![n] = <<>>] /\ fd' = [fd EXCEPT ![p] = n]
      /\ hist' = hist /\ marks' = marks /\ mine' = mine /\ raced' = raced /\ overlap' = overlap
      /\ fault' = fault /\ web' = web /\ open' = open
  BY DEF Open, Goes, history
<2>2. made \in Nat /\ made' \in 0 .. MaxCasts /\ n \in 1 .. made' /\ made <= made'
  BY <2>1, VoteAssumption DEF VoteInv, VoteTypeOK, Open, Node
<2>3. n \in Node /\ lines'[n] = <<>> /\ \A k \in Node : k # n => lines'[k] = lines[k]
  BY <2>1, <2>2, VoteAssumption DEF VoteInv, VoteTypeOK, Node
<2> HIDE DEF n
<2>4. Len(<<>>) <= Slots /\ Cardinality(ToSet(<<>>)) = Len(<<>>)
  <3>1. ToSet(<<>>) = {}
    BY DEF ToSet
  <3>2. Cardinality(ToSet(<<>>)) = 0
    BY <3>1, FS_EmptySet, Zenon
  <3> QED
    BY <3>2, VoteAssumption
<2> QED
  BY <2>1, <2>3, <2>4 DEF VoteInv, LenInv, BallotLegal
<1>4. OpenInv'
  BY DEF VoteInv, Open, Goes, history, OpenInv, VoteTypeOK, FileInv, Writing, Node, Recording
<1>5. WriterInv'
<2> DEFINE n == IF file = 0 THEN made + 1 ELSE file
<2>1. pc[p] = "open" /\ pc' = [pc EXCEPT ![p] = "write"] /\ file' = n
      /\ made' = (IF file = 0 THEN made + 1 ELSE made)
      /\ lines' = [lines EXCEPT ![n] = <<>>] /\ fd' = [fd EXCEPT ![p] = n]
      /\ hist' = hist /\ marks' = marks /\ mine' = mine /\ raced' = raced /\ overlap' = overlap
      /\ fault' = fault /\ web' = web /\ open' = open
  BY DEF Open, Goes, history
<2>2. made \in Nat /\ made' \in 0 .. MaxCasts /\ n \in 1 .. made' /\ made <= made'
  BY <2>1, VoteAssumption DEF VoteInv, VoteTypeOK, Open, Node
<2>3. n \in Node /\ lines'[n] = <<>> /\ \A k \in Node : k # n => lines'[k] = lines[k]
  BY <2>1, <2>2, VoteAssumption DEF VoteInv, VoteTypeOK, Node
<2> HIDE DEF n
<2> SUFFICES ASSUME ~ raced PROVE WriterInv!2'
  BY <2>1 DEF WriterInv
<2>4. file = 0 /\ n = made + 1 /\ made' = n
  BY <2>1 DEF VoteInv, OpenInv, n
<2>5. \A q \in Proc : q # p => pc'[q] = pc[q] /\ fd'[q] = fd[q]
  BY <2>1 DEF VoteInv, VoteTypeOK
<2>6. pc'[p] = "write" /\ fd'[p] = n
  BY <2>1 DEF VoteInv, VoteTypeOK
<2>7. \A q \in Proc : q # p /\ Writing(q) => fd[q] \in Node /\ fd[q] # n
  BY <2>2, <2>4, VoteAssumption DEF VoteInv, FileInv, VoteTypeOK, Node
<2>8. \A q \in Proc : mine[q] # n
  BY <2>2, <2>4 DEF VoteInv, VoteTypeOK
<2>9. \A q \in Proc : pc'[q] = "write" => lines'[fd'[q]] = <<>>
  BY <2>3, <2>5, <2>6, <2>7 DEF VoteInv, WriterInv, Writing
<2>10. \A q, r \in Proc : Writing(q)' /\ Writing(r)' /\ fd'[q] = fd'[r] => q = r
  BY <2>5, <2>6, <2>7 DEF VoteInv, WriterInv, Writing
<2>11. \A q, r \in Proc : pc'[r] = "write" => fd'[r] # mine'[q]
  BY <2>1, <2>5, <2>6, <2>8 DEF VoteInv, WriterInv
<2> QED
  BY <2>9, <2>10, <2>11
<1>6. StarInv'
<2> DEFINE n == IF file = 0 THEN made + 1 ELSE file
<2>1. pc[p] = "open" /\ pc' = [pc EXCEPT ![p] = "write"] /\ file' = n
      /\ made' = (IF file = 0 THEN made + 1 ELSE made)
      /\ lines' = [lines EXCEPT ![n] = <<>>] /\ fd' = [fd EXCEPT ![p] = n]
      /\ hist' = hist /\ marks' = marks /\ mine' = mine /\ raced' = raced /\ overlap' = overlap
      /\ fault' = fault /\ web' = web /\ open' = open
  BY DEF Open, Goes, history
<2>2. made \in Nat /\ made' \in 0 .. MaxCasts /\ n \in 1 .. made' /\ made <= made'
  BY <2>1, VoteAssumption DEF VoteInv, VoteTypeOK, Open, Node
<2>3. n \in Node /\ lines'[n] = <<>> /\ \A k \in Node : k # n => lines'[k] = lines[k]
  BY <2>1, <2>2, VoteAssumption DEF VoteInv, VoteTypeOK, Node
<2> HIDE DEF n
<2> SUFFICES ASSUME ~ raced PROVE StarInv!2'
  BY <2>1 DEF StarInv
<2>4. file = 0 /\ n = made + 1 /\ made' = n
  BY <2>1 DEF VoteInv, OpenInv, n
<2>5. \A q \in Proc : q # p => pc'[q] = pc[q] /\ fd'[q] = fd[q]
  BY <2>1 DEF VoteInv, VoteTypeOK
<2>6. pc'[p] = "write" /\ fd'[p] = n
  BY <2>1 DEF VoteInv, VoteTypeOK
<2> SUFFICES ASSUME NEW q \in Proc, Shows(q)', mine'[q] >= 0 PROVE marks'[q] = VotedFor(mine[q])'
  OBVIOUS
<2>7. Shows(q) /\ mine[q] >= 0 /\ marks[q] = VotedFor(mine[q])
  <3>1. q # p
    BY <2>6 DEF Shows
  <3> QED
    BY <2>1, <2>5, <3>1 DEF VoteInv, StarInv, Shows
<2>8. mine[q] \in 0 .. made
  BY <2>7 DEF VoteInv, VoteTypeOK
<2>9. mine[q] = 0 \/ lines'[mine[q]] = lines[mine[q]]
  BY <2>2, <2>3, <2>4, <2>8, VoteAssumption DEF Node
<2> QED
  BY <2>1, <2>7, <2>9 DEF VotedFor
<1>7. RecordInv'
<2> DEFINE n == IF file = 0 THEN made + 1 ELSE file
<2>1. pc[p] = "open" /\ pc' = [pc EXCEPT ![p] = "write"] /\ file' = n
      /\ made' = (IF file = 0 THEN made + 1 ELSE made)
      /\ lines' = [lines EXCEPT ![n] = <<>>] /\ fd' = [fd EXCEPT ![p] = n]
      /\ hist' = hist /\ marks' = marks /\ mine' = mine /\ raced' = raced /\ overlap' = overlap
      /\ fault' = fault /\ web' = web /\ open' = open
  BY DEF Open, Goes, history
<2>2. made \in Nat /\ made' \in 0 .. MaxCasts /\ n \in 1 .. made' /\ made <= made'
  BY <2>1, VoteAssumption DEF VoteInv, VoteTypeOK, Open, Node
<2>3. n \in Node /\ lines'[n] = <<>> /\ \A k \in Node : k # n => lines'[k] = lines[k]
  BY <2>1, <2>2, VoteAssumption DEF VoteInv, VoteTypeOK, Node
<2> HIDE DEF n
<2> SUFFICES ASSUME ~ raced, ~ fault PROVE RecordInv!2'
  BY <2>1 DEF RecordInv
<2>4. file = 0 /\ n = made + 1 /\ made' = n
  BY <2>1 DEF VoteInv, OpenInv, n
<2>5. \A q \in Proc : q # p => pc'[q] = pc[q] /\ fd'[q] = fd[q]
  BY <2>1 DEF VoteInv, VoteTypeOK
<2>6. pc'[p] = "write" /\ fd'[p] = n
  BY <2>1 DEF VoteInv, VoteTypeOK
<2>7. ASSUME NEW k \in 1 .. made'
      PROVE  \/ \E q \in Proc : pc'[q] = "write" /\ fd'[q] = k
             \/ \E q \in Proc : pc'[q] = "hist" /\ fd'[q] = k /\ marks'[q] = ToSet(lines'[k])
             \/ ToSet(lines'[k]) \in ToSet(hist')
  <3>1. CASE k = n
    BY <2>6, <3>1
  <3>2. CASE k # n
    <4>1. k \in 1 .. made /\ lines'[k] = lines[k]
      BY <2>2, <2>3, <2>4, <3>2, VoteAssumption DEF Node
    <4> QED
      BY <2>1, <2>5, <4>1 DEF VoteInv, RecordInv
  <3> QED
    BY <3>1, <3>2
<2> QED
  BY <2>1, <2>2, <2>4, <2>7
<1>8. LastInv'
<2> DEFINE n == IF file = 0 THEN made + 1 ELSE file
<2>1. pc[p] = "open" /\ pc' = [pc EXCEPT ![p] = "write"] /\ file' = n
      /\ made' = (IF file = 0 THEN made + 1 ELSE made)
      /\ lines' = [lines EXCEPT ![n] = <<>>] /\ fd' = [fd EXCEPT ![p] = n]
      /\ hist' = hist /\ marks' = marks /\ mine' = mine /\ raced' = raced /\ overlap' = overlap
      /\ fault' = fault /\ web' = web /\ open' = open
  BY DEF Open, Goes, history
<2>2. made \in Nat /\ made' \in 0 .. MaxCasts /\ n \in 1 .. made' /\ made <= made'
  BY <2>1, VoteAssumption DEF VoteInv, VoteTypeOK, Open, Node
<2>3. n \in Node /\ lines'[n] = <<>> /\ \A k \in Node : k # n => lines'[k] = lines[k]
  BY <2>1, <2>2, VoteAssumption DEF VoteInv, VoteTypeOK, Node
<2> HIDE DEF n
<2> SUFFICES ASSUME ~ overlap, ~ fault PROVE LastInv!2'
  BY <2>1 DEF LastInv
<2>4. \A q \in Proc : q # p => ~ Recording(q) /\ pc'[q] = pc[q]
  BY <2>1 DEF VoteInv, VoteTypeOK, LastInv, Recording
<2>5. pc'[p] = "write" /\ fd'[p] = n
  BY <2>1 DEF VoteInv, VoteTypeOK
<2> QED
  BY <2>1, <2>4, <2>5 DEF Recording, Writing
<1> QED
  BY <1>1, <1>2, <1>3, <1>4, <1>5, <1>6, <1>7, <1>8 DEF VoteInv

\* record() writes the lines.
LEMMA WriteKeeps ==
  ASSUME VoteInv, NEW p \in Proc, Write(p)
  PROVE  VoteInv'
<1>1. VoteTypeOK'
<2> PICK b \in Orders(marks[p]) : lines' = [lines EXCEPT ![fd[p]] = Overwritten(lines[fd[p]], b)]
  BY DEF Write
<2>1. b \in Seq(Cand) /\ Len(b) = Cardinality(marks[p]) /\ ToSet(b) = marks[p]
  BY OrdersAreBallots DEF VoteInv, VoteTypeOK
<2>2. fd[p] \in 1 .. made /\ fd[p] \in Node
  BY VoteAssumption DEF VoteInv, FileInv, Writing, Write, Goes, VoteTypeOK, Node
<2>3. Len(b) <= Slots /\ Len(lines[fd[p]]) <= Slots /\ lines[fd[p]] \in Seq(Cand)
  BY <2>1, <2>2 DEF VoteInv, VoteTypeOK, LenInv, BallotLegal, Recording, Write, Goes
<2>4. Overwritten(lines[fd[p]], b) \in Seq(Cand) /\ Len(Overwritten(lines[fd[p]], b)) <= Slots
  BY <2>1, <2>3, OverwrittenIsShort, VoteAssumption
<2> QED
  BY <2>2, <2>4 DEF VoteInv, Write, Goes, VoteTypeOK, Recording, Node
<1>2. FileInv'
  BY DEF VoteInv, Write, Goes, FileInv, Writing, Node, VoteTypeOK, Recording
<1>3. LenInv'
<2> PICK b \in Orders(marks[p]) : lines' = [lines EXCEPT ![fd[p]] = Overwritten(lines[fd[p]], b)]
  BY DEF Write
<2>1. b \in Seq(Cand) /\ Len(b) = Cardinality(marks[p]) /\ ToSet(b) = marks[p]
  BY OrdersAreBallots DEF VoteInv, VoteTypeOK
<2>2. fd[p] \in 1 .. made /\ fd[p] \in Node
  BY VoteAssumption DEF VoteInv, FileInv, Writing, Write, Goes, VoteTypeOK, Node
<2>3. Len(b) <= Slots /\ Len(lines[fd[p]]) <= Slots /\ lines[fd[p]] \in Seq(Cand)
  BY <2>1, <2>2 DEF VoteInv, VoteTypeOK, LenInv, BallotLegal, Recording, Write, Goes
<2>4. Overwritten(lines[fd[p]], b) \in Seq(Cand) /\ Len(Overwritten(lines[fd[p]], b)) <= Slots
  BY <2>1, <2>3, OverwrittenIsShort, VoteAssumption
<2>5. ~ raced => lines'[fd[p]] = b
  BY <2>1, <2>2, OverwrittenEmpty DEF VoteInv, WriterInv, Write, Goes, VoteTypeOK
<2>6. \A n \in Node : n # fd[p] => lines'[n] = lines[n]
  BY <2>2 DEF VoteInv, VoteTypeOK
<2>7. raced' = raced
  BY DEF Write
<2>8. lines'[fd[p]] = Overwritten(lines[fd[p]], b)
  BY <2>2 DEF VoteInv, VoteTypeOK
<2> QED
  BY <2>1, <2>2, <2>4, <2>5, <2>6, <2>7, <2>8 DEF VoteInv, LenInv, BallotLegal
<1>4. OpenInv'
  BY DEF VoteInv, Write, Goes, OpenInv, VoteTypeOK, FileInv, Writing, Node, Recording
<1>5. WriterInv'
<2> PICK b \in Orders(marks[p]) : lines' = [lines EXCEPT ![fd[p]] = Overwritten(lines[fd[p]], b)]
  BY DEF Write
<2>1. b \in Seq(Cand) /\ Len(b) = Cardinality(marks[p]) /\ ToSet(b) = marks[p]
  BY OrdersAreBallots DEF VoteInv, VoteTypeOK
<2>2. fd[p] \in 1 .. made /\ fd[p] \in Node
  BY VoteAssumption DEF VoteInv, FileInv, Writing, Write, Goes, VoteTypeOK, Node
<2>3. ~ raced => lines'[fd[p]] = b
  BY <2>1, <2>2, OverwrittenEmpty DEF VoteInv, WriterInv, Write, Goes, VoteTypeOK
<2>4. pc' = [pc EXCEPT ![p] = "hist"] /\ pc[p] = "write" /\ fd' = fd /\ raced' = raced
      /\ mine' = [mine EXCEPT ![p] = fd[p]]
  BY DEF Write, Goes
<2>5. \A n \in Node : n # fd[p] => lines'[n] = lines[n]
  BY <2>2 DEF VoteInv, VoteTypeOK
<2>6. \A q \in Proc : q # p /\ Writing(q) => fd[q] \in Node
  BY VoteAssumption DEF VoteInv, FileInv, VoteTypeOK, Node
<2> SUFFICES ASSUME ~ raced PROVE WriterInv!2'
  BY <2>4 DEF WriterInv
<2>7. \A q \in Proc : q # p /\ Writing(q) => fd[q] # fd[p]
  BY <2>4 DEF VoteInv, WriterInv, Writing
<2>8. \A q \in Proc : pc'[q] = "write" => q # p /\ pc[q] = "write"
  BY <2>4 DEF VoteInv, VoteTypeOK
<2>9. \A q \in Proc : Writing(q)' => Writing(q)
  BY <2>4 DEF VoteInv, VoteTypeOK, Writing
<2>10. \A q \in Proc : pc'[q] = "write" => lines'[fd'[q]] = <<>>
  BY <2>4, <2>5, <2>6, <2>7, <2>8 DEF VoteInv, WriterInv, Writing
<2>11. \A q, r \in Proc : pc'[r] = "write" => fd'[r] # mine'[q]
  BY <2>4, <2>7, <2>8 DEF VoteInv, VoteTypeOK, WriterInv, Writing
<2> QED
  BY <2>4, <2>9, <2>10, <2>11 DEF VoteInv, WriterInv
<1>6. StarInv'
<2> PICK b \in Orders(marks[p]) : lines' = [lines EXCEPT ![fd[p]] = Overwritten(lines[fd[p]], b)]
  BY DEF Write
<2>1. b \in Seq(Cand) /\ Len(b) = Cardinality(marks[p]) /\ ToSet(b) = marks[p]
  BY OrdersAreBallots DEF VoteInv, VoteTypeOK
<2>2. fd[p] \in 1 .. made /\ fd[p] \in Node
  BY VoteAssumption DEF VoteInv, FileInv, Writing, Write, Goes, VoteTypeOK, Node
<2>3. ~ raced => lines'[fd[p]] = b
  BY <2>1, <2>2, OverwrittenEmpty DEF VoteInv, WriterInv, Write, Goes, VoteTypeOK
<2>4. \A n \in Node : n # fd[p] => lines'[n] = lines[n]
  BY <2>2 DEF VoteInv, VoteTypeOK
<2> SUFFICES ASSUME ~ raced, NEW q \in Proc, Shows(q)', mine'[q] >= 0
             PROVE  marks'[q] = VotedFor(mine[q])'
  BY DEF StarInv, Write
<2>5. CASE q = p
  <3>1. mine'[p] = fd[p] /\ marks' = marks /\ fd[p] # 0
    BY <2>2 DEF VoteInv, VoteTypeOK, Write
  <3> QED
    BY <2>1, <2>3, <2>5, <3>1 DEF VotedFor
<2>6. CASE q # p
  <3>1. mine'[q] = mine[q] /\ marks'[q] = marks[q] /\ Shows(q) /\ mine[q] \in -1 .. made
    BY <2>6 DEF VoteInv, VoteTypeOK, Write, Goes, Shows
  <3>2. mine[q] # fd[p]
    BY <2>6 DEF VoteInv, WriterInv, Write, Goes
  <3>3. made <= MaxCasts /\ made \in Nat
    BY VoteAssumption DEF VoteInv, VoteTypeOK
  <3>4. mine[q] = 0 \/ (mine[q] \in Node /\ lines'[mine[q]] = lines[mine[q]])
    BY <2>4, <3>1, <3>2, <3>3, VoteAssumption DEF Node
  <3> QED
    BY <3>1, <3>4 DEF VoteInv, StarInv, VotedFor
<2> QED
  BY <2>5, <2>6
<1>7. RecordInv'
<2> PICK b \in Orders(marks[p]) : lines' = [lines EXCEPT ![fd[p]] = Overwritten(lines[fd[p]], b)]
  BY DEF Write
<2>1. b \in Seq(Cand) /\ Len(b) = Cardinality(marks[p]) /\ ToSet(b) = marks[p]
  BY OrdersAreBallots DEF VoteInv, VoteTypeOK
<2>2. fd[p] \in 1 .. made /\ fd[p] \in Node
  BY VoteAssumption DEF VoteInv, FileInv, Writing, Write, Goes, VoteTypeOK, Node
<2>3. ~ raced => lines'[fd[p]] = b
  BY <2>1, <2>2, OverwrittenEmpty DEF VoteInv, WriterInv, Write, Goes, VoteTypeOK
<2>4. \A n \in Node : n # fd[p] => lines'[n] = lines[n]
  BY <2>2 DEF VoteInv, VoteTypeOK
<2>5. pc' = [pc EXCEPT ![p] = "hist"] /\ pc[p] = "write" /\ fd' = fd /\ marks' = marks
      /\ made' = made /\ file' = file /\ hist' = hist /\ raced' = raced /\ fault' = fault
  BY DEF Write, Goes
<2> SUFFICES ASSUME ~ raced, ~ fault PROVE RecordInv!2'
  BY <2>5 DEF RecordInv
<2>6. ASSUME NEW n \in 1 .. made
      PROVE  \/ \E q \in Proc : pc'[q] = "write" /\ fd[q] = n
             \/ \E q \in Proc : pc'[q] = "hist" /\ fd[q] = n /\ marks[q] = ToSet(lines'[n])
             \/ ToSet(lines'[n]) \in ToSet(hist)
  <3>1. CASE n = fd[p]
    <4>1. pc'[p] = "hist" /\ marks[p] = ToSet(lines'[n])
      BY <2>1, <2>3, <2>5, <3>1 DEF VoteInv, VoteTypeOK
    <4> QED
      BY <3>1, <4>1
  <3>2. CASE n # fd[p]
    <4>1. lines'[n] = lines[n]
      BY <2>4, <3>2, VoteAssumption DEF VoteInv, VoteTypeOK, Node
    <4> QED
      BY <2>5, <3>2, <4>1 DEF VoteInv, RecordInv, VoteTypeOK
  <3> QED
    BY <3>1, <3>2
<2>7. file' = 0 => made' = 0 \/ \E q \in Proc : pc'[q] = "open"
  BY <2>5 DEF VoteInv, RecordInv, VoteTypeOK
<2> QED
  BY <2>5, <2>6, <2>7 DEF VoteInv, RecordInv
<1>8. LastInv'
<2> PICK b \in Orders(marks[p]) : lines' = [lines EXCEPT ![fd[p]] = Overwritten(lines[fd[p]], b)]
  BY DEF Write
<2>1. b \in Seq(Cand) /\ Len(b) = Cardinality(marks[p]) /\ ToSet(b) = marks[p]
  BY OrdersAreBallots DEF VoteInv, VoteTypeOK
<2>2. fd[p] \in 1 .. made /\ fd[p] \in Node
  BY VoteAssumption DEF VoteInv, FileInv, Writing, Write, Goes, VoteTypeOK, Node
<2>3. ~ raced => lines'[fd[p]] = b
  BY <2>1, <2>2, OverwrittenEmpty DEF VoteInv, WriterInv, Write, Goes, VoteTypeOK
<2>4. pc' = [pc EXCEPT ![p] = "hist"] /\ pc[p] = "write" /\ fd' = fd /\ marks' = marks
      /\ file' = file /\ hist' = hist /\ overlap' = overlap /\ fault' = fault /\ pc'[p] = "hist"
  BY DEF Write, Goes, VoteInv, VoteTypeOK
<2> SUFFICES ASSUME ~ overlap, ~ fault PROVE LastInv!2'
  BY <2>4 DEF LastInv
<2>5. ~ raced
  BY DEF VoteInv, FileInv
<2>6. fd[p] = file
  BY <2>4 DEF VoteInv, LastInv, Writing
<2>7. VotedFor(file)' = marks[p]
  BY <2>1, <2>2, <2>3, <2>4, <2>5, <2>6 DEF VotedFor
<2>8. \A q \in Proc : q # p => ~ Recording(q)
  BY <2>4 DEF VoteInv, LastInv, Recording
<2>9. \A q \in Proc : q # p => pc'[q] = pc[q]
  BY <2>4 DEF VoteInv, VoteTypeOK
<2> QED
  BY <2>4, <2>6, <2>7, <2>8, <2>9 DEF Recording, Writing
<1> QED
  BY <1>1, <1>2, <1>3, <1>4, <1>5, <1>6, <1>7, <1>8 DEF VoteInv

\* The lines cannot be written.
LEMMA WriteFailsKeeps ==
  ASSUME VoteInv, NEW p \in Proc, WriteFails(p)
  PROVE  VoteInv'
<1>1. VoteTypeOK'
  BY VoteAssumption DEF VoteInv, WriteFails, Goes, disk, Unknown, VoteTypeOK, Recording, Node, FileInv, Writing
<1>2. FileInv'
  BY DEF VoteInv, WriteFails, Goes, disk, Unknown, FileInv, Writing, Node, VoteTypeOK, Recording
<1>3. LenInv'
  BY DEF VoteInv, WriteFails, Goes, disk, Unknown, LenInv, BallotLegal, Node
<1>4. OpenInv'
  BY DEF VoteInv, WriteFails, Goes, disk, Unknown, OpenInv, VoteTypeOK, FileInv, Writing, Node, Recording
<1>5. WriterInv'
  BY VoteAssumption DEF VoteInv, WriteFails, Goes, disk, Unknown, WriterInv, Writing, VoteTypeOK, FileInv, Node, Recording
<1>6. StarInv'
  BY VoteAssumption DEF VoteInv, WriteFails, Goes, disk, Unknown, StarInv, Shows, VotedFor, VoteTypeOK, FileInv, Writing, Node, Recording
<1>7. RecordInv'
  BY DEF VoteInv, WriteFails, Goes, disk, Unknown, RecordInv, Node, VoteTypeOK, FileInv, Writing, Recording
<1>8. LastInv'
  BY DEF VoteInv, WriteFails, Goes, disk, Unknown, LastInv, Recording, Writing, VotedFor, VoteTypeOK, FileInv, Node
<1> QED
  BY <1>1, <1>2, <1>3, <1>4, <1>5, <1>6, <1>7, <1>8 DEF VoteInv

\* hashrec() logs the ballot.
LEMMA LogBoardKeeps ==
  ASSUME VoteInv, NEW p \in Proc, LogBoard(p)
  PROVE  VoteInv'
<1>1. VoteTypeOK'
  BY VoteAssumption DEF VoteInv, LogBoard, Goes, Appended, history, VoteTypeOK, Recording, Node, FileInv, Writing
<1>2. FileInv'
  BY DEF VoteInv, LogBoard, Goes, Appended, history, FileInv, Writing, Node, VoteTypeOK, Recording
<1>3. LenInv'
  BY DEF VoteInv, LogBoard, Goes, Appended, history, LenInv, BallotLegal, Node
<1>4. OpenInv'
  BY DEF VoteInv, LogBoard, Goes, Appended, history, OpenInv, VoteTypeOK, FileInv, Writing, Node, Recording
<1>5. WriterInv'
  BY VoteAssumption DEF VoteInv, LogBoard, Goes, Appended, history, WriterInv, Writing, VoteTypeOK, FileInv, Node, Recording
<1>6. StarInv'
  BY VoteAssumption DEF VoteInv, LogBoard, Goes, Appended, history, StarInv, Shows, VotedFor, VoteTypeOK, FileInv, Writing, Node, Recording
<1>7. RecordInv'
<2>1. marks[p] \in SUBSET Cand /\ hist \in Seq(SUBSET Cand)
  BY DEF VoteInv, VoteTypeOK
<2>2. /\ hist' \in Seq(SUBSET Cand) /\ hist' # <<>> /\ Last(hist') = marks[p]
      /\ ToSet(hist') = ToSet(hist) \cup {marks[p]}
  BY <2>1, AppendedHas DEF LogBoard, Appended
<2>3. pc[p] = "hist" /\ made' = made /\ file' = file /\ raced' = raced /\ fault' = fault /\ lines' = lines
  BY DEF LogBoard, Goes, history
<2>4. \A q \in Proc : q # p => pc'[q] = pc[q] /\ fd'[q] = fd[q] /\ marks'[q] = marks[q]
  BY DEF VoteInv, VoteTypeOK, LogBoard, Goes
<2>5. fd[p] \in 1 .. made
  BY <2>3 DEF VoteInv, FileInv, Writing
<2> SUFFICES ASSUME ~ raced, ~ fault PROVE RecordInv!2'
  BY <2>3 DEF RecordInv
<2>6. ASSUME NEW n \in 1 .. made
      PROVE  \/ \E q \in Proc : pc'[q] = "write" /\ fd'[q] = n
             \/ \E q \in Proc : pc'[q] = "hist" /\ fd'[q] = n /\ marks'[q] = ToSet(lines[n])
             \/ ToSet(lines[n]) \in ToSet(hist')
  BY <2>2, <2>3, <2>4 DEF VoteInv, RecordInv
<2>7. file = 0 => made = 0 \/ \E q \in Proc : pc'[q] = "open"
  BY <2>3, <2>4 DEF VoteInv, RecordInv
<2>8. made > 0
  BY <2>5 DEF VoteInv, VoteTypeOK
<2> QED
  BY <2>3, <2>6, <2>7, <2>8 DEF RecordInv
<1>8. LastInv'
<2>1. marks[p] \in SUBSET Cand /\ hist \in Seq(SUBSET Cand)
  BY DEF VoteInv, VoteTypeOK
<2>2. /\ hist' \in Seq(SUBSET Cand) /\ hist' # <<>> /\ Last(hist') = marks[p]
      /\ ToSet(hist') = ToSet(hist) \cup {marks[p]}
  BY <2>1, AppendedHas DEF LogBoard, Appended
<2>3. pc[p] = "hist" /\ file' = file /\ overlap' = overlap /\ fault' = fault /\ lines' = lines
  BY DEF LogBoard, Goes, history
<2>4. \A q \in Proc : q # p => pc'[q] = pc[q]
  BY DEF VoteInv, VoteTypeOK, LogBoard, Goes
<2>5. pc'[p] \in {"menu", "out"}
  BY DEF VoteInv, VoteTypeOK, LogBoard, Goes
<2> SUFFICES ASSUME ~ overlap, ~ fault PROVE LastInv!2'
  BY <2>3 DEF LastInv
<2>6. \A q \in Proc : q # p => ~ Recording(q)
  BY <2>3 DEF VoteInv, LastInv, Recording
<2>7. VotedFor(file)' = marks[p]
  BY <2>3 DEF VoteInv, LastInv, VotedFor
<2> QED
  BY <2>2, <2>4, <2>5, <2>6, <2>7 DEF Recording, Writing
<1> QED
  BY <1>1, <1>2, <1>3, <1>4, <1>5, <1>6, <1>7, <1>8 DEF VoteInv

\* webcast logs the ballot.
LEMMA LogWebKeeps ==
  ASSUME VoteInv, NEW p \in Proc, LogWeb(p)
  PROVE  VoteInv'
<1>1. VoteTypeOK'
  BY VoteAssumption DEF VoteInv, LogWeb, Ends, Appended, Unknown, VoteTypeOK, Recording, Node, FileInv, Writing
<1>2. FileInv'
  BY DEF VoteInv, LogWeb, Ends, Appended, Unknown, FileInv, Writing, Node, VoteTypeOK, Recording
<1>3. LenInv'
  BY DEF VoteInv, LogWeb, Ends, Appended, Unknown, LenInv, BallotLegal, Node
<1>4. OpenInv'
  BY DEF VoteInv, LogWeb, Ends, Appended, Unknown, OpenInv, VoteTypeOK, FileInv, Writing, Node, Recording
<1>5. WriterInv'
  BY VoteAssumption DEF VoteInv, LogWeb, Ends, Appended, Unknown, WriterInv, Writing, VoteTypeOK, FileInv, Node, Recording
<1>6. StarInv'
  BY VoteAssumption DEF VoteInv, LogWeb, Ends, Appended, Unknown, StarInv, Shows, VotedFor, VoteTypeOK, FileInv, Writing, Node, Recording
<1>7. RecordInv'
<2>1. marks[p] \in SUBSET Cand /\ hist \in Seq(SUBSET Cand)
  BY DEF VoteInv, VoteTypeOK
<2>2. /\ hist' \in Seq(SUBSET Cand) /\ hist' # <<>> /\ Last(hist') = marks[p]
      /\ ToSet(hist') = ToSet(hist) \cup {marks[p]}
  BY <2>1, AppendedHas DEF LogWeb, Appended
<2>3. pc[p] = "hist" /\ made' = made /\ file' = file /\ raced' = raced /\ fault' = fault /\ lines' = lines
  BY DEF LogWeb, Goes, history
<2>4. \A q \in Proc : q # p => pc'[q] = pc[q] /\ fd'[q] = fd[q] /\ marks'[q] = marks[q]
  BY DEF VoteInv, VoteTypeOK, LogWeb, Ends
<2>5. fd[p] \in 1 .. made
  BY <2>3 DEF VoteInv, FileInv, Writing
<2> SUFFICES ASSUME ~ raced, ~ fault PROVE RecordInv!2'
  BY <2>3 DEF RecordInv
<2>6. ASSUME NEW n \in 1 .. made
      PROVE  \/ \E q \in Proc : pc'[q] = "write" /\ fd'[q] = n
             \/ \E q \in Proc : pc'[q] = "hist" /\ fd'[q] = n /\ marks'[q] = ToSet(lines[n])
             \/ ToSet(lines[n]) \in ToSet(hist')
  BY <2>2, <2>3, <2>4 DEF VoteInv, RecordInv
<2>7. file = 0 => made = 0 \/ \E q \in Proc : pc'[q] = "open"
  BY <2>3, <2>4 DEF VoteInv, RecordInv
<2>8. made > 0
  BY <2>5 DEF VoteInv, VoteTypeOK
<2> QED
  BY <2>3, <2>6, <2>7, <2>8 DEF RecordInv
<1>8. LastInv'
<2>1. marks[p] \in SUBSET Cand /\ hist \in Seq(SUBSET Cand)
  BY DEF VoteInv, VoteTypeOK
<2>2. /\ hist' \in Seq(SUBSET Cand) /\ hist' # <<>> /\ Last(hist') = marks[p]
      /\ ToSet(hist') = ToSet(hist) \cup {marks[p]}
  BY <2>1, AppendedHas DEF LogWeb, Appended
<2>3. pc[p] = "hist" /\ file' = file /\ overlap' = overlap /\ fault' = fault /\ lines' = lines
  BY DEF LogWeb, Goes, history
<2>4. \A q \in Proc : q # p => pc'[q] = pc[q]
  BY DEF VoteInv, VoteTypeOK, LogWeb, Ends
<2>5. pc'[p] \in {"menu", "out"}
  BY DEF VoteInv, VoteTypeOK, LogWeb, Ends
<2> SUFFICES ASSUME ~ overlap, ~ fault PROVE LastInv!2'
  BY <2>3 DEF LastInv
<2>6. \A q \in Proc : q # p => ~ Recording(q)
  BY <2>3 DEF VoteInv, LastInv, Recording
<2>7. VotedFor(file)' = marks[p]
  BY <2>3 DEF VoteInv, LastInv, VotedFor
<2> QED
  BY <2>2, <2>4, <2>5, <2>6, <2>7 DEF Recording, Writing
<1> QED
  BY <1>1, <1>2, <1>3, <1>4, <1>5, <1>6, <1>7, <1>8 DEF VoteInv

\* A process ends within record().
LEMMA DieKeeps ==
  ASSUME VoteInv, NEW p \in Proc, Die(p)
  PROVE  VoteInv'
<1>1. VoteTypeOK'
  BY VoteAssumption DEF VoteInv, Die, Ends, disk, Recording, Unknown, VoteTypeOK, Node, FileInv, Writing
<1>2. FileInv'
  BY DEF VoteInv, Die, Ends, disk, Recording, Unknown, FileInv, Writing, Node, VoteTypeOK
<1>3. LenInv'
  BY DEF VoteInv, Die, Ends, disk, Recording, Unknown, LenInv, BallotLegal, Node
<1>4. OpenInv'
  BY DEF VoteInv, Die, Ends, disk, Recording, Unknown, OpenInv, VoteTypeOK, FileInv, Writing, Node
<1>5. WriterInv'
  BY VoteAssumption DEF VoteInv, Die, Ends, disk, Recording, Unknown, WriterInv, Writing, VoteTypeOK, FileInv, Node
<1>6. StarInv'
  BY VoteAssumption DEF VoteInv, Die, Ends, disk, Recording, Unknown, StarInv, Shows, VotedFor, VoteTypeOK, FileInv, Writing, Node
<1>7. RecordInv'
  BY DEF VoteInv, Die, Ends, disk, Recording, Unknown, RecordInv, Node, VoteTypeOK, FileInv, Writing
<1>8. LastInv'
  BY DEF VoteInv, Die, Ends, disk, Recording, Unknown, LastInv, Writing, VotedFor, VoteTypeOK, FileInv, Node
<1> QED
  BY <1>1, <1>2, <1>3, <1>4, <1>5, <1>6, <1>7, <1>8 DEF VoteInv

\* Every step, and stuttering.
LEMMA NextKeeps ==
  ASSUME VoteInv, [Next]_vars
  PROVE  VoteInv'
<1>1. CASE PollsClose
  BY <1>1, PollsCloseKeeps
<1>2. ASSUME NEW p \in Proc, Step(p)
      PROVE  VoteInv'
  BY <1>2, EnterBoardKeeps, EnterWebKeeps, CancelKeeps, LeaveKeeps, UnlinkKeeps, OpenKeeps,
     WriteKeeps, WriteFailsKeeps, LogBoardKeeps, LogWebKeeps, DieKeeps DEF Step
<1>3. CASE UNCHANGED vars
  <2> USE <1>3 DEF vars
  <2>1. VoteTypeOK'
    BY DEF VoteInv, VoteTypeOK, Recording
  <2>2. FileInv'
    BY DEF VoteInv, FileInv, Writing
  <2>3. LenInv'
    BY DEF VoteInv, LenInv, BallotLegal
  <2>4. OpenInv'
    BY DEF VoteInv, OpenInv
  <2>5. WriterInv'
    BY DEF VoteInv, WriterInv, Writing
  <2>6. StarInv'
    BY DEF VoteInv, StarInv, Shows, VotedFor
  <2>7. RecordInv'
    BY DEF VoteInv, RecordInv
  <2>8. LastInv'
    BY DEF VoteInv, LastInv, Recording, Writing, VotedFor
  <2> QED
    BY <2>1, <2>2, <2>3, <2>4, <2>5, <2>6, <2>7, <2>8 DEF VoteInv
<1> QED
  BY <1>1, <1>2, <1>3 DEF Next

\* No process runs and no file exists at first.
LEMMA InitHolds ==
  ASSUME Init
  PROVE  VoteInv
<1>1. Cardinality(ToSet(<<>>)) = 0
  <2>1. ToSet(<<>>) = {}
    BY DEF ToSet
  <2> QED
    BY <2>1, FS_EmptySet, Zenon
<1>2. VoteTypeOK
  <2>1. lines \in [Node -> Seq(Cand)] /\ hist \in Seq(SUBSET Cand)
    BY DEF Init
  <2>2. \A p \in Proc : ~ Recording(p)
    BY DEF Init, Recording
  <2>3. /\ made \in 0 .. MaxCasts /\ file \in 0 .. made
        /\ fd \in [Proc -> 0 .. made] /\ mine \in [Proc -> -1 .. made]
    BY VoteAssumption DEF Init, Unknown
  <2> QED
    BY <2>1, <2>2, <2>3 DEF Init, VoteTypeOK
<1>3. FileInv
  BY DEF Init, FileInv, Writing
<1>4. LenInv
  <2>1. \A n \in Node : lines[n] = <<>>
    BY DEF Init
  <2> QED
    BY <1>1, <2>1, VoteAssumption DEF LenInv, BallotLegal
<1>5. OpenInv /\ WriterInv /\ StarInv
  BY DEF Init, OpenInv, WriterInv, StarInv, Writing, Shows, Unknown
<1>6. RecordInv /\ LastInv
  BY DEF Init, RecordInv, LastInv, Recording, Writing
<1> QED
  BY <1>2, <1>3, <1>4, <1>5, <1>6 DEF VoteInv

-----------------------------------------------------------------------------
(* The theorems.                                                           *)

\* The inductive invariant holds in every reachable state.
THEOREM VoteInvariant == Spec => []VoteInv
<1> QED
  BY InitHolds, NextKeeps, PTL DEF Spec

\* Types; what a process in record() writes is a ballot the voter may cast.
THEOREM VoteTypes == Spec => []VoteTypeOK
<1>1. VoteInv => VoteTypeOK
  BY DEF VoteInv
<1> QED
  BY <1>1, VoteInvariant, PTL

\* A ballot file never has more lines than there are positions, however casts of
\* the voter meet, die or fail, nor a candidate twice but after a race.
THEOREM BallotsAreLegal == Spec => []BallotLegal
<1>1. VoteInv => BallotLegal
  BY DEF VoteInv, LenInv
<1> QED
  BY <1>1, VoteInvariant, PTL

\* With nobody in record(), the ballot that counts is on record, and is not missing
\* if any is, unless two casts were between unlink() and fopen() at once, or one
\* was cut short.
THEOREM KeptAreOnRecord == Spec => []KeptIsOnRecord
<1>1. VoteInv => KeptIsOnRecord
  <2> SUFFICES ASSUME VoteInv, \A p \in Proc : ~ Recording(p), ~ fault, ~ raced
               PROVE  (file = 0 <=> hist = <<>>) /\ (file # 0 => VotedFor(file) \in ToSet(hist))
    BY DEF KeptIsOnRecord
  <2>1. \A p \in Proc : pc[p] \notin {"open", "write", "hist"}
    BY DEF Recording
  <2>2. \A n \in 1 .. made : ToSet(lines[n]) \in ToSet(hist)
    BY <2>1 DEF VoteInv, RecordInv
  <2>3. file = 0 => made = 0
    BY <2>1 DEF VoteInv, RecordInv
  <2>4. file # 0 => file \in 1 .. made
    BY DEF VoteInv, VoteTypeOK
  <2>5. hist # <<>> => made > 0
    BY DEF VoteInv, RecordInv
  <2>6. hist = <<>> => ToSet(hist) = {}
    BY DEF ToSet
  <2> QED
    BY <2>2, <2>3, <2>4, <2>5, <2>6 DEF VotedFor
<1> QED
  BY <1>1, VoteInvariant, PTL

\* With nobody in record(), the last line of the history is the ballot that counts,
\* unless casts overlapped or one was cut short.
THEOREM HistoryEnds == Spec => []HistoryEndsWithBallot
<1>1. VoteInv => HistoryEndsWithBallot
  BY DEF VoteInv, LastInv, HistoryEndsWithBallot
<1> QED
  BY <1>1, VoteInvariant, PTL

\* What the board marks is the ballot that counts, also after cancelled votes,
\* unless another process has replaced the file since.
THEOREM StarsAreTrue == Spec => []StarsAreTheVote
<1>1. VoteInv => StarsAreTheVote
  BY DEF VoteInv, VoteTypeOK, StarInv, Shows, StarsAreTheVote
<1> QED
  BY <1>1, VoteInvariant, PTL
=============================================================================
