---------------------------- MODULE WrtTmpProofs ----------------------------
(* The types of WrtTmp, that a tty has one entry in the wrttmp file, that the *)
(* entry shows what runs on the tty, and that modes are put back.             *)
EXTENDS WrtTmp, FiniteSetTheorems, WellFoundedInduction, TLAPS

Alive(p) == proc[p].pc # "out"

\* Its own entry has been written.
Wrote(p) == proc[p].pc \in {"talk", "shell", "stopped", "wake"}

\* A process remembers an entry of its tty, and has written it before it reads it.
PosInv ==
  \A p \in Proc : /\ Alive(p) => proc[p].mywrt.line = Tty[p]
                  /\ Wrote(p) => proc[p].mypos <= Len(file)

\* A slot that is used, or about to be used, belongs to one tty, and a tty whose
\* entry is still to be made has none.
SlotInv ==
  /\ \A i, j \in 1 .. Len(file) : file[i].line = file[j].line => i = j
  /\ \A p \in Proc : Alive(p) =>
       /\ proc[p].mypos <= Len(file) => file[proc[p].mypos].line = Tty[p]
       /\ proc[p].mypos = Len(file) + 1 => \A i \in 1 .. Len(file) : file[i].line # Tty[p]
  /\ \A p, q \in Proc : Alive(p) /\ Alive(q) /\ proc[p].mypos = proc[q].mypos => Tty[p] = Tty[q]

IInv == WrtTypeOK /\ PosInv /\ (raced \/ SlotInv)

\* What every action but Start does to the processes and to the file.
Keeps ==
  \A q \in Proc : \/ proc'[q].pc = "out"
                  \/ /\ Alive(q)
                     /\ proc'[q].mypos = proc[q].mypos
                     /\ proc'[q].mywrt.line = proc[q].mywrt.line
Writes ==
  \/ UNCHANGED file
  \/ \E p \in Proc, e \in Entry : Alive(p) /\ e.line = Tty[p] /\ Put(p, e)
NewlyWrote == \A q \in Proc : Wrote(q)' => Wrote(q) \/ proc[q].mypos <= Len(file')

\* The types, without the range of mypos.
Types ==
  /\ owner \in [Line -> User \cup {NoUser}] /\ time \in [Line -> Nat]
  /\ perm \in [Line -> BOOLEAN] /\ proc \in [Proc -> Process]
  /\ want \in [Line -> [perm : BOOLEAN, rec : {"y", "n"}]]
  /\ upset \subseteq Line /\ raced \in BOOLEAN

-----------------------------------------------------------------------------
(* Writing an entry.                                                       *)

\* write() at mypos replaces an entry or adds one at the end.
LEMMA PutWrites ==
  ASSUME WrtTypeOK, NEW p \in Proc, Alive(p), NEW e \in Entry, Put(p, e)
  PROVE  /\ file' \in Seq(Entry)
         /\ \/ /\ proc[p].mypos \in 1 .. Len(file) /\ Len(file') = Len(file)
            \/ /\ proc[p].mypos = Len(file) + 1 /\ Len(file') = Len(file) + 1
         /\ \A i \in 1 .. Len(file') : file'[i] = IF i = proc[p].mypos THEN e ELSE file[i]
<1> DEFINE m == proc[p].mypos
<1>1. m \in 1 .. Len(file) + 1 /\ file \in Seq(Entry) /\ Len(file) \in Nat
  BY DEF WrtTypeOK, Alive
<1>2. CASE m = Len(file) + 1
  <2>1. file' = Append(file, e)
    BY <1>2 DEF Put
  <2>. QED
    BY <1>1, <1>2, <2>1
<1>3. CASE m # Len(file) + 1
  <2>1. file' = [file EXCEPT ![m] = e] /\ m \in 1 .. Len(file)
    BY <1>1, <1>3 DEF Put
  <2>. QED
    BY <1>1, <2>1
<1>. QED
  BY <1>2, <1>3

\* Such a step leaves each slot to its tty.
LEMMA StepKeepsSlots ==
  ASSUME IInv, Keeps, Writes, NewlyWrote, Types', raced' = raced, EarlyTypeOK'
  PROVE  IInv'
<1>1. /\ file' \in Seq(Entry) /\ Len(file) \in Nat /\ Len(file') \in Nat
      /\ Len(file') >= Len(file)
  BY PutWrites DEF Writes, IInv, WrtTypeOK
<1>2. WrtTypeOK'
  <2>1. \A q \in Proc : proc'[q].pc # "out" => proc'[q].mypos \in 1 .. Len(file') + 1
    BY <1>1 DEF Keeps, Alive, IInv, WrtTypeOK
  <2>. QED
    BY <1>1, <2>1 DEF Types, WrtTypeOK
<1>3. PosInv'
  <2>. SUFFICES ASSUME NEW q \in Proc
                PROVE  /\ Alive(q)' => proc'[q].mywrt.line = Tty[q]
                       /\ Wrote(q)' => proc'[q].mypos <= Len(file')
    BY DEF PosInv
  <2>1. Alive(q)' => proc'[q].mywrt.line = Tty[q]
    BY DEF Keeps, Alive, IInv, PosInv
  <2>2. ASSUME Wrote(q)' PROVE proc'[q].mypos <= Len(file')
    <3>1. Alive(q) /\ proc'[q].mypos = proc[q].mypos
      BY <2>2 DEF Keeps, Wrote
    <3>2. proc[q].mypos \in Nat
      BY <3>1 DEF IInv, WrtTypeOK, Alive
    <3>3. Wrote(q) => proc[q].mypos <= Len(file)
      BY DEF IInv, PosInv
    <3>. QED
      BY <1>1, <2>2, <3>1, <3>2, <3>3 DEF NewlyWrote
  <2>. QED
    BY <2>1, <2>2
<1>4. ASSUME ~ raced, Keeps PROVE SlotInv'
  <2>1. SlotInv
    BY <1>4 DEF IInv
  <2>2. \A q \in Proc : Alive(q)' => /\ Alive(q) /\ proc'[q].mypos = proc[q].mypos
                                     /\ proc[q].mypos \in 1 .. Len(file) + 1
    BY <1>4 DEF Keeps, Alive, IInv, WrtTypeOK
  <2>3. CASE UNCHANGED file
    BY <2>1, <2>2, <2>3 DEF SlotInv
  <2>4. CASE \E p \in Proc, e \in Entry : Alive(p) /\ e.line = Tty[p] /\ Put(p, e)
    <3>1. PICK p \in Proc, e \in Entry : Alive(p) /\ e.line = Tty[p] /\ Put(p, e)
      BY <2>4
    <3> DEFINE m == proc[p].mypos
    <3>2. \/ m \in 1 .. Len(file) /\ Len(file') = Len(file)
          \/ m = Len(file) + 1 /\ Len(file') = Len(file) + 1
      BY <3>1, PutWrites DEF IInv
    <3>3. \A i \in 1 .. Len(file') : file'[i] = IF i = m THEN e ELSE file[i]
      BY <3>1, PutWrites DEF IInv
    <3>4. \A i \in 1 .. Len(file) : file'[i].line = file[i].line
      BY <1>1, <2>1, <3>1, <3>2, <3>3 DEF SlotInv
    <3>5. \A i \in 1 .. Len(file') : i <= Len(file) \/ (i = m /\ file'[i].line = Tty[p])
      BY <1>1, <3>1, <3>2, <3>3
    <3>6. m = Len(file) + 1 => \A i \in 1 .. Len(file) : file[i].line # Tty[p]
      BY <2>1, <3>1 DEF SlotInv
    <3>7. \A i, j \in 1 .. Len(file') : file'[i].line = file'[j].line => i = j
      <4>. SUFFICES ASSUME NEW i \in 1 .. Len(file'), NEW j \in 1 .. Len(file'),
                           file'[i].line = file'[j].line
                    PROVE  i = j
        OBVIOUS
      <4>1. CASE i <= Len(file) /\ j <= Len(file)
        BY <1>1, <2>1, <3>4, <4>1 DEF SlotInv
      <4>2. CASE i <= Len(file) /\ j > Len(file)
        BY <1>1, <3>2, <3>4, <3>5, <3>6, <4>2
      <4>3. CASE i > Len(file) /\ j <= Len(file)
        BY <1>1, <3>2, <3>4, <3>5, <3>6, <4>3
      <4>4. CASE i > Len(file) /\ j > Len(file)
        BY <1>1, <3>5, <4>4
      <4>. QED
        BY <1>1, <4>1, <4>2, <4>3, <4>4
    <3>8. ASSUME NEW q \in Proc, Alive(q)'
          PROVE  /\ proc'[q].mypos <= Len(file') => file'[proc'[q].mypos].line = Tty[q]
                 /\ proc'[q].mypos = Len(file') + 1 => \A i \in 1 .. Len(file') : file'[i].line # Tty[q]
      <4> DEFINE n == proc[q].mypos
      <4>1. Alive(q) /\ proc'[q].mypos = n /\ n \in 1 .. Len(file) + 1
        BY <2>2, <3>8
      <4>2. n = m => Tty[q] = Tty[p]
        BY <2>1, <3>1, <4>1 DEF SlotInv
      <4>3. n <= Len(file) => file[n].line = Tty[q]
        BY <2>1, <4>1 DEF SlotInv
      <4>4. n = Len(file) + 1 => \A i \in 1 .. Len(file) : file[i].line # Tty[q]
        BY <2>1, <4>1 DEF SlotInv
      <4>5. ASSUME n <= Len(file') PROVE file'[n].line = Tty[q]
        <5>1. n \in 1 .. Len(file')
          BY <1>1, <4>1, <4>5
        <5>2. CASE n <= Len(file)
          BY <1>1, <3>4, <4>1, <4>3, <5>2
        <5>3. CASE ~ (n <= Len(file))
          BY <3>5, <4>2, <5>1, <5>3
        <5>. QED
          BY <5>2, <5>3
      <4>6. ASSUME n = Len(file') + 1 PROVE \A i \in 1 .. Len(file') : file'[i].line # Tty[q]
        <5>1. Len(file') = Len(file) /\ n = Len(file) + 1
          BY <1>1, <4>1, <4>6
        <5>. QED
          BY <3>4, <4>4, <5>1
      <4>. QED
        BY <4>1, <4>5, <4>6
    <3>9. \A q, r \in Proc : Alive(q)' /\ Alive(r)' /\ proc'[q].mypos = proc'[r].mypos => Tty[q] = Tty[r]
      BY <2>1, <2>2 DEF SlotInv
    <3>. QED
      BY <3>7, <3>8, <3>9 DEF SlotInv
  <2>. QED
    BY <2>3, <2>4 DEF Writes
<1>. QED
  BY <1>2, <1>3, <1>4 DEF IInv

-----------------------------------------------------------------------------
(* What the parts of an action do.                                         *)

LEMMA IdleType ==
  ASSUME NEW p \in Proc
  PROVE  Idle \in Process
<1>1. (CHOOSE l \in Line : TRUE) \in Line
  BY WrtAssumption
<1>2. Default(CHOOSE l \in Line : TRUE, 0) \in Entry
  BY <1>1 DEF Default, Entry, Record
<1>3. Idle.cmd \in Commands
  BY DEF Idle, Commands
<1>. QED
  BY <1>2, <1>3 DEF Idle, Process

LEMMA AliveType ==
  ASSUME IInv, NEW p \in Proc
  PROVE  /\ proc[p] \in Process /\ Tty[p] \in Line
         /\ proc[p].mywrt \in Entry /\ proc[p].cmd \in Commands
         /\ Alive(p) => proc[p].mywrt.line = Tty[p]
  BY WrtAssumption DEF IInv, WrtTypeOK, PosInv, Process

LEMMA ChmodType ==
  ASSUME IInv, NEW p \in Proc, NEW v \in BOOLEAN, Chmod(p, v)
  PROVE  perm' \in [Line -> BOOLEAN]
  BY AliveType DEF Chmod, IInv, WrtTypeOK

LEMMA MarkType ==
  ASSUME IInv, NEW p \in Proc, NEW a, Mark(p, a)
  PROVE  upset' \subseteq Line
  BY AliveType DEF Mark, IInv, WrtTypeOK

LEMMA PutFits ==
  ASSUME IInv, NEW p \in Proc, Alive(p), NEW e \in Entry, e.line = Tty[p], Put(p, e)
  PROVE  Writes /\ proc[p].mypos <= Len(file')
<1>1. Writes
  BY DEF Writes
<1>2. Len(file) \in Nat
  BY DEF IInv, WrtTypeOK
<1>. QED
  BY <1>1, <1>2, PutWrites DEF IInv

\* The entry that is in place while a process runs.
LEMMA TempEntry ==
  ASSUME IInv, NEW p \in Proc, Alive(p)
  PROVE  /\ Temp(p) \in Entry /\ Temp(p).line = Tty[p]
         /\ \A u \in User : /\ [Temp(p) EXCEPT !.what = u] \in Entry
                            /\ [Temp(p) EXCEPT !.what = u].line = Tty[p]
<1> DEFINE w == proc[p].mywrt
           e == [w EXCEPT !.rec = IF proc[p].cmd.post THEN "a" ELSE @]
<1>1. w \in Entry /\ w.line = Tty[p] /\ proc[p].him \in User \cup {NoUser}
  BY AliveType DEF Process
<1>2. e \in Entry /\ e.line = Tty[p]
  BY <1>1 DEF Entry, Record
<1>3. [e EXCEPT !.what = Command] \in Entry /\ [e EXCEPT !.what = Command].line = Tty[p]
  BY <1>2 DEF Entry
<1>4. /\ [e EXCEPT !.what = proc[p].him, !.pid = p] \in Entry
      /\ [e EXCEPT !.what = proc[p].him, !.pid = p].line = Tty[p]
  BY <1>1, <1>2 DEF Entry
<1>5. Temp(p) \in Entry /\ Temp(p).line = Tty[p]
  BY <1>3, <1>4 DEF Temp
<1>. QED
  BY <1>5 DEF Entry

\* Putting the old entry and mode back.
LEMMA RestoreWrites ==
  ASSUME IInv, NEW p \in Proc, Alive(p), Restore(p)
  PROVE  Writes /\ perm' \in [Line -> BOOLEAN]
<1>1. proc[p].mywrt \in Entry /\ proc[p].mywrt.line = Tty[p] /\ proc[p].myperm \in BOOLEAN
  BY AliveType DEF Process
<1>2. Put(p, proc[p].mywrt)
  BY DEF Restore, PutBack
<1>3. perm' \in [Line -> BOOLEAN]
  BY <1>1, ChmodType DEF Restore, PutBack, IInv, WrtTypeOK
<1>. QED
  BY <1>1, <1>2, <1>3, PutFits

\* A process that goes on has its slot and its tty as before.
LEMMA BecomesKeeps ==
  ASSUME IInv, NEW p \in Proc, Alive(p), NEW r \in Process, Becomes(p, r),
         r.mypos = proc[p].mypos, r.mywrt.line = proc[p].mywrt.line,
         Wrote(p) \/ proc[p].mypos <= Len(file')
  PROVE  proc' \in [Proc -> Process] /\ Keeps /\ NewlyWrote
<1>1. proc' = [proc EXCEPT ![p] = r] /\ proc \in [Proc -> Process]
  BY DEF Becomes, IInv, WrtTypeOK
<1>2. \A q \in Proc : q # p => proc'[q] = proc[q]
  BY <1>1
<1>3. Keeps
  BY <1>1, <1>2 DEF Keeps, Alive
<1>4. NewlyWrote
  BY <1>1, <1>2 DEF NewlyWrote, Wrote
<1>. QED
  BY <1>1, <1>3, <1>4

\* The others are not touched when some processes end.
LEMMA EndsKeeps ==
  ASSUME IInv, NEW p \in Proc, NEW S \in SUBSET Proc, Ends(S)
  PROVE  proc' \in [Proc -> Process] /\ Keeps /\ NewlyWrote
<1>1. proc \in [Proc -> Process] /\ Idle \in Process
  BY IdleType DEF IInv, WrtTypeOK
<1>2. \A q \in Proc : proc'[q] = IF q \in S THEN Idle ELSE [proc[q] EXCEPT !.above = @ \ S]
  BY DEF Ends
<1>3. \A q \in Proc : [proc[q] EXCEPT !.above = @ \ S] \in Process
  BY <1>1 DEF Process
<1>4. \A q \in Proc : \/ proc'[q].pc = "out"
                      \/ /\ proc'[q].pc = proc[q].pc
                         /\ proc'[q].mypos = proc[q].mypos
                         /\ proc'[q].mywrt = proc[q].mywrt
  <2>. TAKE q \in Proc
  <2>1. CASE q \in S
    <3>1. proc'[q] = Idle
      BY <1>2, <2>1
    <3>2. Idle.pc = "out"
      BY DEF Idle
    <3>. QED
      BY <3>1, <3>2
  <2>2. CASE q \notin S
    <3>1. proc'[q] = [proc[q] EXCEPT !.above = @ \ S] /\ proc[q] \in Process
      BY <1>1, <1>2, <2>2
    <3>. QED
      BY <3>1 DEF Process
  <2>. QED
    BY <2>1, <2>2
<1>5. proc' \in [Proc -> Process]
  BY <1>1, <1>2, <1>3 DEF Ends
<1>6. Keeps
  BY <1>4 DEF Keeps, Alive
<1>7. NewlyWrote
  BY <1>4 DEF NewlyWrote, Wrote
<1>. QED
  BY <1>5, <1>6, <1>7

\* What update_modes() reads is there, and is a preference.
LEMMA UpdatedType ==
  ASSUME IInv, NEW p \in Proc, Wrote(p)
  PROVE  /\ Updated(p) \in Process
         /\ Updated(p).mypos = proc[p].mypos
         /\ Updated(p).mywrt.line = proc[p].mywrt.line
<1>1. proc[p] \in Process /\ Tty[p] \in Line /\ perm[Tty[p]] \in BOOLEAN
  BY AliveType DEF IInv, WrtTypeOK
<1>2. proc[p].mypos \in 1 .. Len(file)
  BY DEF IInv, WrtTypeOK, PosInv, Wrote
<1>3. file[proc[p].mypos] \in Entry
  BY <1>2 DEF IInv, WrtTypeOK
<1>4. file[proc[p].mypos].rec \in Record /\ proc[p].mywrt \in Entry
  BY <1>1, <1>3 DEF Entry, Process
<1>5. Updated(p) \in Process
  BY <1>1, <1>3, <1>4 DEF Updated, Process, Entry
<1>6. Updated(p).mypos = proc[p].mypos
  BY <1>1 DEF Updated, Process
<1>7. Updated(p).mywrt.line = proc[p].mywrt.line
  BY <1>1, <1>4 DEF Updated, Process, Entry
<1>. QED
  BY <1>5, <1>6, <1>7

-----------------------------------------------------------------------------
(* The actions.                                                            *)

StepFacts == Keeps /\ Writes /\ NewlyWrote /\ Types' /\ raced' = raced

LEMMA LeaveStep ==
  ASSUME IInv, NEW p \in Proc, Leave(p)
  PROVE  StepFacts
  BY EndsKeeps DEF Leave, StepFacts, Types, Writes, IInv, WrtTypeOK, utmp

LEMMA SetPermsType ==
  ASSUME IInv, NEW p \in Proc, SetPerms(p)
  PROVE  perm' \in [Line -> BOOLEAN]
<1>1. (proc[p].cmd.tmp = "y") \in BOOLEAN /\ perm \in [Line -> BOOLEAN]
  BY DEF IInv, WrtTypeOK
<1>. QED
  BY <1>1, ChmodType DEF SetPerms

LEMMA SetModesStep ==
  ASSUME IInv, NEW p \in Proc, SetModes(p)
  PROVE  StepFacts
<1> DEFINE r == proc[p]
<1>1. Alive(p) /\ r \in Process /\ r.him \in User \cup {NoUser}
  BY AliveType DEF SetModes, Alive, Process
<1>2. PICK him \in IF r.pc = "wake" THEN {r.him} ELSE {owner[l] : l \in Line} \ {NoUser} :
        /\ Becomes(p, [r EXCEPT !.him = him, !.fixed = TRUE,
                                !.pc = IF @ = "wake" THEN r.was ELSE "talk", !.was = "talk"])
        /\ Put(p, [Temp(p) EXCEPT !.what = him])
  BY DEF SetModes
<1>3. him \in User \cup {NoUser}
  BY <1>1, <1>2 DEF IInv, WrtTypeOK
<1> DEFINE n == [r EXCEPT !.him = him, !.fixed = TRUE,
                          !.pc = IF @ = "wake" THEN r.was ELSE "talk", !.was = "talk"]
           e == [Temp(p) EXCEPT !.what = him]
<1>4. n \in Process /\ n.mypos = r.mypos /\ n.mywrt = r.mywrt
  BY <1>1, <1>3 DEF Process
<1>5. e \in Entry /\ e.line = Tty[p]
  BY <1>1, <1>3, TempEntry DEF Entry
<1>6. Writes /\ r.mypos <= Len(file')
  BY <1>1, <1>2, <1>5, PutFits
<1>7. proc' \in [Proc -> Process] /\ Keeps /\ NewlyWrote
  BY <1>1, <1>2, <1>4, <1>6, BecomesKeeps
<1>8. perm' \in [Line -> BOOLEAN] /\ upset' \subseteq Line
  BY SetPermsType, MarkType DEF SetModes
<1>. QED
  BY <1>6, <1>7, <1>8 DEF SetModes, StepFacts, Types, IInv, WrtTypeOK, utmp

LEMMA TelStep ==
  ASSUME IInv, NEW p \in Proc, Tel(p)
  PROVE  StepFacts
<1>1. Alive(p) /\ proc[p].mywrt \in Entry /\ proc[p].mywrt.line = Tty[p]
  BY AliveType DEF Tel, Alive
<1>2. Writes
  BY <1>1, PutFits DEF Tel, Writes
<1>3. proc' \in [Proc -> Process] /\ Keeps /\ NewlyWrote
  BY EndsKeeps DEF Tel
<1>4. upset' \subseteq Line
  BY MarkType DEF Tel
<1>. QED
  BY <1>2, <1>3, <1>4 DEF Tel, StepFacts, Types, IInv, WrtTypeOK, utmp

LEMMA AminStep ==
  ASSUME IInv, NEW p \in Proc, Amin(p)
  PROVE  StepFacts
<1> DEFINE n == [proc[p] EXCEPT !.pc = "shell", !.fixed = TRUE]
<1>1. Alive(p) /\ proc[p] \in Process
  BY AliveType DEF Amin, Alive
<1>2. n \in Process /\ n.mypos = proc[p].mypos /\ n.mywrt = proc[p].mywrt
  BY <1>1 DEF Process
<1>3. Writes /\ proc[p].mypos <= Len(file')
  BY <1>1, TempEntry, PutFits DEF Amin
<1>4. proc' \in [Proc -> Process] /\ Keeps /\ NewlyWrote
  BY <1>1, <1>2, <1>3, BecomesKeeps DEF Amin
<1>5. perm' \in [Line -> BOOLEAN] /\ upset' \subseteq Line
  BY SetPermsType, MarkType DEF Amin
<1>. QED
  BY <1>3, <1>4, <1>5 DEF Amin, StepFacts, Types, IInv, WrtTypeOK, utmp

LEMMA MesgStep ==
  ASSUME IInv, NEW p \in Proc, Mesg(p)
  PROVE  StepFacts
<1> DEFINE l == Tty[p]
           r == proc[p]
<1>1. /\ Alive(p) /\ r \in Process /\ l \in Line /\ r.mywrt \in Entry /\ r.mywrt.line = l
      /\ r.cmd \in Commands
  BY AliveType DEF Mesg, Alive
<1>2. r.cmd.perms \in {{}} \cup {{v} : v \in BOOLEAN} /\ r.cmd.recs \in {{}, {"y"}, {"n"}}
  BY <1>1 DEF Commands
<1>3. Writes
  <2>1. CASE UNCHANGED file
    BY <2>1 DEF Writes
  <2>2. CASE \E c \in IF r.cmd.recs = {} THEN {r.mywrt.rec} ELSE r.cmd.recs :
               Put(p, [r.mywrt EXCEPT !.rec = c])
    <3>1. PICK c \in IF r.cmd.recs = {} THEN {r.mywrt.rec} ELSE r.cmd.recs :
                 Put(p, [r.mywrt EXCEPT !.rec = c])
      BY <2>2
    <3>2. c \in Record
      BY <1>1, <1>2, <3>1 DEF Entry, Record
    <3>3. [r.mywrt EXCEPT !.rec = c] \in Entry /\ [r.mywrt EXCEPT !.rec = c].line = l
      BY <1>1, <3>2 DEF Entry
    <3>. QED
      BY <1>1, <3>1, <3>3, PutFits
  <2>. QED
    BY <2>1, <2>2 DEF Mesg
<1>4. perm' \in [Line -> BOOLEAN]
  <2>1. CASE r.cmd.perms = {}
    BY <2>1 DEF Mesg, IInv, WrtTypeOK
  <2>2. CASE r.cmd.perms # {}
    <3>1. \A v \in r.cmd.perms : v \in BOOLEAN
      BY <1>2
    <3>2. PICK v \in r.cmd.perms : Chmod(p, v)
      BY <2>2 DEF Mesg
    <3>. QED
      BY <3>1, <3>2, ChmodType
  <2>. QED
    BY <2>1, <2>2
<1>5. want' \in [Line -> [perm : BOOLEAN, rec : {"y", "n"}]]
  <2> DEFINE w == want[l]
             v == IF r.keep.perm THEN CHOOSE x \in BOOLEAN : Sets(r.cmd.perms, x, w.perm) ELSE w.perm
             c == IF r.keep.rec THEN CHOOSE x \in {"y", "n"} : Sets(r.cmd.recs, x, w.rec) ELSE w.rec
  <2>1. want \in [Line -> [perm : BOOLEAN, rec : {"y", "n"}]] /\ w.perm \in BOOLEAN /\ w.rec \in {"y", "n"}
    BY <1>1 DEF IInv, WrtTypeOK
  <2>2. \E x \in BOOLEAN : Sets(r.cmd.perms, x, w.perm)
    BY <1>2, <2>1 DEF Sets
  <2>3. \E x \in {"y", "n"} : Sets(r.cmd.recs, x, w.rec)
    BY <1>2, <2>1 DEF Sets
  <2>4. v \in BOOLEAN
    BY <2>1, <2>2
  <2>5. c \in {"y", "n"}
    BY <2>1, <2>3
  <2>6. want' = want \/ want' = [want EXCEPT ![l].perm = v, ![l].rec = c]
    BY <1>1, <2>1 DEF Mesg
  <2>. HIDE DEF v, c
  <2>. QED
    BY <1>1, <2>1, <2>4, <2>5, <2>6
<1>6. proc' \in [Proc -> Process] /\ Keeps /\ NewlyWrote
  <2>1. CASE r.cmd.disconnect
    <3> DEFINE n == [r EXCEPT !.pc = "scan", !.slot = 1, !.him = owner[l]]
    <3>1. n \in Process /\ n.mypos = r.mypos /\ n.mywrt = r.mywrt /\ n.pc = "scan"
      BY <1>1 DEF Process, IInv, WrtTypeOK
    <3>2. Becomes(p, n)
      BY <2>1 DEF Mesg
    <3>3. proc' = [proc EXCEPT ![p] = n] /\ proc \in [Proc -> Process]
      BY <3>2 DEF Becomes, IInv, WrtTypeOK
    <3>. QED
      BY <1>1, <3>1, <3>3 DEF Keeps, NewlyWrote, Alive, Wrote
  <2>2. CASE ~ r.cmd.disconnect
    BY <2>2, EndsKeeps DEF Mesg
  <2>. QED
    BY <2>1, <2>2
<1>7. upset' \subseteq Line
  BY MarkType DEF Mesg
<1>. QED
  BY <1>3, <1>4, <1>5, <1>6, <1>7 DEF Mesg, StepFacts, Types, IInv, WrtTypeOK, utmp

LEMMA DisconnectStep ==
  ASSUME IInv, NEW p \in Proc, Disconnect(p)
  PROVE  StepFacts
<1> DEFINE r == proc[p]
           e == file[r.slot]
           n == [r EXCEPT !.slot = @ + 1]
<1>1. Alive(p) /\ r \in Process /\ r.pc = "scan" /\ proc \in [Proc -> Process]
  BY AliveType DEF Disconnect, Alive, IInv, WrtTypeOK
<1>2. n \in Process /\ n.mypos = r.mypos /\ n.mywrt = r.mywrt /\ n.pc = "scan"
  BY <1>1 DEF Process
<1> DEFINE all == [proc EXCEPT ![p] = n]
<1>3. /\ all \in [Proc -> Process]
      /\ \A q \in Proc : /\ all[q].pc = proc[q].pc /\ all[q].mypos = proc[q].mypos
                         /\ all[q].mywrt = proc[q].mywrt
  BY <1>1, <1>2
<1>4. CASE proc' = all
  BY <1>1, <1>3, <1>4 DEF Keeps, NewlyWrote, Alive, Wrote, Disconnect, StepFacts, Types, Writes,
                         IInv, WrtTypeOK, utmp
<1>5. CASE /\ Signalled(e.pid) /\ e.pid # NoProc
           /\ proc' = [all EXCEPT ![e.pid].sig = "end"]
  <2> DEFINE t == e.pid
             m == [all[t] EXCEPT !.sig = "end"]
  <2>1. ASSUME t \in Proc
        PROVE  m \in Process /\ m.pc = all[t].pc /\ m.mypos = all[t].mypos /\ m.mywrt = all[t].mywrt
    <3>1. all[t] \in Process
      BY <1>3, <2>1
    <3>. HIDE DEF all, t
    <3>. QED
      BY <3>1 DEF Process
  <2>2. /\ proc' \in [Proc -> Process]
        /\ \A q \in Proc : /\ proc'[q].pc = proc[q].pc /\ proc'[q].mypos = proc[q].mypos
                           /\ proc'[q].mywrt = proc[q].mywrt
    <3>1. proc' = [all EXCEPT ![t] = m]
      BY <1>3, <1>5
    <3>. HIDE DEF all, m, t
    <3>. QED
      BY <1>3, <2>1, <3>1
  <2>. QED
    BY <2>2 DEF Keeps, NewlyWrote, Alive, Wrote, Disconnect, StepFacts, Types, Writes,
                IInv, WrtTypeOK, utmp
<1>6. proc' = all \/ (/\ Signalled(e.pid) /\ e.pid # NoProc
                      /\ proc' = [all EXCEPT ![e.pid].sig = "end"])
  BY <1>1 DEF Disconnect
<1>. QED
  BY <1>4, <1>5, <1>6

LEMMA MesgEndsStep ==
  ASSUME IInv, NEW p \in Proc, MesgEnds(p)
  PROVE  StepFacts
  BY EndsKeeps DEF MesgEnds, StepFacts, Types, Writes, IInv, WrtTypeOK, utmp

LEMMA EscapeStep ==
  ASSUME IInv, NEW p \in Proc, Escape(p)
  PROVE  StepFacts
<1> DEFINE n == [proc[p] EXCEPT !.pc = "shell"]
<1>1. Alive(p) /\ Wrote(p) /\ proc[p] \in Process
  BY AliveType DEF Escape, Alive, Wrote
<1>2. n \in Process /\ n.mypos = proc[p].mypos /\ n.mywrt = proc[p].mywrt
  BY <1>1 DEF Process
<1>3. proc' \in [Proc -> Process] /\ Keeps /\ NewlyWrote
  BY <1>1, <1>2, BecomesKeeps DEF Escape
<1>. QED
  BY <1>3 DEF Escape, StepFacts, Types, Writes, IInv, WrtTypeOK, utmp

LEMMA ReturnStep ==
  ASSUME IInv, NEW p \in Proc, Return(p)
  PROVE  StepFacts
<1> DEFINE r == proc[p]
           u == IF r.cmd.tmp = "s" THEN Updated(p) ELSE r
           n == [u EXCEPT !.pc = "talk"]
<1>1. Alive(p) /\ Wrote(p) /\ r \in Process
  BY AliveType DEF Return, Alive, Wrote
<1>2. u \in Process /\ u.mypos = r.mypos /\ u.mywrt.line = r.mywrt.line
  BY <1>1, UpdatedType
<1>3. n \in Process /\ n.mypos = r.mypos /\ n.mywrt.line = r.mywrt.line
  <2>. HIDE DEF u
  <2>. QED
    BY <1>2 DEF Process
<1>4. Becomes(p, n)
  BY DEF Return
<1>5. proc' \in [Proc -> Process] /\ Keeps /\ NewlyWrote
  <2>. HIDE DEF n
  <2>. QED
    BY <1>1, <1>3, <1>4, BecomesKeeps
<1>6. upset' \subseteq Line
  BY MarkType DEF Return
<1>. QED
  BY <1>5, <1>6 DEF Return, StepFacts, Types, Writes, IInv, WrtTypeOK, utmp

LEMMA AminEndsStep ==
  ASSUME IInv, NEW p \in Proc, AminEnds(p)
  PROVE  StepFacts
<1>1. Writes /\ perm' \in [Line -> BOOLEAN]
  BY RestoreWrites DEF AminEnds, Alive
<1>2. proc' \in [Proc -> Process] /\ Keeps /\ NewlyWrote
  BY EndsKeeps DEF AminEnds
<1>3. upset' \subseteq Line
  BY MarkType DEF AminEnds
<1>. QED
  BY <1>1, <1>2, <1>3 DEF AminEnds, StepFacts, Types, IInv, WrtTypeOK, utmp

LEMMA ExitStep ==
  ASSUME IInv, NEW p \in Proc, Exit(p)
  PROVE  StepFacts
<1>1. Writes /\ perm' \in [Line -> BOOLEAN]
  BY RestoreWrites DEF Exit, Alive
<1>2. proc' \in [Proc -> Process] /\ Keeps /\ NewlyWrote
  BY EndsKeeps DEF Exit
<1>3. upset' \subseteq Line
  BY MarkType DEF Exit
<1>. QED
  BY <1>1, <1>2, <1>3 DEF Exit, StepFacts, Types, IInv, WrtTypeOK, utmp

LEMMA EndStep ==
  ASSUME IInv, NEW p \in Proc, End(p)
  PROVE  StepFacts
<1>1. Writes /\ perm' \in [Line -> BOOLEAN]
  BY RestoreWrites DEF End, Alive, Writes, IInv, WrtTypeOK
<1>2. proc' \in [Proc -> Process] /\ Keeps /\ NewlyWrote
  BY EndsKeeps DEF End
<1>3. upset' \subseteq Line
  BY MarkType DEF End
<1>. QED
  BY <1>1, <1>2, <1>3 DEF End, StepFacts, Types, IInv, WrtTypeOK, utmp

LEMMA KillStep ==
  ASSUME IInv, NEW p \in Proc, Kill(p)
  PROVE  StepFacts
<1>1. proc' \in [Proc -> Process] /\ Keeps /\ NewlyWrote
  BY EndsKeeps DEF Kill
<1>2. upset' \subseteq Line
  BY MarkType DEF Kill
<1>. QED
  BY <1>1, <1>2 DEF Kill, StepFacts, Types, Writes, IInv, WrtTypeOK, utmp

\* A signal changes nothing but sig.
LEMMA SignalKeeps ==
  ASSUME IInv, NEW S \in SUBSET Proc, NEW g \in {"stop", "cont", "end"},
         proc' = [q \in Proc |-> IF q \in S THEN [proc[q] EXCEPT !.sig = g] ELSE proc[q]]
  PROVE  proc' \in [Proc -> Process] /\ Keeps /\ NewlyWrote
<1>1. ASSUME NEW q \in Proc
      PROVE  LET r == [proc[q] EXCEPT !.sig = g]
             IN  /\ r \in Process /\ r.pc = proc[q].pc /\ r.mypos = proc[q].mypos
                 /\ r.mywrt = proc[q].mywrt
  <2>1. proc[q] \in Process
    BY AliveType
  <2>. QED
    BY <2>1 DEF Process
<1>2. /\ proc' \in [Proc -> Process]
      /\ \A q \in Proc : /\ proc'[q].pc = proc[q].pc /\ proc'[q].mypos = proc[q].mypos
                         /\ proc'[q].mywrt = proc[q].mywrt
  BY <1>1 DEF IInv, WrtTypeOK
<1>. QED
  BY <1>2 DEF Keeps, NewlyWrote, Alive, Wrote

LEMMA StopStep ==
  ASSUME IInv, NEW p \in Proc, Stop(p)
  PROVE  StepFacts
<1>1. PICK S \in {{p}, {p} \cup proc[p].above} :
        proc' = [q \in Proc |-> IF q \in S THEN [proc[q] EXCEPT !.sig = "stop"] ELSE proc[q]]
  BY DEF Stop
<1>2. S \in SUBSET Proc
  BY AliveType DEF Process
<1>3. proc' \in [Proc -> Process] /\ Keeps /\ NewlyWrote
  BY <1>1, <1>2, SignalKeeps
<1>. QED
  BY <1>3 DEF Stop, StepFacts, Types, Writes, IInv, WrtTypeOK, utmp

LEMMA FgStep ==
  ASSUME IInv, NEW p \in Proc, Fg(p)
  PROVE  StepFacts
<1> DEFINE S == {q \in Proc : q = p \/ (q \in Below(p) /\ proc[q].sig = "none")}
<1>1. proc' = [q \in Proc |-> IF q \in S THEN [proc[q] EXCEPT !.sig = "cont"] ELSE proc[q]]
  BY DEF Fg
<1>2. proc' \in [Proc -> Process] /\ Keeps /\ NewlyWrote
  <2>. HIDE DEF S
  <2>1. S \in SUBSET Proc
    BY DEF S
  <2>. QED
    BY <1>1, <2>1, SignalKeeps
<1>. QED
  BY <1>2 DEF Fg, StepFacts, Types, Writes, IInv, WrtTypeOK, utmp

LEMMA SuspStep ==
  ASSUME IInv, NEW p \in Proc, Susp(p)
  PROVE  StepFacts
<1> DEFINE n == [proc[p] EXCEPT !.sig = "none", !.pc = "stopped", !.was = proc[p].pc, !.fixed = FALSE]
<1>1. Alive(p) /\ Wrote(p) /\ proc[p] \in Process /\ proc[p].pc \in {"talk", "shell"}
  BY AliveType DEF Susp, InPlace, Alive, Wrote
<1>2. n \in Process /\ n.mypos = proc[p].mypos /\ n.mywrt = proc[p].mywrt
  BY <1>1 DEF Process
<1>3. proc' \in [Proc -> Process] /\ Keeps /\ NewlyWrote
  BY <1>1, <1>2, BecomesKeeps DEF Susp
<1>4. Writes /\ perm' \in [Line -> BOOLEAN]
  BY <1>1, RestoreWrites DEF Susp, Writes, IInv, WrtTypeOK
<1>5. upset' \subseteq Line
  BY MarkType DEF Susp
<1>. QED
  BY <1>3, <1>4, <1>5 DEF Susp, StepFacts, Types, IInv, WrtTypeOK, utmp

LEMMA WriteWakesStep ==
  ASSUME IInv, NEW p \in Proc, WriteWakes(p)
  PROVE  StepFacts
<1> DEFINE u == Updated(p)
           n == [u EXCEPT !.pc = "wake", !.sig = "none"]
<1>1. Alive(p) /\ Wrote(p) /\ Becomes(p, n)
  BY DEF WriteWakes, Wakes, Alive, Wrote
<1>2. u \in Process /\ u.mypos = proc[p].mypos /\ u.mywrt.line = proc[p].mywrt.line
  BY <1>1, UpdatedType
<1>3. n \in Process /\ n.mypos = proc[p].mypos /\ n.mywrt.line = proc[p].mywrt.line
  <2>. HIDE DEF u
  <2>. QED
    BY <1>2 DEF Process
<1>4. proc' \in [Proc -> Process] /\ Keeps /\ NewlyWrote
  <2>. HIDE DEF n
  <2>. QED
    BY <1>1, <1>3, BecomesKeeps
<1>5. upset' \subseteq Line
  BY MarkType DEF WriteWakes
<1>. QED
  BY <1>4, <1>5 DEF WriteWakes, Wakes, StepFacts, Types, Writes, IInv, WrtTypeOK, utmp

LEMMA AminWakesStep ==
  ASSUME IInv, NEW p \in Proc, AminWakes(p)
  PROVE  StepFacts
<1> DEFINE v == IF proc[p].cmd.tmp = "s" THEN proc[p].myperm ELSE perm[Tty[p]]
           n == [proc[p] EXCEPT !.sig = "none", !.pc = "shell", !.was = "talk", !.myperm = v]
<1>1. Alive(p) /\ Wrote(p) /\ proc[p] \in Process
  BY AliveType DEF AminWakes, Wakes, Alive, Wrote
<1>2. v \in BOOLEAN
  BY <1>1, AliveType DEF Process, IInv, WrtTypeOK
<1>3. n \in Process /\ n.mypos = proc[p].mypos /\ n.mywrt = proc[p].mywrt
  <2>. HIDE DEF v
  <2>. QED
    BY <1>1, <1>2 DEF Process
<1>4. Becomes(p, n)
  BY <1>1 DEF AminWakes, Process
<1>5. proc' \in [Proc -> Process] /\ Keeps /\ NewlyWrote
  <2>. HIDE DEF n
  <2>. QED
    BY <1>1, <1>3, <1>4, BecomesKeeps
<1>6. Writes
  BY <1>1, TempEntry, PutFits DEF AminWakes
<1>7. perm' \in [Line -> BOOLEAN] /\ upset' \subseteq Line
  BY SetPermsType, MarkType DEF AminWakes
<1>. QED
  BY <1>5, <1>6, <1>7 DEF AminWakes, Wakes, StepFacts, Types, IInv, WrtTypeOK, utmp

\* Nor is it halfway through that.
LEMMA HalfwayStep ==
  ASSUME IInv, NEW p \in Proc, Halfway(p)
  PROVE  StepFacts
<1>1. Alive(p) /\ proc[p].mywrt \in Entry /\ proc[p].mywrt.line = Tty[p]
  BY AliveType DEF Halfway, InPlace, Fixing, Alive
<1>2. Temp(p) \in Entry /\ Temp(p).line = Tty[p]
  BY <1>1, TempEntry
<1>3. Put(p, proc[p].mywrt) \/ Put(p, Temp(p)) \/ UNCHANGED file
  BY DEF Halfway
<1>4. Writes
  BY <1>1, <1>2, <1>3, PutFits DEF Writes
<1>5. perm' \in [Line -> BOOLEAN]
  <2>1. SetPerms(p) \/ UNCHANGED perm
    BY DEF Halfway
  <2>. QED
    BY <2>1, SetPermsType DEF IInv, WrtTypeOK
<1>6. proc' \in [Proc -> Process] /\ Keeps /\ NewlyWrote
  BY EndsKeeps DEF Halfway
<1>7. upset' \subseteq Line
  BY MarkType DEF Halfway
<1>. QED
  BY <1>4, <1>5, <1>6, <1>7 DEF Halfway, StepFacts, Types, IInv, WrtTypeOK, utmp

LEMMA LogoutStep ==
  ASSUME IInv, NEW l \in Line, Logout(l)
  PROVE  StepFacts
<1> DEFINE dying == {p \in Live(l) : proc[p].pc \in {"ask", "scan"}}
           sig(p) == IF p \notin Live(l) THEN proc[p].sig
                     ELSE IF proc[p].cmd.prog = "write" THEN "end"
                     ELSE IF proc[p].pc = "stopped" THEN "cont" ELSE proc[p].sig
           n(p) == [proc[p] EXCEPT !.above = proc[p].above \ dying, !.sig = sig(p)]
<1>1. proc \in [Proc -> Process]
  BY DEF IInv, WrtTypeOK
<1>2. proc' = [p \in Proc |-> IF p \in dying THEN Idle ELSE n(p)]
  BY <1>1 DEF Logout, Process
<1>3. ASSUME NEW p \in Proc
      PROVE  n(p) \in Process /\ n(p).pc = proc[p].pc /\ n(p).mypos = proc[p].mypos
             /\ n(p).mywrt = proc[p].mywrt
  <2>1. sig(p) \in {"none", "stop", "cont", "end"} /\ proc[p] \in Process
    BY <1>1 DEF Process
  <2>. HIDE DEF sig, dying
  <2>. QED
    BY <2>1 DEF Process
<1>4. \A p \in Proc : Idle \in Process /\ Idle.pc = "out"
  BY IdleType DEF Idle
<1>5. proc' \in [Proc -> Process] /\ Keeps /\ NewlyWrote
  <2>. HIDE DEF dying, n
  <2>. QED
    BY <1>1, <1>2, <1>3, <1>4 DEF Keeps, NewlyWrote, Alive, Wrote
<1>6. owner' \in [Line -> User \cup {NoUser}]
  BY DEF Logout, IInv, WrtTypeOK
<1>. QED
  BY <1>5, <1>6 DEF Logout, StepFacts, Types, Writes, IInv, WrtTypeOK

LEMMA LoginStep ==
  ASSUME IInv, NEW l \in Line, Login(l)
  PROVE  StepFacts
<1>1. /\ owner' \in [Line -> User \cup {NoUser}] /\ time' \in [Line -> Nat]
      /\ perm' \in [Line -> BOOLEAN] /\ upset' \subseteq Line
      /\ want' \in [Line -> [perm : BOOLEAN, rec : {"y", "n"}]]
  BY DEF Login, IInv, WrtTypeOK
<1>2. UNCHANGED <<file, proc, raced>>
  BY DEF Login
<1>3. Keeps /\ Writes /\ NewlyWrote
  BY <1>2 DEF Keeps, Writes, NewlyWrote, Alive, Wrote
<1>. QED
  BY <1>1, <1>2, <1>3 DEF StepFacts, Types, IInv, WrtTypeOK

-----------------------------------------------------------------------------
(* Start: where find_wrttmp() finds the entry.                             *)

\* A set of numbers has a least one: of the intervals that they end, one has no
\* other within it.
LEMMA LeastOf ==
  ASSUME NEW S \in SUBSET Nat, S # {}
  PROVE  \E m \in S : \A i \in S : m <= i
<1> DEFINE T == {1 .. i : i \in S}
           R == StrictSubsetOrdering(Nat)
<1>1. \A i \in Nat : IsFiniteSet(1 .. i) /\ 1 .. i \in SUBSET Nat
  BY FS_Interval
<1>2. T \subseteq FiniteSubsetsOf(Nat) /\ T # {}
  BY <1>1 DEF FiniteSubsetsOf
<1>3. IsWellFoundedOn(R, FiniteSubsetsOf(Nat))
  BY FS_StrictSubsetOrderingWellFounded
<1>4. \E x \in T : \A y \in T : ~ (<<y, x>> \in R)
  <2>. HIDE DEF T, R
  <2>. QED
    BY <1>2, <1>3, WFMin
<1>5. PICK m \in S : \A y \in T : ~ (<<y, 1 .. m>> \in R)
  BY <1>4
<1>6. ASSUME NEW i \in S, i < m PROVE FALSE
  <2>1. 1 .. i \subseteq 1 .. m /\ m \in 1 .. m /\ m \notin 1 .. i
    BY <1>6
  <2>2. <<1 .. i, 1 .. m>> \in R
    BY <1>1, <2>1 DEF StrictSubsetOrdering
  <2>. QED
    BY <1>5, <2>2
<1>. QED
  BY <1>5, <1>6

LEMMA SlotFound ==
  ASSUME WrtTypeOK, NEW l \in Line
  PROVE  /\ SlotOf(l) \in 1 .. Len(file) + 1
         /\ SlotOf(l) <= Len(file) => file[SlotOf(l)].line = l
         /\ SlotOf(l) = Len(file) + 1 => SlotsOf(l) = {}
<1>0. Len(file) \in Nat
  BY DEF WrtTypeOK
<1>1. CASE SlotsOf(l) = {}
  BY <1>0, <1>1 DEF SlotOf
<1>2. CASE SlotsOf(l) # {}
  <2>1. SlotsOf(l) \subseteq 1 .. Len(file) /\ SlotsOf(l) \subseteq Nat
    BY <1>0 DEF SlotsOf
  <2>2. PICK m \in SlotsOf(l) : \A i \in SlotsOf(l) : m <= i
    BY <1>2, <2>1, LeastOf
  <2>5. SlotOf(l) \in SlotsOf(l)
    BY <1>2, <2>2 DEF SlotOf
  <2>. QED
    BY <1>0, <1>2, <2>1, <2>5 DEF SlotsOf
<1>. QED
  BY <1>1, <1>2

LEMMA EntryFound ==
  ASSUME WrtTypeOK, NEW l \in Line
  PROVE  EntryOf(l) \in Entry /\ EntryOf(l).line = l
<1>1. Default(l, time[l]) \in Entry /\ Default(l, time[l]).line = l
  BY DEF Default, Entry, Record, WrtTypeOK
<1>2. SlotOf(l) <= Len(file) => file[SlotOf(l)] \in Entry /\ file[SlotOf(l)].line = l
  BY SlotFound DEF WrtTypeOK
<1>. QED
  BY <1>1, <1>2 DEF EntryOf

LEMMA StartStep ==
  ASSUME IInv, NEW p \in Proc, Start(p), UNCHANGED early
  PROVE  IInv'
<1> DEFINE l == Tty[p]
<1>1. l \in Line /\ proc \in [Proc -> Process] /\ ~ Alive(p) /\ UNCHANGED file
  BY AliveType DEF Start, Alive, IInv, WrtTypeOK
<1>2. PICK c \in Invoked[p], shells \in Prompts(l) :
        Becomes(p, [Idle EXCEPT
          !.pc = "ask", !.cmd = c, !.above = shells,
          !.mypos = SlotOf(l), !.mywrt = EntryOf(l),
          !.myperm = c.prog \in {"write", "amin"} /\ perm[l],
          !.keep = [perm |-> \A e \in shells : proc[e].cmd.tmp = "s",
                    rec  |-> \A e \in shells : proc[e].cmd.tmp = "s" /\ proc[e].cmd.prog = "write"]])
  BY DEF Start
<1>3. c \in Commands
  BY <1>2, WrtAssumption
<1>4. shells \in SUBSET Proc
  <2>1. \A e \in Proc : proc[e].above \in SUBSET Proc
    BY <1>1 DEF Process
  <2>. QED
    BY <1>2, <2>1 DEF Prompts, Live
<1> DEFINE n == [Idle EXCEPT
          !.pc = "ask", !.cmd = c, !.above = shells,
          !.mypos = SlotOf(l), !.mywrt = EntryOf(l),
          !.myperm = c.prog \in {"write", "amin"} /\ perm[l],
          !.keep = [perm |-> \A e \in shells : proc[e].cmd.tmp = "s",
                    rec  |-> \A e \in shells : proc[e].cmd.tmp = "s" /\ proc[e].cmd.prog = "write"]]
<1>5. n \in Process /\ n.pc = "ask" /\ n.mypos = SlotOf(l) /\ n.mywrt.line = l
  <2> DEFINE v == c.prog \in {"write", "amin"} /\ perm[l]
             k == [perm |-> \A e \in shells : proc[e].cmd.tmp = "s",
                   rec  |-> \A e \in shells : proc[e].cmd.tmp = "s" /\ proc[e].cmd.prog = "write"]
  <2>1. v \in BOOLEAN
    OBVIOUS
  <2>2. k \in [perm : BOOLEAN, rec : BOOLEAN]
    <3>1. (\A e \in shells : proc[e].cmd.tmp = "s") \in BOOLEAN
      OBVIOUS
    <3>2. (\A e \in shells : proc[e].cmd.tmp = "s" /\ proc[e].cmd.prog = "write") \in BOOLEAN
      OBVIOUS
    <3>. QED
      BY <3>1, <3>2
  <2>3. SlotOf(l) \in Nat /\ EntryOf(l) \in Entry /\ EntryOf(l).line = l
    BY <1>1, SlotFound, EntryFound DEF IInv, WrtTypeOK
  <2>4. Idle \in Process
    BY IdleType
  <2> DEFINE m == [Idle EXCEPT !.pc = "ask", !.cmd = c, !.above = shells, !.mypos = SlotOf(l),
                               !.mywrt = EntryOf(l), !.myperm = v, !.keep = k]
  <2>5. n = m
    OBVIOUS
  <2>. HIDE DEF n, v, k
  <2>6. m \in Process /\ m.pc = "ask" /\ m.mypos = SlotOf(l) /\ m.mywrt.line = l
    BY <1>3, <1>4, <2>1, <2>2, <2>3, <2>4 DEF Process
  <2>. QED
    BY <2>5, <2>6
<1>6. proc' = [proc EXCEPT ![p] = n]
  BY <1>2 DEF Becomes
<1>. HIDE DEF n
<1>7. proc'[p] = n /\ \A q \in Proc : q # p => proc'[q] = proc[q]
  BY <1>1, <1>6
<1>8. SlotOf(l) \in 1 .. Len(file) + 1
  BY <1>1, SlotFound DEF IInv
<1>9. WrtTypeOK'
  <2>1. proc' \in [Proc -> Process]
    BY <1>1, <1>5, <1>6
  <2>2. \A q \in Proc : proc'[q].pc # "out" => proc'[q].mypos \in 1 .. Len(file') + 1
    BY <1>1, <1>5, <1>7, <1>8 DEF IInv, WrtTypeOK
  <2>3. EarlyTypeOK'
    BY <1>1 DEF IInv, WrtTypeOK, EarlyTypeOK
  <2>. QED
    BY <2>1, <2>2, <2>3 DEF Start, IInv, WrtTypeOK, utmp
<1>10. PosInv'
  BY <1>1, <1>5, <1>7 DEF PosInv, Alive, Wrote, IInv
<1>11. ASSUME ~ raced' PROVE SlotInv'
  <2>1. ~ raced /\ \A q \in Proc : Alive(q) /\ Tty[q] # l => proc[q].mypos # SlotOf(l)
    BY <1>11 DEF Start, Alive
  <2>2. SlotInv
    BY <2>1 DEF IInv
  <2>3. /\ SlotOf(l) <= Len(file) => file[SlotOf(l)].line = l
        /\ SlotOf(l) = Len(file) + 1 => \A i \in 1 .. Len(file) : file[i].line # l
    BY <1>1, SlotFound DEF IInv, SlotsOf
  <2>4. \A q \in Proc : Alive(q)' =>
          /\ proc'[q].mypos <= Len(file') => file'[proc'[q].mypos].line = Tty[q]
          /\ proc'[q].mypos = Len(file') + 1 => \A i \in 1 .. Len(file') : file'[i].line # Tty[q]
    BY <1>1, <1>5, <1>7, <2>2, <2>3 DEF SlotInv, Alive
  <2>5. \A q, r \in Proc : Alive(q)' /\ Alive(r)' /\ proc'[q].mypos = proc'[r].mypos => Tty[q] = Tty[r]
    BY <1>5, <1>7, <2>1, <2>2 DEF SlotInv, Alive
  <2>. QED
    BY <1>1, <2>2, <2>4, <2>5 DEF SlotInv
<1>. QED
  BY <1>9, <1>10, <1>11 DEF IInv

-----------------------------------------------------------------------------
(* amin, stopped before its modes are in place.                            *)

LEMMA FileGrows ==
  ASSUME IInv, Writes
  PROVE  Len(file) \in Nat /\ Len(file') \in Nat /\ Len(file') >= Len(file)
  BY PutWrites DEF Writes, IInv, WrtTypeOK

LEMMA EarlyKept ==
  ASSUME IInv, Writes, UNCHANGED early
  PROVE  EarlyTypeOK'
  BY FileGrows DEF IInv, WrtTypeOK, EarlyTypeOK

\* It keeps what it has found.
LEMMA EarlyKeptBy ==
  ASSUME IInv, Writes, NEW p \in Proc, EarlyStop(p)
  PROVE  EarlyTypeOK'
<1>1. /\ early' = [early EXCEPT ![p] = proc[p]] /\ early \in [Proc -> Process]
      /\ proc[p] \in Process /\ proc[p].pc = "ask" /\ proc[p].mywrt.line = Tty[p]
      /\ proc[p].mypos \in 1 .. Len(file) + 1
  BY AliveType DEF EarlyStop, Alive, IInv, WrtTypeOK, EarlyTypeOK
<1>2. early' \in [Proc -> Process]
  BY <1>1
<1>3. ASSUME NEW q \in Proc, early'[q] # Idle
      PROVE  /\ early'[q].pc = "ask" /\ early'[q].mywrt.line = Tty[q]
             /\ early'[q].mypos \in 1 .. Len(file') + 1
  <2>1. (early'[q] = proc[p] /\ q = p) \/ early'[q] = early[q]
    BY <1>1
  <2>. QED
    BY <1>1, <1>3, <2>1, FileGrows DEF IInv, WrtTypeOK, EarlyTypeOK
<1>. QED
  BY <1>2, <1>3 DEF EarlyTypeOK

\* What it writes is an entry, though not of its tty.
LEMMA NewWrtType ==
  ASSUME NEW r \in Process, NEW e \in NewWrt(r)
  PROVE  e \in Entry
<1>1. r.mywrt \in Entry
  BY DEF Process
<1>2. Blank \in Entry
  BY DEF Blank, Entry, Record
<1> DEFINE c == [r.mywrt EXCEPT !.what = Command]
<1>3. c \in Entry /\ [c EXCEPT !.rec = "a"] \in Entry
  BY <1>1 DEF Entry, Record
<1>. QED
  BY <1>1, <1>2, <1>3 DEF NewWrt

\* When it goes on, it writes inside of the file or at its end.
LEMMA AstrayStep ==
  ASSUME IInv, NEW p \in Proc, Astray(p)
  PROVE  IInv'
<1> DEFINE r == early[p]
           l == Tty[p]
<1>1. /\ r \in Process /\ r.pc = "ask" /\ r.mypos \in 1 .. Len(file) + 1 /\ r.mywrt.line = l
      /\ l \in Line /\ file \in Seq(Entry) /\ Len(file) \in Nat
      /\ proc \in [Proc -> Process] /\ perm \in [Line -> BOOLEAN]
  <2>1. r # Idle
    BY DEF Astray
  <2>2. WrtTypeOK /\ EarlyTypeOK
    BY DEF IInv, WrtTypeOK
  <2>3. r \in Process /\ r.pc = "ask" /\ r.mypos \in 1 .. Len(file) + 1 /\ r.mywrt.line = l
    BY <2>1, <2>2 DEF EarlyTypeOK
  <2>. QED
    BY <2>2, <2>3, WrtAssumption DEF WrtTypeOK
<1>2. PICK k \in 1 .. r.mypos, e \in NewWrt(r) :
       /\ file' = IF k = Len(file) + 1 THEN Append(file, e) ELSE [file EXCEPT ![k] = e]
       /\ \/ UNCHANGED <<proc, perm>>
          \/ \E m \in k .. Len(file') + 1, w \in {r.mywrt, Default(l, r.mywrt.time)}
                                               \cup {file'[i] : i \in SlotsOf(l)'} :
               /\ proc' = [proc EXCEPT ![p] = [r EXCEPT !.mypos = m, !.mywrt = w, !.above = {},
                              !.myperm = IF r.cmd.tmp = "s" THEN @ ELSE r.cmd.tmp = "y"]]
               /\ IF r.cmd.tmp = "s" THEN UNCHANGED perm
                  ELSE perm' = [perm EXCEPT ![l] = (r.cmd.tmp = "y")]
  BY DEF Astray
<1>3. e \in Entry /\ k \in 1 .. Len(file) + 1
  <2>1. e \in Entry
    BY <1>1, NewWrtType
  <2>. HIDE DEF r
  <2>2. k \in 1 .. Len(file) + 1
    BY <1>1
  <2>. QED
    BY <2>1, <2>2
<1>4. file' \in Seq(Entry) /\ Len(file') \in Nat /\ Len(file') >= Len(file)
  <2>. HIDE DEF r, l
  <2>1. CASE k = Len(file) + 1
    <3>1. file' = Append(file, e)
      BY <1>2, <2>1
    <3>. QED
      BY <1>1, <1>3, <3>1
  <2>2. CASE k # Len(file) + 1
    <3>1. file' = [file EXCEPT ![k] = e]
      BY <1>2, <2>2
    <3>2. k \in 1 .. Len(file)
      BY <1>1, <1>3, <2>2
    <3>. QED
      BY <1>1, <1>3, <3>1, <3>2
  <2>. QED
    BY <2>1, <2>2
<1>5. EarlyTypeOK'
  <2>1. early' = [early EXCEPT ![p] = Idle] /\ early \in [Proc -> Process] /\ Idle \in Process
    BY IdleType DEF Astray, IInv, WrtTypeOK, EarlyTypeOK
  <2>2. \A q \in Proc : early'[q] # Idle => early'[q] = early[q]
    BY <2>1
  <2>3. early' \in [Proc -> Process]
    BY <2>1
  <2>. QED
    BY <1>4, <2>2, <2>3 DEF EarlyTypeOK, IInv, WrtTypeOK
<1>6. /\ proc' \in [Proc -> Process] /\ perm' \in [Line -> BOOLEAN]
      /\ \A q \in Proc : \/ proc'[q] = proc[q]
                         \/ /\ proc'[q].mypos \in 1 .. Len(file') + 1
                            /\ proc'[q].mywrt.line = Tty[q]
                            /\ ~ Wrote(q)'
  <2>1. CASE UNCHANGED <<proc, perm>>
    BY <1>1, <2>1
  <2>2. ASSUME NEW m \in k .. Len(file') + 1,
               NEW w \in {r.mywrt, Default(l, r.mywrt.time)} \cup {file'[i] : i \in SlotsOf(l)'},
               proc' = [proc EXCEPT ![p] = [r EXCEPT !.mypos = m, !.mywrt = w, !.above = {},
                              !.myperm = IF r.cmd.tmp = "s" THEN @ ELSE r.cmd.tmp = "y"]],
               IF r.cmd.tmp = "s" THEN UNCHANGED perm
               ELSE perm' = [perm EXCEPT ![l] = (r.cmd.tmp = "y")]
        PROVE  \/ UNCHANGED <<proc, perm>>
               \/ \E n \in Process : /\ proc' = [proc EXCEPT ![p] = n] /\ n.pc = "ask"
                                     /\ n.mypos \in 1 .. Len(file') + 1 /\ n.mywrt.line = l
                                     /\ perm' \in [Line -> BOOLEAN]
    <3> DEFINE v == IF r.cmd.tmp = "s" THEN r.myperm ELSE r.cmd.tmp = "y"
               n == [r EXCEPT !.mypos = m, !.mywrt = w, !.above = {}, !.myperm = v]
    <3>1. v \in BOOLEAN
      BY <1>1 DEF Process
    <3>2. w \in Entry /\ w.line = l
      <4>1. r.mywrt \in Entry /\ r.mywrt.time \in Nat
        BY <1>1 DEF Process, Entry
      <4>2. Default(l, r.mywrt.time) \in Entry /\ Default(l, r.mywrt.time).line = l
        BY <1>1, <4>1 DEF Default, Entry, Record
      <4>3. \A i \in SlotsOf(l)' : file'[i] \in Entry /\ file'[i].line = l
        BY <1>4 DEF SlotsOf
      <4>. QED
        BY <1>1, <4>1, <4>2, <4>3
    <3>3. m \in 1 .. Len(file') + 1 /\ m \in Nat
      BY <1>3, <1>4
    <3>4. proc' = [proc EXCEPT ![p] = n]
      BY <1>1, <2>2 DEF Process
    <3>5. n \in Process /\ n.pc = r.pc /\ n.mypos = m /\ n.mywrt = w
      <4>. HIDE DEF v
      <4>. QED
        BY <1>1, <3>1, <3>2, <3>3 DEF Process
    <3>6. perm' \in [Line -> BOOLEAN]
      BY <1>1, <2>2
    <3>. HIDE DEF n, v
    <3>. QED
      BY <1>1, <3>2, <3>3, <3>4, <3>5, <3>6
  <2>3. CASE \E n \in Process : /\ proc' = [proc EXCEPT ![p] = n] /\ n.pc = "ask"
                                /\ n.mypos \in 1 .. Len(file') + 1 /\ n.mywrt.line = l
                                /\ perm' \in [Line -> BOOLEAN]
    BY <1>1, <2>3 DEF Wrote
  <2>. QED
    BY <1>2, <2>1, <2>2, <2>3
<1>7. \A q \in Proc : proc'[q].pc # "out" => proc'[q].mypos \in 1 .. Len(file') + 1
  BY <1>4, <1>6 DEF IInv, WrtTypeOK
<1>8. WrtTypeOK' /\ raced'
  BY <1>4, <1>5, <1>6, <1>7 DEF Astray, IInv, WrtTypeOK, utmp
<1>9. PosInv'
  BY <1>1, <1>4, <1>6 DEF IInv, PosInv, WrtTypeOK, Alive, Wrote
<1>. QED
  BY <1>8, <1>9 DEF IInv

-----------------------------------------------------------------------------
(* The theorems.                                                           *)

LEMMA InitInv == Init => IInv
<1>. SUFFICES ASSUME Init PROVE IInv
  OBVIOUS
<1>1. proc \in [Proc -> Process] /\ \A p \in Proc : proc[p].pc = "out"
  BY IdleType DEF Init, Idle
<1>2. WrtTypeOK
  <2>1. file \in Seq(Entry) /\ perm \in [Line -> BOOLEAN] /\ time \in [Line -> Nat]
    BY DEF Init
  <2>2. owner \in [Line -> User \cup {NoUser}] /\ upset \subseteq Line /\ raced \in BOOLEAN
    BY DEF Init
  <2>3. want \in [Line -> [perm : BOOLEAN, rec : {"y", "n"}]]
    BY DEF Init
  <2>4. EarlyTypeOK
    <3>1. early = [p \in Proc |-> Idle]
      BY DEF Init
    <3>. QED
      BY <3>1, IdleType DEF EarlyTypeOK
  <2>. QED
    BY <1>1, <2>1, <2>2, <2>3, <2>4 DEF WrtTypeOK
<1>. QED
  BY <1>1, <1>2 DEF Init, IInv, PosInv, SlotInv, Alive, Wrote

LEMMA NextInv == IInv /\ [Next]_vars => IInv' /\ (raced => raced')
<1> DEFINE Goal == IInv' /\ (raced => raced')
<1>. SUFFICES ASSUME IInv, [Next]_vars PROVE Goal
  OBVIOUS
<1>1. CASE UNCHANGED vars
  BY <1>1 DEF vars, utmp, IInv, WrtTypeOK, EarlyTypeOK, PosInv, SlotInv, Alive, Wrote
<1>2. ASSUME StepFacts, UNCHANGED early PROVE Goal
  BY <1>2, EarlyKept, StepKeepsSlots DEF StepFacts
<1>3. ASSUME NEW p \in Proc, Start(p), UNCHANGED early PROVE Goal
  BY <1>3, StartStep DEF Start
<1>4. ASSUME NEW p \in Proc,
             Leave(p) \/ SetModes(p) \/ Tel(p) \/ Amin(p) \/ Mesg(p) \/ Disconnect(p) \/ MesgEnds(p)
      PROVE  StepFacts
  BY <1>4, LeaveStep, SetModesStep, TelStep, AminStep, MesgStep, DisconnectStep, MesgEndsStep
<1>5. ASSUME NEW p \in Proc,
             \/ Escape(p) \/ Return(p) \/ AminEnds(p) \/ Exit(p) \/ End(p) \/ Kill(p)
      PROVE  StepFacts
  BY <1>5, EscapeStep, ReturnStep, AminEndsStep, ExitStep, EndStep, KillStep
<1>6. ASSUME NEW p \in Proc,
             \/ Stop(p) \/ Susp(p) \/ Fg(p) \/ WriteWakes(p) \/ AminWakes(p) \/ Halfway(p)
      PROVE  StepFacts
  BY <1>6, StopStep, SuspStep, FgStep, WriteWakesStep, AminWakesStep, HalfwayStep
<1>7. ASSUME NEW l \in Line, Logout(l) \/ Login(l) PROVE StepFacts
  BY <1>7, LogoutStep, LoginStep
<1>8. CASE Step /\ UNCHANGED early
  BY <1>2, <1>3, <1>4, <1>5, <1>6, <1>7, <1>8 DEF Step
<1>9. ASSUME NEW p \in Proc, EarlyStop(p) PROVE Goal
  <2>1. StepFacts
    BY <1>9, LeaveStep, HalfwayStep DEF EarlyStop
  <2>. QED
    BY <1>9, <2>1, EarlyKeptBy, StepKeepsSlots DEF StepFacts
<1>10. ASSUME NEW p \in Proc, Astray(p) PROVE Goal
  BY <1>10, AstrayStep DEF Astray
<1>. QED
  BY <1>1, <1>8, <1>9, <1>10 DEF Next

LEMMA WrtInvariant == Spec => []IInv
  BY InitInv, NextInv, PTL DEF Spec

\* The types; and no process writes beyond the end of the wrttmp file, whatever
\* has been added since find_wrttmp() (lseek() and write() of set_modes() and the
\* other places that write at mypos).
THEOREM WrtTypes == Spec => []WrtTypeOK
<1>1. IInv => WrtTypeOK
  BY DEF IInv
<1>. QED
  BY <1>1, WrtInvariant, PTL

\* However many processes find and write the entry of a tty, each long after the
\* other has looked, it has one entry, unless two ttys have raced for a new slot, or
\* an amin has gone on that ^Z had struck before fix_modes() was through: its susp()
\* writes newwrt over any entry (find_wrttmp(), write() of the entry).
THEOREM OneEntry == Spec => []OneEntryUnlessRaced
<1>1. IInv => OneEntryUnlessRaced
  BY DEF IInv, SlotInv, OneEntryUnlessRaced
<1>. QED
  BY <1>1, WrtInvariant, PTL

-----------------------------------------------------------------------------
(* What the entries say: the invariant of ShownIsTrue.  The processes of a *)
(* login run in one another's shells; each remembers an entry that shows   *)
(* the one above it, and the file shows the innermost that is on.          *)

\* Times of login do not come back, and no entry is zero.
TimeInv ==
  /\ \A p \in Proc : Alive(p) => proc[p].mywrt.time <= time[Tty[p]]
  /\ \A i \in 1 .. Len(file) : file[i].line \in Line /\ file[i].time <= time[file[i].line]

\* What is so at the places of a program.
Placed(r) ==
  /\ r.cmd.prog = "write" => (r.fixed <=> r.pc \in {"talk", "shell"})
  /\ r.sig = "end" => r.cmd.prog = "write" /\ r.pc # "out"
  /\ r.sig = "stop" => r.pc \in {"talk", "shell"}

PlaceInv == \A p \in Proc : Placed(proc[p])

\* It has a shell, or the command of amin.
HasShell(r) ==
  \/ r.pc = "shell"
  \/ r.pc \in {"stopped", "wake"} /\ (r.was = "shell" \/ r.cmd.prog = "amin")

Comparable(p, q) == p = q \/ p \in proc[q].above \/ q \in proc[p].above

\* The processes in whose shells a process runs are of its login, and have shells.
AboveInv ==
  \A p \in Proc : \A o \in proc[p].above :
    /\ Alive(p) /\ Alive(o) /\ Tty[o] = Tty[p] /\ proc[o].mywrt.time = proc[p].mywrt.time
    /\ HasShell(proc[o])

\* They run in one another's.
TreeInv ==
  \A p \in Proc :
    /\ p \notin proc[p].above
    /\ \A o \in proc[p].above : proc[o].above \subseteq proc[p].above
    /\ \A o, u \in proc[p].above : Comparable(o, u)

UInv == TimeInv /\ PlaceInv /\ AboveInv /\ TreeInv

Calm(l) == l \notin upset /\ owner[l] # NoUser /\ ~ raced

\* What the entry says while a process is on.
Shows(p) == IF proc[p].cmd.prog = "amin" THEN Command ELSE proc[p].him

\* The entry e shows the innermost of the processes S.
ShownBy(S, e) ==
  IF S = {} THEN e.what = NoUser
  ELSE \E x \in S : /\ S = proc[x].above \cup {x}
                    /\ e.what = Shows(x)
                    /\ proc[x].cmd.prog = "write" => e.pid = x

On(l) == {p \in Live(l) : InPlace(p)}

Running(l) == \A p, q \in Live(l) : ~ Stopped(p) /\ ~ Stopped(q) => Comparable(p, q)

\* Below one that is not stopped all are on.
Opened(p) == proc[p].pc # "stopped" => \A o \in proc[p].above : InPlace(o)

\* Stopped, or told to.
Frozen(p) == proc[p].sig = "stop" \/ (proc[p].pc = "stopped" /\ proc[p].sig = "none")

Freezes(p) == Frozen(p) =>
  /\ \A q \in Below(p) : /\ proc[q].sig # "cont"
                         /\ \/ proc[q].pc = "stopped"
                            \/ InPlace(p) /\ InPlace(q) /\ proc[q].sig \in {"stop", "end"}
  /\ \A q, s \in Below(p) : Comparable(q, s)

LineInv(l) ==
  /\ Running(l)
  /\ \A p \in Live(l) : /\ Opened(p) /\ Freezes(p)
                        /\ ShownBy(proc[p].above, proc[p].mywrt)
  /\ ShownBy(On(l), EntryOf(l))

LinesInv == \A l \in Line : Calm(l) => LineInv(l)

-----------------------------------------------------------------------------
(* Where the entry of a tty is.                                            *)

\* A tty has no slot, and the default entry, or one slot.
LEMMA EntryAt ==
  WrtTypeOK => \A l \in Line :
    /\ SlotsOf(l) = {} => EntryOf(l) = Default(l, time[l])
    /\ \A i \in Nat : SlotsOf(l) = {i} =>
         EntryOf(l) = IF file[i].time = time[l] THEN file[i] ELSE Default(l, time[l])
<1> SUFFICES ASSUME WrtTypeOK, NEW l \in Line
             PROVE  /\ SlotsOf(l) = {} => EntryOf(l) = Default(l, time[l])
                    /\ \A i \in Nat : SlotsOf(l) = {i} =>
                         EntryOf(l) = IF file[i].time = time[l] THEN file[i] ELSE Default(l, time[l])
  OBVIOUS
<1>0. Len(file) \in Nat
  BY DEF WrtTypeOK
<1>1. ASSUME SlotsOf(l) = {} PROVE EntryOf(l) = Default(l, time[l])
  <2>1. SlotOf(l) = Len(file) + 1
    BY <1>1 DEF SlotOf
  <2> QED BY <1>0, <2>1 DEF EntryOf
<1>2. ASSUME NEW i \in Nat, SlotsOf(l) = {i}
      PROVE  EntryOf(l) = IF file[i].time = time[l] THEN file[i] ELSE Default(l, time[l])
  <2>1. SlotOf(l) = i
    BY <1>2 DEF SlotOf
  <2>2. i \in 1 .. Len(file)
    BY <1>2 DEF SlotsOf
  <2> QED BY <1>0, <2>1, <2>2 DEF EntryOf
<1> QED BY <1>1, <1>2

LEMMA EntryAtNext ==
  (WrtTypeOK => \A l \in Line :
    /\ SlotsOf(l) = {} => EntryOf(l) = Default(l, time[l])
    /\ \A i \in Nat : SlotsOf(l) = {i} =>
         EntryOf(l) = IF file[i].time = time[l] THEN file[i] ELSE Default(l, time[l]))'
  BY EntryAt, PTL

\* A process that writes its entry writes the one of its tty.
LEMMA EntryPut ==
  ASSUME IInv, IInv', ~ raced, NEW p \in Proc, Alive(p), NEW e \in Entry, e.line = Tty[p],
         Put(p, e), UNCHANGED time
  PROVE  /\ e.time = time[Tty[p]] => EntryOf(Tty[p])' = e
         /\ \A l \in Line \ {Tty[p]} : EntryOf(l)' = EntryOf(l)
<1> DEFINE m == proc[p].mypos
<1>1. /\ Len(file) \in Nat /\ Len(file') \in Nat /\ m \in Nat
      /\ m \in 1 .. Len(file') /\ Len(file') >= Len(file)
      /\ \/ m \in 1 .. Len(file) /\ Len(file') = Len(file)
         \/ m = Len(file) + 1 /\ Len(file') = Len(file) + 1
      /\ \A i \in 1 .. Len(file') : file'[i] = IF i = m THEN e ELSE file[i]
  BY PutWrites DEF IInv, WrtTypeOK
<1>2. SlotInv
  BY DEF IInv
<1>3. /\ m <= Len(file) => file[m].line = Tty[p]
      /\ \A i \in 1 .. Len(file) : file[i].line = Tty[p] => i = m
  BY <1>1, <1>2 DEF SlotInv
<1>4. SlotsOf(Tty[p])' = {m}
  <2>1. \A i \in 1 .. Len(file') : file'[i].line = Tty[p] <=> i = m
    BY <1>1, <1>3
  <2> QED BY <1>1, <2>1 DEF SlotsOf
<1>5. Tty[p] \in Line /\ WrtTypeOK' /\ WrtTypeOK
  BY AliveType DEF IInv
<1>6. ASSUME e.time = time[Tty[p]] PROVE EntryOf(Tty[p])' = e
  <2>1. file'[m] = e
    BY <1>1
  <2> QED BY <1>1, <1>4, <1>5, <1>6, <2>1, EntryAtNext
<1>7. ASSUME NEW l \in Line \ {Tty[p]} PROVE EntryOf(l)' = EntryOf(l)
  <2>1. /\ SlotsOf(l)' = SlotsOf(l) /\ \A i \in SlotsOf(l) : file'[i] = file[i]
        /\ SlotsOf(l) \subseteq Nat
    <3>1. \A i \in 1 .. Len(file') : file'[i].line = l <=> (i \in 1 .. Len(file) /\ file[i].line = l)
      BY <1>1, <1>3
    <3>2. \A i \in 1 .. Len(file) : file[i].line = l => i # m
      BY <1>1, <1>3
    <3> QED BY <1>1, <3>1, <3>2 DEF SlotsOf
  <2>2. Default(l, time[l])' = Default(l, time[l])
    BY DEF Default
  <2>3. CASE SlotsOf(l) = {}
    BY <1>5, <2>1, <2>2, <2>3, EntryAt, EntryAtNext
  <2>4. CASE SlotsOf(l) # {}
    <3>1. PICK i \in SlotsOf(l) : TRUE
      BY <2>4
    <3>2. SlotsOf(l) = {i}
      BY <1>2 DEF SlotInv, SlotsOf
    <3> QED BY <1>5, <2>1, <2>2, <3>1, <3>2, EntryAt, EntryAtNext
  <2> QED BY <2>3, <2>4
<1> QED BY <1>6, <1>7

\* What is not written stays.
LEMMA EntryKept ==
  ASSUME UNCHANGED <<file, time>>, NEW l \in Line
  PROVE  EntryOf(l)' = EntryOf(l)
  BY DEF EntryOf, SlotOf, SlotsOf, Default

-----------------------------------------------------------------------------
(* The processes in one another's shells.                                  *)

\* Below and above a process of a login are others of it.
LEMMA AboveLive ==
  IInv /\ AboveInv => \A l \in Line : \A p \in Live(l) : /\ proc[p].above \subseteq Live(l)
                                                         /\ Below(p) \subseteq Live(l)
<1> SUFFICES ASSUME IInv, AboveInv, NEW l \in Line, NEW p \in Live(l)
             PROVE  proc[p].above \subseteq Live(l) /\ Below(p) \subseteq Live(l)
  OBVIOUS
<1>1. p \in Proc /\ proc[p].above \in SUBSET Proc
  BY AliveType DEF Live, Process
<1> QED BY <1>1 DEF Live, Below, AboveInv, Alive

LEMMA AboveLiveNext ==
  (IInv /\ AboveInv => \A l \in Line : \A p \in Live(l) : /\ proc[p].above \subseteq Live(l)
                                                          /\ Below(p) \subseteq Live(l))'
  BY AboveLive, PTL

LEMMA IdleFields ==
  /\ Idle.pc = "out" /\ Idle.above = {} /\ Idle.sig = "none" /\ Idle.fixed = FALSE
  /\ Idle.cmd.prog = "write"
  BY DEF Idle

SameEntry(e, f) == e.line = f.line /\ e.time = f.time /\ e.what = f.what /\ e.pid = f.pid

\* The processes D end, and the others go on: what every action but Start and
\* Login does.
Carries(D) ==
  \A q \in Proc : IF q \in D THEN proc'[q] = Idle
                  ELSE /\ proc'[q].pc = "out" <=> proc[q].pc = "out"
                       /\ proc'[q].above = proc[q].above \ D
                       /\ proc'[q].cmd = proc[q].cmd
                       /\ SameEntry(proc'[q].mywrt, proc[q].mywrt)

\* What is written to the file is of the writer's login.
WritesOwn ==
  \/ UNCHANGED file
  \/ \E p \in Proc, e \in Entry : /\ Alive(p) /\ Put(p, e)
                                  /\ e.line = Tty[p] /\ e.time = proc[p].mywrt.time

LEMMA CarriesTimes ==
  ASSUME IInv, IInv', TimeInv, NEW D \in SUBSET Proc, Carries(D), WritesOwn, UNCHANGED time
  PROVE  TimeInv'
<1>1. ASSUME NEW p \in Proc, Alive(p)' PROVE proc'[p].mywrt.time <= time'[Tty[p]]
  <2>1. p \notin D /\ Alive(p) /\ proc'[p].mywrt.time = proc[p].mywrt.time
    BY <1>1, IdleFields DEF Carries, Alive, SameEntry
  <2> QED BY <2>1 DEF TimeInv
<1>2. ASSUME NEW i \in 1 .. Len(file')
      PROVE  file'[i].line \in Line /\ file'[i].time <= time'[file'[i].line]
  <2>1. CASE UNCHANGED file
    BY <1>2, <2>1 DEF TimeInv
  <2>2. ASSUME NEW p \in Proc, NEW e \in Entry, Alive(p), Put(p, e), e.line = Tty[p],
               e.time = proc[p].mywrt.time
        PROVE  file'[i].line \in Line /\ file'[i].time <= time'[file'[i].line]
    <3>1. /\ file'[i] = IF i = proc[p].mypos THEN e ELSE file[i]
          /\ i # proc[p].mypos => i \in 1 .. Len(file)
      BY <2>2, PutWrites DEF IInv, WrtTypeOK
    <3> QED BY <2>2, <3>1, WrtAssumption DEF TimeInv
  <2> QED BY <2>1, <2>2 DEF WritesOwn
<1> QED BY <1>1, <1>2 DEF TimeInv

LEMMA CarriesTree ==
  ASSUME IInv, AboveInv, TreeInv, NEW D \in SUBSET Proc, Carries(D),
         \A q \in Proc \ D : Below(q) # {} => HasShell(proc'[q])
  PROVE  AboveInv' /\ TreeInv'
<1>1. \A p \in D : proc'[p].above = {}
  BY IdleFields DEF Carries
<1>2. \A p \in Proc \ D : /\ proc'[p].above = proc[p].above \ D
                          /\ proc'[p].mywrt.time = proc[p].mywrt.time
                          /\ Alive(p)' = Alive(p)
  BY DEF Carries, Alive, SameEntry
<1>3. \A p \in Proc : proc[p].above \in SUBSET Proc
  BY AliveType DEF Process
<1>4. AboveInv'
  <2> SUFFICES ASSUME NEW p \in Proc, NEW o \in proc'[p].above
               PROVE  /\ Alive(p)' /\ Alive(o)' /\ Tty[o] = Tty[p]
                      /\ proc'[o].mywrt.time = proc'[p].mywrt.time
                      /\ HasShell(proc'[o])
    BY DEF AboveInv
  <2>1. p \in Proc \ D /\ o \in Proc \ D /\ o \in proc[p].above
    BY <1>1, <1>2, <1>3
  <2>2. p \in Below(o)
    BY <2>1 DEF Below
  <2> QED BY <1>2, <2>1, <2>2 DEF AboveInv
<1>5. TreeInv'
  <2> SUFFICES ASSUME NEW p \in Proc
               PROVE  /\ p \notin proc'[p].above
                      /\ \A o \in proc'[p].above : proc'[o].above \subseteq proc'[p].above
                      /\ \A o, u \in proc'[p].above : Comparable(o, u)'
    BY DEF TreeInv
  <2>1. CASE p \in D
    BY <1>1, <2>1
  <2>2. CASE p \notin D
    <3>1. proc'[p].above = proc[p].above \ D /\ p \notin proc[p].above
      BY <1>2, <2>2 DEF TreeInv
    <3>2. ASSUME NEW o \in proc'[p].above PROVE proc'[o].above \subseteq proc'[p].above
      <4>1. o \in Proc \ D /\ o \in proc[p].above
        BY <1>3, <3>1, <3>2
      <4> QED BY <1>2, <3>1, <4>1 DEF TreeInv
    <3>3. ASSUME NEW o \in proc'[p].above, NEW u \in proc'[p].above PROVE Comparable(o, u)'
      <4>1. o \in Proc \ D /\ o \in proc[p].above /\ u \in Proc \ D /\ u \in proc[p].above
        BY <1>3, <3>1, <3>3
      <4>2. Comparable(o, u)
        BY <4>1 DEF TreeInv
      <4> QED BY <1>2, <4>1, <4>2 DEF Comparable
    <3> QED BY <3>1, <3>2, <3>3
  <2> QED BY <2>1, <2>2
<1> QED BY <1>4, <1>5

LEMMA CarriesInv ==
  ASSUME IInv, IInv', UInv, NEW D \in SUBSET Proc, Carries(D), WritesOwn, UNCHANGED time,
         \A q \in Proc \ D : Below(q) # {} => HasShell(proc'[q]),
         \A q \in Proc \ D : Placed(proc'[q])
  PROVE  UInv'
<1>1. TimeInv'
  BY CarriesTimes DEF UInv
<1>2. AboveInv' /\ TreeInv'
  BY CarriesTree DEF UInv
<1>3. PlaceInv'
  <2>1. Placed(Idle)
    BY IdleFields DEF Placed
  <2>2. \A q \in D : proc'[q] = Idle
    BY DEF Carries
  <2> QED BY <2>1, <2>2 DEF PlaceInv
<1> QED BY <1>1, <1>2, <1>3 DEF UInv

-----------------------------------------------------------------------------
(* A line at a time.                                                       *)

\* Nothing happens on the line.
Same(l) ==
  /\ Live(l)' = Live(l) /\ \A q \in Live(l) : proc'[q] = proc[q]
  /\ EntryOf(l)' = EntryOf(l)

LEMMA SameLine ==
  ASSUME IInv, IInv', UInv, UInv', NEW l \in Line, Same(l), LineInv(l)
  PROVE  LineInv(l)'
<1>1. /\ Live(l)' = Live(l) /\ \A q \in Live(l) : proc'[q] = proc[q]
      /\ EntryOf(l)' = EntryOf(l) /\ Live(l) \subseteq Proc
  BY DEF Same, Live
<1>2. /\ \A p \in Live(l) : proc[p].above \subseteq Live(l) /\ Below(p) \subseteq Live(l)
      /\ \A p \in Live(l)' : Below(p)' \subseteq Live(l)'
  BY AboveLive, AboveLiveNext DEF UInv
<1>3. \A p \in Live(l) : Below(p)' = Below(p)
  <2> TAKE p \in Live(l)
  <2>1. Below(p) \subseteq Live(l) /\ Below(p)' \subseteq Live(l)
    BY <1>1, <1>2
  <2> QED BY <1>1, <2>1 DEF Below
<1>4. On(l)' = On(l) /\ On(l) \subseteq Live(l)
  BY <1>1 DEF On, InPlace
<1>5. Running(l)'
  BY <1>1 DEF LineInv, Running, Stopped, Comparable
<1>6. ASSUME NEW p \in Live(l)
      PROVE  Opened(p)' /\ Freezes(p)' /\ ShownBy(proc[p].above, proc[p].mywrt)'
  <2>1. Opened(p) /\ Freezes(p) /\ ShownBy(proc[p].above, proc[p].mywrt)
    BY DEF LineInv
  <2>2. Opened(p)'
    BY <1>1, <1>2, <2>1 DEF Opened, InPlace
  <2>3. Freezes(p)'
    BY <1>1, <1>2, <1>3, <2>1 DEF Freezes, Frozen, InPlace, Comparable
  <2>4. ShownBy(proc[p].above, proc[p].mywrt)'
    BY <1>1, <1>2, <2>1 DEF ShownBy, Shows
  <2> QED BY <2>2, <2>3, <2>4
<1>7. ShownBy(On(l), EntryOf(l))'
  <2>1. ShownBy(On(l), EntryOf(l))
    BY DEF LineInv
  <2> QED BY <1>1, <1>4, <2>1 DEF ShownBy, Shows
<1> QED BY <1>1, <1>5, <1>6, <1>7 DEF LineInv

\* The innermost that is on has all the others above it, and so has whoever is
\* not stopped and has nobody on below it.
LEMMA Under ==
  ASSUME IInv, UInv, NEW l \in Line, Running(l), \A q \in Live(l) : Opened(q),
         NEW p \in Live(l), ~ Stopped(p), \A o \in proc[p].above : InPlace(o),
         \A q \in Below(p) : ~ InPlace(q)
  PROVE  On(l) \ {p} = proc[p].above
<1>1. proc[p].above \subseteq Live(l) /\ p \notin proc[p].above
  BY AboveLive DEF UInv, TreeInv, Live
<1>2. proc[p].above \subseteq On(l) \ {p}
  BY <1>1 DEF On
<1>3. ASSUME NEW x \in On(l), x # p PROVE x \in proc[p].above
  <2>1. x \in Live(l) /\ x \in Proc /\ InPlace(x) /\ ~ Stopped(x)
    BY <1>3 DEF On, Live, InPlace, Stopped
  <2>2. Comparable(p, x)
    BY <2>1 DEF Running
  <2>3. p \notin proc[x].above
    BY <2>1 DEF Below
  <2> QED BY <1>3, <2>2, <2>3 DEF Comparable
<1> QED BY <1>2, <1>3 DEF On

-----------------------------------------------------------------------------
(* A process goes on.                                                      *)

\* The others are not touched.
Moves(p) ==
  /\ Alive(p) /\ proc'[p].pc # "out"
  /\ \A q \in Proc \ {p} : proc'[q] = proc[q]
  /\ proc'[p].above = proc[p].above /\ proc'[p].cmd = proc[p].cmd
  /\ SameEntry(proc'[p].mywrt, proc[p].mywrt)
  /\ UNCHANGED time

\* It puts its modes in place over those of the ones above it, and takes them back when
\* all below it have; and signals are handled in their order.
MovesInOrder(p) ==
  /\ proc[p].pc = "stopped" /\ proc'[p].pc # "stopped" => \A o \in proc[p].above : InPlace(o)
  /\ InPlace(p) /\ ~ InPlace(p)' => \A q \in Below(p) : proc[q].pc = "stopped"
  /\ Stopped(p) => Stopped(p)'
  /\ Frozen(p)' => Frozen(p)
  /\ proc[p].sig # "cont" /\ proc[p].pc = "stopped" =>
       proc'[p].sig # "cont" /\ proc'[p].pc = "stopped"
  /\ InPlace(p) /\ proc[p].sig \in {"stop", "end"} =>
       /\ proc'[p].sig # "cont"
       /\ proc'[p].pc = "stopped" \/ (InPlace(p)' /\ proc'[p].sig \in {"stop", "end"})
  /\ Shows(p)' # Shows(p) => Below(p) = {} /\ ~ InPlace(p)

\* The entry of its tty says so.
MovesEntry(p) ==
  LET e == EntryOf(Tty[p])' IN
  \/ e = EntryOf(Tty[p]) /\ (InPlace(p)' <=> InPlace(p))
  \/ /\ ~ InPlace(p) /\ ~ Stopped(p) /\ InPlace(p)'
     /\ e.what = Shows(p)' /\ (proc[p].cmd.prog = "write" => e.pid = p)
  \/ /\ proc[p].pc # "stopped" /\ ~ InPlace(p)'
     /\ e.what = proc[p].mywrt.what /\ e.pid = proc[p].mywrt.pid

LEMMA MovesLive ==
  ASSUME IInv, NEW p \in Proc, Moves(p)
  PROVE  /\ \A l \in Line : Live(l)' = Live(l)
         /\ \A q \in Proc : /\ Below(q)' = Below(q)
                            /\ proc'[q].above = proc[q].above
                            /\ proc'[q].cmd = proc[q].cmd
                            /\ SameEntry(proc'[q].mywrt, proc[q].mywrt)
<1>1. \A q \in Proc : /\ proc'[q].above = proc[q].above
                      /\ proc'[q].cmd = proc[q].cmd
                      /\ SameEntry(proc'[q].mywrt, proc[q].mywrt)
                      /\ proc'[q].pc = "out" <=> proc[q].pc = "out"
  BY DEF Moves, SameEntry, Alive
<1>2. \A l \in Line : Live(l)' = Live(l)
  BY <1>1 DEF Live, SameEntry, Moves
<1>3. \A q \in Proc : Below(q)' = Below(q)
  BY <1>1 DEF Below
<1> QED BY <1>1, <1>2, <1>3

\* Whom a process shows goes on being shown by those it is above.
LEMMA MovesShown ==
  ASSUME IInv, UInv, NEW p \in Proc, Moves(p), MovesInOrder(p), NEW q \in Proc,
         ShownBy(proc[q].above, proc[q].mywrt)
  PROVE  ShownBy(proc[q].above, proc[q].mywrt)'
<1>1. /\ proc'[q].above = proc[q].above /\ SameEntry(proc'[q].mywrt, proc[q].mywrt)
      /\ \A x \in Proc : proc'[x].above = proc[x].above /\ proc'[x].cmd = proc[x].cmd
      /\ proc[q].above \in SUBSET Proc
  BY MovesLive, AliveType DEF Process
<1>2. \A x \in proc[q].above : Shows(x)' = Shows(x)
  <2> TAKE x \in proc[q].above
  <2>1. CASE x # p
    BY <1>1, <2>1 DEF Moves, Shows
  <2>2. CASE x = p
    BY <1>1, <2>2 DEF MovesInOrder, Below
  <2> QED BY <2>1, <2>2
<1> QED BY <1>1, <1>2 DEF ShownBy, SameEntry

LEMMA MovesLine ==
  ASSUME IInv, IInv', UInv, UInv', NEW p \in Proc, Moves(p), MovesInOrder(p), MovesEntry(p),
         p \in Live(Tty[p]), LineInv(Tty[p])
  PROVE  LineInv(Tty[p])'
<1> DEFINE l == Tty[p]
<1>1. /\ Live(l)' = Live(l) /\ l \in Line /\ Live(l) \subseteq Proc
      /\ \A q \in Proc : /\ Below(q)' = Below(q)
                         /\ proc'[q].above = proc[q].above
                         /\ proc'[q].cmd = proc[q].cmd
      /\ \A q \in Proc \ {p} : proc'[q] = proc[q]
  BY MovesLive, AliveType DEF Live, Moves
<1>2. \A q \in Live(l) : /\ Opened(q) /\ Freezes(q) /\ ShownBy(proc[q].above, proc[q].mywrt)
                         /\ proc[q].above \subseteq Live(l) /\ Below(q) \subseteq Live(l)
                         /\ q \notin proc[q].above
  BY <1>1, AboveLive DEF LineInv, UInv, TreeInv
<1>3. Running(l)'
  <2>1. \A q \in Live(l) : ~ Stopped(q)' => ~ Stopped(q)
    BY <1>1 DEF Stopped, MovesInOrder
  <2>2. \A q, r \in Live(l) : Comparable(q, r) => Comparable(q, r)'
    BY <1>1 DEF Comparable
  <2> QED BY <1>1, <2>1, <2>2 DEF LineInv, Running
<1>4. ASSUME NEW q \in Live(l) PROVE Opened(q)'
  <2> SUFFICES ASSUME proc'[q].pc # "stopped", NEW o \in proc[q].above PROVE InPlace(o)'
    BY <1>1 DEF Opened
  <2>1. CASE q = p
    <3>1. InPlace(o) /\ o # p /\ o \in Proc
      BY <1>1, <1>2, <2>1 DEF Opened, MovesInOrder
    <3> QED BY <1>1, <3>1 DEF InPlace
  <2>2. CASE q # p
    <3>1. proc[q].pc # "stopped" /\ InPlace(o) /\ o \in Proc
      BY <1>1, <1>2, <2>2 DEF Opened
    <3>2. CASE o # p
      BY <1>1, <3>1, <3>2 DEF InPlace
    <3>3. CASE o = p
      BY <1>1, <3>1, <3>3 DEF MovesInOrder, Below
    <3> QED BY <3>2, <3>3
  <2> QED BY <2>1, <2>2
<1>5. ASSUME NEW q \in Live(l) PROVE Freezes(q)'
  <2> SUFFICES ASSUME Frozen(q)'
               PROVE  /\ \A s \in Below(q) :
                           /\ proc'[s].sig # "cont"
                           /\ \/ proc'[s].pc = "stopped"
                              \/ InPlace(q)' /\ InPlace(s)' /\ proc'[s].sig \in {"stop", "end"}
                      /\ \A r, s \in Below(q) : Comparable(r, s)'
    BY <1>1 DEF Freezes
  <2>1. Frozen(q)
    BY <1>1 DEF Frozen, MovesInOrder
  <2>2. /\ \A s \in Below(q) : /\ proc[s].sig # "cont"
                               /\ \/ proc[s].pc = "stopped"
                                  \/ InPlace(q) /\ InPlace(s) /\ proc[s].sig \in {"stop", "end"}
        /\ \A r, s \in Below(q) : Comparable(r, s)
    BY <1>2, <2>1 DEF Freezes
  <2>3. \A r, s \in Below(q) : Comparable(r, s)'
    BY <1>1, <2>2 DEF Comparable, Below
  <2>4. ASSUME NEW s \in Below(q)
        PROVE  /\ proc'[s].sig # "cont"
               /\ \/ proc'[s].pc = "stopped"
                  \/ InPlace(q)' /\ InPlace(s)' /\ proc'[s].sig \in {"stop", "end"}
    <3>0. s \in Proc /\ q \in proc[s].above /\ s # q
      BY <1>2 DEF Below
    <3>1. CASE s # p /\ q # p
      BY <1>1, <2>2, <3>0, <3>1 DEF InPlace
    <3>2. CASE s = p
      BY <1>1, <2>2, <3>0, <3>2 DEF InPlace, MovesInOrder
    <3>3. CASE q = p
      BY <1>1, <2>2, <3>0, <3>3 DEF InPlace, MovesInOrder
    <3> QED BY <3>1, <3>2, <3>3
  <2> QED BY <2>3, <2>4
<1>6. \A q \in Live(l) : ShownBy(proc[q].above, proc[q].mywrt)'
  BY <1>1, <1>2, MovesShown
<1>7. ShownBy(On(l), EntryOf(l))'
  <2>0. /\ ShownBy(On(l), EntryOf(l)) /\ Running(l) /\ \A q \in Live(l) : Opened(q)
        /\ On(l) \subseteq Live(l)
    BY DEF LineInv, On
  <2>1. \A q \in Live(l) : q \in On(l)' <=> InPlace(q)'
    BY <1>1 DEF On
  <2>2. On(l)' \subseteq Live(l) /\ On(l)' \ {p} = On(l) \ {p}
    BY <1>1 DEF On, InPlace
  <2>3. CASE EntryOf(l)' = EntryOf(l) /\ (InPlace(p)' <=> InPlace(p))
    <3>1. On(l)' = On(l)
      BY <1>1, <2>2, <2>3 DEF On
    <3>2. \A x \in On(l) : Shows(x)' = Shows(x) /\ x \in Proc
      <4> TAKE x \in On(l)
      <4>1. CASE x = p
        BY <4>1 DEF MovesInOrder, On
      <4>2. CASE x # p
        BY <1>1, <2>0, <4>2 DEF Shows
      <4> QED BY <1>1, <2>0, <4>1, <4>2
    <3> QED BY <1>1, <2>0, <2>3, <3>1, <3>2 DEF ShownBy
  <2>4. ASSUME InPlace(p) => \A q \in Below(p) : proc[q].pc = "stopped"
        PROVE  \A q \in Below(p) : ~ InPlace(q)
    <3> TAKE q \in Below(p)
    <3>1. q \in Live(l) /\ p \in proc[q].above
      BY <1>2 DEF Below
    <3> QED BY <1>2, <2>4, <3>1 DEF Opened, InPlace
  <2>5. CASE /\ ~ InPlace(p) /\ ~ Stopped(p) /\ InPlace(p)'
             /\ EntryOf(l)'.what = Shows(p)'
             /\ (proc[p].cmd.prog = "write" => EntryOf(l)'.pid = p)
    <3>1. \A o \in proc[p].above : InPlace(o)
      BY <1>2, <2>5 DEF Opened, MovesInOrder, InPlace
    <3>2. On(l) \ {p} = proc[p].above
      BY <1>1, <2>0, <2>4, <2>5, <3>1, Under
    <3>3. On(l)' = proc'[p].above \cup {p}
      BY <1>1, <2>1, <2>2, <2>5, <3>2
    <3> QED BY <1>1, <2>5, <3>3 DEF ShownBy
  <2>6. CASE /\ proc[p].pc # "stopped" /\ ~ InPlace(p)'
             /\ EntryOf(l)'.what = proc[p].mywrt.what /\ EntryOf(l)'.pid = proc[p].mywrt.pid
    <3>1. \A o \in proc[p].above : InPlace(o)
      BY <1>2, <2>6 DEF Opened
    <3>2. ~ Stopped(p) /\ (InPlace(p) => \A q \in Below(p) : proc[q].pc = "stopped")
      BY <2>6 DEF Stopped, MovesInOrder
    <3>3. On(l) \ {p} = proc[p].above
      BY <1>1, <2>0, <2>4, <3>1, <3>2, Under
    <3>4. On(l)' = proc'[p].above
      BY <1>1, <2>1, <2>2, <2>6, <3>3
    <3>5. ShownBy(proc[p].above, proc[p].mywrt)' /\ SameEntry(proc'[p].mywrt, proc[p].mywrt)
      BY <1>6 DEF Moves
    <3> QED BY <2>6, <3>4, <3>5 DEF ShownBy, SameEntry
  <2> QED BY <2>3, <2>5, <2>6 DEF MovesEntry
<1> QED BY <1>1, <1>3, <1>4, <1>5, <1>6, <1>7 DEF LineInv

-----------------------------------------------------------------------------
(* A process ends.                                                         *)

LEMMA EndsOthers ==
  ASSUME IInv, NEW p \in Proc, Ends({p}), NEW q \in Proc, q # p, p \notin proc[q].above
  PROVE  proc'[q] = proc[q]
<1>1. proc[q] \in Process
  BY AliveType
<1>2. proc'[q] = [proc[q] EXCEPT !.above = proc[q].above \ {p}]
  BY <1>1 DEF Ends, Process
<1>3. proc[q].above \ {p} = proc[q].above
  OBVIOUS
<1>4. [proc[q] EXCEPT !.above = proc[q].above] = proc[q]
  BY <1>1 DEF Process
<1> QED BY <1>2, <1>3, <1>4

LEMMA EndsCarries ==
  ASSUME IInv, NEW S \in SUBSET Proc, Ends(S)
  PROVE  Carries(S) /\ \A q \in Proc \ S : /\ proc'[q].pc = proc[q].pc
                                           /\ proc'[q].fixed = proc[q].fixed
                                           /\ proc'[q].sig = proc[q].sig
                                           /\ proc'[q].was = proc[q].was
<1>1. \A q \in Proc : proc[q] \in Process
  BY AliveType
<1>2. \A q \in Proc : proc'[q] = IF q \in S THEN Idle ELSE [proc[q] EXCEPT !.above = @ \ S]
  BY DEF Ends
<1>3. ASSUME NEW q \in Proc \ S
      PROVE  /\ proc'[q].pc = proc[q].pc /\ proc'[q].fixed = proc[q].fixed
             /\ proc'[q].sig = proc[q].sig /\ proc'[q].was = proc[q].was
             /\ proc'[q].above = proc[q].above \ S
             /\ proc'[q].cmd = proc[q].cmd /\ proc'[q].mywrt = proc[q].mywrt
  <2> DEFINE a == proc[q].above \ S
             r == [proc[q] EXCEPT !.above = a]
  <2>1. proc'[q] = r
    BY <1>1, <1>2 DEF Process
  <2>2. proc[q] \in Process
    BY <1>1
  <2> HIDE DEF a
  <2>3. /\ r.pc = proc[q].pc /\ r.fixed = proc[q].fixed /\ r.sig = proc[q].sig
        /\ r.was = proc[q].was /\ r.above = a /\ r.cmd = proc[q].cmd
        /\ r.mywrt = proc[q].mywrt
    BY <2>2 DEF Process
  <2> HIDE DEF r
  <2> QED BY <2>1, <2>3 DEF a
<1> QED BY <1>2, <1>3 DEF Carries, SameEntry

\* Nobody is left in its shell, and the entry of its tty is the one it found.
EndsEntry(p) ==
  LET e == EntryOf(Tty[p])' IN
  \/ e = EntryOf(Tty[p]) /\ ~ InPlace(p)
  \/ /\ proc[p].pc # "stopped"
     /\ e.what = proc[p].mywrt.what /\ e.pid = proc[p].mywrt.pid

LEMMA EndsLine ==
  ASSUME IInv, IInv', UInv, UInv', NEW p \in Proc, Ends({p}), EndsEntry(p), UNCHANGED time,
         Below(p) = {}, p \in Live(Tty[p]), LineInv(Tty[p])
  PROVE  LineInv(Tty[p])'
<1> DEFINE l == Tty[p]
<1>1. /\ l \in Line /\ Live(l) \subseteq Proc
      /\ proc'[p] = Idle /\ \A q \in Proc \ {p} : proc'[q] = proc[q]
  BY AliveType, EndsOthers DEF Live, Below, Ends
<1>2. Live(l)' = Live(l) \ {p}
  BY <1>1, IdleFields DEF Live
<1>3. \A q \in Live(l) : /\ Opened(q) /\ Freezes(q) /\ ShownBy(proc[q].above, proc[q].mywrt)
                         /\ proc[q].above \subseteq Live(l) /\ Below(q) \subseteq Live(l)
                         /\ p \notin proc[q].above
  BY <1>1, AboveLive DEF LineInv, UInv, Below
<1>4. \A q \in Live(l)' : /\ q \in Live(l) /\ proc'[q] = proc[q]
                          /\ Below(q)' \subseteq Below(q)
                          /\ \A x \in proc[q].above : proc'[x] = proc[x]
  <2> TAKE q \in Live(l)'
  <2>1. q \in Live(l) /\ q # p
    BY <1>2
  <2>2. Below(q)' \subseteq Below(q)
    BY <1>1, IdleFields DEF Below
  <2> QED BY <1>1, <1>3, <2>1, <2>2
<1>5. Running(l)'
  BY <1>1, <1>4 DEF LineInv, Running, Stopped, Comparable
<1>6. ASSUME NEW q \in Live(l)'
      PROVE  Opened(q)' /\ Freezes(q)' /\ ShownBy(proc[q].above, proc[q].mywrt)'
  <2>1. /\ q \in Live(l) /\ proc'[q] = proc[q] /\ Below(q)' \subseteq Below(q) /\ q # p
        /\ \A x \in proc[q].above : proc'[x] = proc[x]
    BY <1>2, <1>4
  <2>2. Opened(q)'
    BY <1>3, <2>1 DEF Opened, InPlace
  <2>3. Freezes(q)'
    <3>1. \A s \in Below(q)' : s \in Below(q) /\ proc'[s] = proc[s]
      <4> TAKE s \in Below(q)'
      <4>1. s \in Below(q) /\ s \in Proc /\ s # p
        BY <1>1, <2>1, IdleFields DEF Below
      <4> QED BY <1>1, <4>1
    <3> QED BY <1>3, <2>1, <3>1 DEF Freezes, Frozen, InPlace, Comparable
  <2>4. ShownBy(proc[q].above, proc[q].mywrt)'
    BY <1>3, <2>1 DEF ShownBy, Shows
  <2> QED BY <2>2, <2>3, <2>4
<1>7. ShownBy(On(l), EntryOf(l))'
  <2>1. ShownBy(On(l), EntryOf(l)) /\ Running(l) /\ On(l) \subseteq Live(l)
    BY DEF LineInv, On
  <2>2. On(l)' = On(l) \ {p}
    BY <1>2, <1>4 DEF On, InPlace
  <2>3. CASE EntryOf(l)' = EntryOf(l) /\ ~ InPlace(p)
    <3>1. On(l)' = On(l) /\ \A x \in On(l) : proc'[x] = proc[x]
      BY <1>1, <2>1, <2>2, <2>3 DEF On
    <3> QED BY <2>1, <2>3, <3>1 DEF ShownBy, Shows
  <2>4. CASE /\ proc[p].pc # "stopped"
             /\ EntryOf(l)'.what = proc[p].mywrt.what /\ EntryOf(l)'.pid = proc[p].mywrt.pid
    <3>1. (\A o \in proc[p].above : InPlace(o)) /\ ~ Stopped(p) /\ \A q \in Below(p) : ~ InPlace(q)
      BY <1>3, <2>4 DEF Opened, Stopped
    <3>2. On(l)' = proc[p].above
      BY <1>1, <1>3, <2>1, <2>2, <3>1, Under
    <3>3. \A x \in proc[p].above : proc'[x] = proc[x] /\ x # p
      BY <1>1, <1>3
    <3>4. ShownBy(proc[p].above, proc[p].mywrt)
      BY <1>3
    <3> QED BY <2>4, <3>2, <3>3, <3>4 DEF ShownBy, Shows
  <2> QED BY <2>3, <2>4 DEF EndsEntry
<1> QED BY <1>5, <1>6, <1>7 DEF LineInv

-----------------------------------------------------------------------------
(* A signal is sent.                                                       *)

\* Nothing changes but sig, and the place of do_disconnect().
Signals ==
  /\ \A q \in Proc : /\ proc'[q].pc = proc[q].pc /\ proc'[q].above = proc[q].above
                     /\ proc'[q].cmd = proc[q].cmd /\ proc'[q].mywrt = proc[q].mywrt
                     /\ proc'[q].him = proc[q].him /\ proc'[q].was = proc[q].was
                     /\ proc'[q].fixed = proc[q].fixed /\ proc'[q].keep = proc[q].keep
                     /\ proc'[q].mypos = proc[q].mypos /\ proc'[q].myperm = proc[q].myperm
  /\ UNCHANGED <<owner, time, file, upset, raced>>

LEMMA SignalsLive ==
  ASSUME Signals
  PROVE  /\ \A l \in Line : Live(l)' = Live(l) /\ EntryOf(l)' = EntryOf(l) /\ On(l)' = On(l)
         /\ \A q \in Proc : Below(q)' = Below(q)
<1>1. \A l \in Line : Live(l)' = Live(l) /\ EntryOf(l)' = EntryOf(l)
  BY EntryKept DEF Signals, Live
<1>2. \A l \in Line : On(l)' = On(l)
  BY <1>1 DEF Signals, On, InPlace, Live
<1>3. \A q \in Proc : Below(q)' = Below(q)
  BY DEF Signals, Below
<1> QED BY <1>1, <1>2, <1>3

LEMMA SignalsInv ==
  ASSUME IInv, IInv', UInv, Signals, \A q \in Proc : Placed(proc'[q])
  PROVE  UInv'
<1>1. Carries({}) /\ WritesOwn
  BY DEF Signals, Carries, SameEntry, WritesOwn
<1>2. \A q \in Proc : Below(q) # {} => HasShell(proc'[q])
  <2> SUFFICES ASSUME NEW q \in Proc, Below(q) # {} PROVE HasShell(proc'[q])
    OBVIOUS
  <2>1. HasShell(proc[q])
    BY DEF Below, UInv, AboveInv
  <2> QED BY <2>1 DEF HasShell, Signals
<1> QED BY <1>1, <1>2, CarriesInv DEF Signals

\* What remains to be seen is which are stopped.
LEMMA SignalsLine ==
  ASSUME IInv, UInv, Signals, NEW l \in Line, LineInv(l), Running(l)',
         \A p \in Live(l) : Freezes(p)'
  PROVE  LineInv(l)'
<1>1. /\ Live(l)' = Live(l) /\ EntryOf(l)' = EntryOf(l) /\ On(l)' = On(l)
      /\ Live(l) \subseteq Proc /\ On(l) \subseteq Proc
      /\ \A p \in Live(l) : proc[p].above \subseteq Live(l)
  BY SignalsLive, AboveLive DEF Live, On, UInv
<1>2. \A p \in Live(l) : Opened(p)'
  BY <1>1 DEF LineInv, Opened, InPlace, Signals
<1>3. \A x \in Proc : Shows(x)' = Shows(x)
  BY DEF Shows, Signals
<1>4. \A p \in Live(l) : ShownBy(proc[p].above, proc[p].mywrt)'
  BY <1>1, <1>3 DEF LineInv, ShownBy, Signals
<1>5. ShownBy(On(l), EntryOf(l))'
  BY <1>1, <1>3 DEF LineInv, ShownBy, Signals
<1> QED BY <1>1, <1>2, <1>4, <1>5 DEF LineInv

-----------------------------------------------------------------------------
(* A step of one process.                                                  *)

\* It writes at most the entry of its own tty, and a late write is noted.
Own(p) ==
  /\ Alive(p) /\ UNCHANGED <<owner, time, raced>>
  /\ upset \subseteq upset' /\ upset' \subseteq upset \cup {Tty[p]}
  /\ Moves(p) \/ Ends({p})
  /\ \/ UNCHANGED file
     \/ /\ Late(p) => Tty[p] \in upset'
        /\ \E e \in Entry : e.line = Tty[p] /\ e.time = proc[p].mywrt.time /\ Put(p, e)

\* What it does when its login is the present one, and no accident has happened.
OwnMoves(p) ==
  /\ Moves(p) /\ Placed(proc'[p])
  /\ Below(p) # {} => HasShell(proc'[p])
  /\ p \in Live(Tty[p]) /\ Calm(Tty[p])' => MovesInOrder(p) /\ MovesEntry(p)
OwnEnds(p) ==
  /\ Ends({p})
  /\ p \in Live(Tty[p]) /\ Calm(Tty[p])' => Below(p) = {} /\ EndsEntry(p)

\* The other processes are as they were, but for their place below it.
LEMMA OwnInv ==
  ASSUME IInv, IInv', UInv, NEW p \in Proc, Own(p), OwnMoves(p) \/ OwnEnds(p)
  PROVE  UInv'
<1>1. WritesOwn /\ UNCHANGED time /\ Alive(p)
  BY DEF Own, WritesOwn
<1>2. \A q \in Proc : /\ Placed(proc[q])
                      /\ Below(q) # {} => HasShell(proc[q])
  BY DEF UInv, PlaceInv, AboveInv, Below
<1>3. CASE OwnMoves(p)
  <2>1. Carries({})
    <3>1. \A q \in Proc : q # p => proc'[q] = proc[q]
      BY <1>3 DEF OwnMoves, Moves
    <3>2. /\ proc'[p].pc # "out" /\ proc[p].pc # "out" /\ proc'[p].above = proc[p].above
          /\ proc'[p].cmd = proc[p].cmd /\ SameEntry(proc'[p].mywrt, proc[p].mywrt)
      BY <1>3 DEF OwnMoves, Moves, Alive
    <3> QED BY <3>1, <3>2 DEF Carries, SameEntry
  <2>2. \A q \in Proc : Placed(proc'[q]) /\ (Below(q) # {} => HasShell(proc'[q]))
    <3> TAKE q \in Proc
    <3>1. CASE q = p
      BY <1>3, <3>1 DEF OwnMoves
    <3>2. CASE q # p
      BY <1>2, <1>3, <3>2 DEF OwnMoves, Moves
    <3> QED BY <3>1, <3>2
  <2> QED BY <1>1, <2>1, <2>2, CarriesInv
<1>4. CASE OwnEnds(p)
  <2>1. /\ Carries({p})
        /\ \A q \in Proc \ {p} : /\ proc'[q].pc = proc[q].pc /\ proc'[q].fixed = proc[q].fixed
                                 /\ proc'[q].sig = proc[q].sig /\ proc'[q].was = proc[q].was
    BY <1>4, EndsCarries DEF OwnEnds
  <2>2. \A q \in Proc \ {p} : proc'[q].cmd = proc[q].cmd
    BY <2>1 DEF Carries
  <2>3. \A q \in Proc \ {p} : Placed(proc'[q]) /\ (Below(q) # {} => HasShell(proc'[q]))
    BY <1>2, <2>1, <2>2 DEF Placed, HasShell
  <2> QED BY <1>1, <2>1, <2>3, CarriesInv
<1> QED BY <1>3, <1>4

\* On other lines, and on its own in a later login, nothing happens.
LEMMA OwnSame ==
  ASSUME IInv, IInv', UInv, NEW p \in Proc, Own(p), NEW l \in Line,
         p \notin Live(l), Calm(l)'
  PROVE  Calm(l) /\ Same(l)
<1>1. Calm(l)
  BY DEF Own, Calm
<1>2. \A q \in Live(l) : q \in Proc /\ proc'[q] = proc[q]
  <2> TAKE q \in Live(l)
  <2>1. q \in Proc /\ q # p /\ p \notin proc[q].above
    BY AboveLive DEF Live, UInv
  <2>2. CASE Moves(p)
    BY <2>1, <2>2 DEF Moves
  <2>3. CASE Ends({p})
    BY <2>1, <2>3, EndsOthers
  <2> QED BY <2>1, <2>2, <2>3 DEF Own
<1>3. Live(l)' = Live(l)
  <2>1. \A q \in Proc : q # p => (/\ proc'[q].pc = proc[q].pc
                                  /\ proc'[q].mywrt.time = proc[q].mywrt.time)
    <3>1. CASE Moves(p)
      BY <3>1 DEF Moves
    <3>2. CASE Ends({p})
      BY <3>2, EndsCarries DEF Carries, SameEntry
    <3> QED BY <3>1, <3>2 DEF Own
  <2>2. p \notin Live(l)'
    <3>1. CASE Moves(p)
      BY <3>1 DEF Moves, SameEntry, Live, Alive
    <3>2. CASE Ends({p})
      BY <3>2, IdleFields DEF Ends, Live
    <3> QED BY <3>1, <3>2 DEF Own
  <2> QED BY <2>1, <2>2 DEF Live, Own
<1>4. EntryOf(l)' = EntryOf(l)
  <2>1. CASE UNCHANGED file
    BY <2>1, EntryKept DEF Own
  <2>2. CASE /\ Late(p) => Tty[p] \in upset'
             /\ \E e \in Entry : e.line = Tty[p] /\ e.time = proc[p].mywrt.time /\ Put(p, e)
    <3>1. l # Tty[p]
      BY <2>2 DEF Late, Live, Calm, Own, Alive
    <3>2. PICK e \in Entry : e.line = Tty[p] /\ Put(p, e)
      BY <2>2
    <3> QED BY <1>1, <3>1, <3>2, EntryPut DEF Calm, Own
  <2> QED BY <2>1, <2>2 DEF Own
<1> QED BY <1>1, <1>2, <1>3, <1>4 DEF Same

LEMMA OwnStep ==
  ASSUME IInv, IInv', UInv, LinesInv, NEW p \in Proc, Own(p), OwnMoves(p) \/ OwnEnds(p)
  PROVE  UInv' /\ LinesInv'
<1>1. UInv'
  BY OwnInv
<1>2. ASSUME NEW l \in Line, Calm(l)' PROVE LineInv(l)'
  <2>1. CASE p \notin Live(l)
    BY <1>1, <1>2, <2>1, OwnSame, SameLine DEF LinesInv
  <2>2. CASE p \in Live(l)
    <3>1. l = Tty[p] /\ LineInv(Tty[p])
      BY <1>2, <2>2 DEF Live, Calm, Own, LinesInv
    <3>2. CASE OwnMoves(p)
      BY <1>1, <1>2, <2>2, <3>1, <3>2, MovesLine DEF OwnMoves
    <3>3. CASE OwnEnds(p)
      BY <1>1, <1>2, <2>2, <3>1, <3>3, EndsLine DEF OwnEnds, Own
    <3> QED BY <3>2, <3>3
  <2> QED BY <2>1, <2>2
<1> QED BY <1>1, <1>2 DEF LinesInv

\* In the present login the entry is the one it writes.
LEMMA OwnEntry ==
  ASSUME IInv, IInv', NEW p \in Proc, Own(p), p \in Live(Tty[p]), Calm(Tty[p])'
  PROVE  /\ UNCHANGED file => EntryOf(Tty[p])' = EntryOf(Tty[p])
         /\ \A e \in Entry : /\ e.line = Tty[p] /\ e.time = proc[p].mywrt.time /\ Put(p, e)
                             => EntryOf(Tty[p])' = e
<1>1. Tty[p] \in Line /\ UNCHANGED time /\ ~ raced /\ Alive(p)
      /\ proc[p].mywrt.time = time[Tty[p]]
  BY AliveType DEF Own, Calm, Live
<1> QED BY <1>1, EntryPut, EntryKept

-----------------------------------------------------------------------------
(* The actions of a process: what they keep.                               *)

LEMMA MarkGrows ==
  ASSUME NEW p \in Proc, NEW a, Mark(p, a)
  PROVE  /\ upset \subseteq upset' /\ upset' \subseteq upset \cup {Tty[p]}
         /\ Late(p) => Tty[p] \in upset'
         /\ Tty[p] \notin upset' => ~ a
  BY DEF Mark

\* One that changes only its places.
LEMMA BecomesMoves ==
  ASSUME IInv, NEW p \in Proc, Alive(p), NEW r, Becomes(p, r), r.pc # "out",
         r.above = proc[p].above, r.cmd = proc[p].cmd, SameEntry(r.mywrt, proc[p].mywrt),
         UNCHANGED time
  PROVE  Moves(p) /\ proc'[p] = r
<1>1. proc' = [proc EXCEPT ![p] = r] /\ proc \in [Proc -> Process]
  BY DEF Becomes, IInv, WrtTypeOK
<1>2. proc'[p] = r /\ \A q \in Proc \ {p} : proc'[q] = proc[q]
  BY <1>1
<1> QED BY <1>2 DEF Moves

LEMMA TempShows ==
  ASSUME IInv, NEW p \in Proc, Alive(p)
  PROVE  /\ Temp(p) \in Entry /\ Temp(p).line = Tty[p]
         /\ Temp(p).time = proc[p].mywrt.time /\ Temp(p).what = Shows(p)
         /\ proc[p].cmd.prog # "amin" => Temp(p).pid = p
<1> DEFINE e == [proc[p].mywrt EXCEPT !.rec = IF proc[p].cmd.post THEN "a" ELSE @]
<1>1. proc[p].mywrt \in Entry
  BY AliveType
<1>2. e \in Entry /\ e.time = proc[p].mywrt.time
  BY <1>1 DEF Entry, Record
<1>3. /\ [e EXCEPT !.what = Command].what = Command
      /\ [e EXCEPT !.what = Command].time = e.time
      /\ [e EXCEPT !.what = proc[p].him, !.pid = p].what = proc[p].him
      /\ [e EXCEPT !.what = proc[p].him, !.pid = p].pid = p
      /\ [e EXCEPT !.what = proc[p].him, !.pid = p].time = e.time
  BY <1>2 DEF Entry
<1>4. Temp(p) = IF proc[p].cmd.prog = "amin" THEN [e EXCEPT !.what = Command]
                                             ELSE [e EXCEPT !.what = proc[p].him, !.pid = p]
  BY DEF Temp
<1> HIDE DEF e
<1> QED BY <1>2, <1>3, <1>4, TempEntry DEF Shows

\* Only a process with a shell has others below it.
LEMMA NoneBelow ==
  ASSUME UInv, NEW p \in Proc, ~ HasShell(proc[p])
  PROVE  Below(p) = {}
  BY DEF UInv, AboveInv, Below

\* What the parts of the invariant say of a process.
LEMMA PlaceOf ==
  ASSUME IInv, UInv, NEW p \in Proc
  PROVE  /\ proc[p] \in Process /\ Placed(proc[p])
         /\ Below(p) # {} => HasShell(proc[p])
  BY AliveType, NoneBelow DEF UInv, PlaceInv

-----------------------------------------------------------------------------
(* The actions of a process: set_modes(), and what it does before.         *)

LEMMA SetModesOwn ==
  ASSUME IInv, IInv', UInv, NEW p \in Proc, SetModes(p)
  PROVE  Own(p) /\ OwnMoves(p)
<1> DEFINE r == proc[p]
<1>1. /\ Alive(p) /\ r \in Process /\ Placed(r) /\ (Below(p) # {} => HasShell(r))
      /\ r.cmd.prog = "write" /\ r.pc \in {"ask", "wake"}
      /\ r.him \in User \cup {NoUser} /\ r.was \in {"talk", "shell"}
      /\ UNCHANGED <<owner, time, raced>> /\ Mark(p, FALSE)
  BY PlaceOf DEF SetModes, Alive, Process, utmp
<1>2. PICK him \in IF r.pc = "wake" THEN {r.him} ELSE {owner[l] : l \in Line} \ {NoUser} :
        /\ Becomes(p, [r EXCEPT !.him = him, !.fixed = TRUE,
                                !.pc = IF @ = "wake" THEN r.was ELSE "talk", !.was = "talk"])
        /\ Put(p, [Temp(p) EXCEPT !.what = him])
  BY DEF SetModes
<1> DEFINE n == [r EXCEPT !.him = him, !.fixed = TRUE,
                          !.pc = IF @ = "wake" THEN r.was ELSE "talk", !.was = "talk"]
           e == [Temp(p) EXCEPT !.what = him]
<1>3. /\ n.above = r.above /\ n.cmd = r.cmd /\ n.mywrt = r.mywrt /\ n.him = him
      /\ n.fixed = TRUE /\ n.sig = r.sig
      /\ n.pc = IF r.pc = "wake" THEN r.was ELSE "talk"
  BY <1>1 DEF Process
<1>4. him \in User \cup {NoUser} /\ (r.pc = "wake" => him = r.him)
  BY <1>1, <1>2 DEF IInv, WrtTypeOK
<1>5. e \in Entry /\ e.line = Tty[p] /\ e.time = r.mywrt.time /\ e.what = him /\ e.pid = p
  BY <1>1, <1>4, TempShows DEF Entry
<1>6. Becomes(p, n) /\ Put(p, e)
  BY <1>2
<1> HIDE DEF n, e
<1>7. Moves(p) /\ proc'[p] = n
  BY <1>1, <1>3, <1>6, BecomesMoves DEF SameEntry
<1>8. Own(p)
  BY <1>1, <1>5, <1>6, <1>7, MarkGrows DEF Own
<1>9. Placed(n) /\ (Below(p) # {} => HasShell(n))
  BY <1>1, <1>3 DEF Placed, HasShell
<1>10. ASSUME p \in Live(Tty[p]), Calm(Tty[p])' PROVE MovesInOrder(p) /\ MovesEntry(p)
  <2>1. EntryOf(Tty[p])' = e
    BY <1>5, <1>6, <1>8, <1>10, OwnEntry
  <2>2. ~ InPlace(p) /\ InPlace(p)' /\ ~ Stopped(p) /\ ~ Frozen(p) /\ ~ Frozen(p)' /\ ~ Stopped(p)'
    BY <1>1, <1>3, <1>7 DEF InPlace, Stopped, Frozen, Placed
  <2>3. Shows(p)' = him /\ (Shows(p) # him => Below(p) = {})
    BY <1>1, <1>3, <1>4, <1>7 DEF Shows, HasShell
  <2>4. MovesInOrder(p)
    BY <1>1, <2>2, <2>3 DEF MovesInOrder, InPlace
  <2>5. MovesEntry(p)
    BY <1>5, <2>1, <2>2, <2>3 DEF MovesEntry
  <2> QED BY <2>4, <2>5
<1> QED BY <1>7, <1>8, <1>9, <1>10 DEF OwnMoves

LEMMA AminOwn ==
  ASSUME IInv, IInv', UInv, NEW p \in Proc, Amin(p)
  PROVE  Own(p) /\ OwnMoves(p)
<1> DEFINE r == proc[p]
           n == [r EXCEPT !.pc = "shell", !.fixed = TRUE]
<1>1. /\ Alive(p) /\ r \in Process /\ Placed(r) /\ (Below(p) # {} => HasShell(r))
      /\ r.cmd.prog = "amin" /\ r.pc = "ask"
      /\ UNCHANGED <<owner, time, raced>> /\ Mark(p, FALSE) /\ Put(p, Temp(p)) /\ Becomes(p, n)
  BY PlaceOf DEF Amin, Alive, utmp
<1>2. /\ n.above = r.above /\ n.cmd = r.cmd /\ n.mywrt = r.mywrt /\ n.him = r.him
      /\ n.pc = "shell" /\ n.sig = r.sig
  BY <1>1 DEF Process
<1> HIDE DEF n
<1>3. Moves(p) /\ proc'[p] = n
  BY <1>1, <1>2, BecomesMoves DEF SameEntry
<1>4. Own(p)
  BY <1>1, <1>3, MarkGrows, TempShows DEF Own
<1>5. Placed(n) /\ HasShell(n)
  BY <1>1, <1>2 DEF Placed, HasShell
<1>6. ASSUME p \in Live(Tty[p]), Calm(Tty[p])' PROVE MovesInOrder(p) /\ MovesEntry(p)
  <2>1. EntryOf(Tty[p])' = Temp(p) /\ Temp(p).what = Shows(p)
    BY <1>1, <1>4, <1>6, OwnEntry, TempShows
  <2>2. ~ InPlace(p) /\ InPlace(p)' /\ ~ Stopped(p) /\ ~ Frozen(p) /\ ~ Frozen(p)' /\ ~ Stopped(p)'
    BY <1>1, <1>2, <1>3 DEF InPlace, Stopped, Frozen, Placed
  <2>3. Shows(p)' = Shows(p)
    BY <1>1, <1>2, <1>3 DEF Shows
  <2>4. MovesInOrder(p)
    BY <1>1, <2>2, <2>3 DEF MovesInOrder, InPlace
  <2>5. MovesEntry(p)
    BY <1>1, <2>1, <2>2, <2>3 DEF MovesEntry
  <2> QED BY <2>4, <2>5
<1> QED BY <1>3, <1>4, <1>5, <1>6 DEF OwnMoves

\* Those that end before they have put anything in place.
LEMMA LeaveOwn ==
  ASSUME IInv, IInv', UInv, NEW p \in Proc, Leave(p) \/ MesgEnds(p)
  PROVE  Own(p) /\ OwnEnds(p)
<1>1. /\ Alive(p) /\ proc[p].pc \in {"ask", "scan"} /\ Ends({p})
      /\ UNCHANGED <<owner, time, raced, file, upset>>
  BY DEF Leave, MesgEnds, Alive, utmp
<1>2. Own(p)
  BY <1>1 DEF Own
<1>3. Below(p) = {} /\ ~ InPlace(p)
  BY <1>1, NoneBelow DEF HasShell, InPlace
<1>4. EntryOf(Tty[p])' = EntryOf(Tty[p])
  BY <1>1, AliveType, EntryKept
<1> QED BY <1>1, <1>2, <1>3, <1>4 DEF OwnEnds, EndsEntry

LEMMA TelOwn ==
  ASSUME IInv, IInv', UInv, NEW p \in Proc, Tel(p)
  PROVE  Own(p) /\ OwnEnds(p)
<1>1. /\ Alive(p) /\ proc[p].pc = "ask" /\ Ends({p}) /\ Mark(p, FALSE)
      /\ Put(p, proc[p].mywrt) \/ UNCHANGED file
      /\ UNCHANGED <<owner, time, raced>>
      /\ proc[p].mywrt \in Entry /\ proc[p].mywrt.line = Tty[p]
  BY AliveType DEF Tel, Alive, utmp
<1>2. Own(p)
  BY <1>1, MarkGrows DEF Own
<1>3. Below(p) = {} /\ ~ InPlace(p)
  BY <1>1, NoneBelow DEF HasShell, InPlace
<1>4. ASSUME p \in Live(Tty[p]), Calm(Tty[p])' PROVE EndsEntry(p)
  BY <1>1, <1>2, <1>3, <1>4, OwnEntry DEF EndsEntry
<1> QED BY <1>1, <1>2, <1>3, <1>4 DEF OwnEnds

LEMMA MesgOwn ==
  ASSUME IInv, IInv', UInv, NEW p \in Proc, Mesg(p)
  PROVE  Own(p) /\ (OwnMoves(p) \/ OwnEnds(p))
<1> DEFINE r == proc[p]
           l == Tty[p]
           n == [r EXCEPT !.pc = "scan", !.slot = 1, !.him = owner[l]]
<1>1. /\ Alive(p) /\ r \in Process /\ Placed(r) /\ (Below(p) # {} => HasShell(r))
      /\ r.cmd.prog = "mesg" /\ r.pc = "ask"
      /\ UNCHANGED <<owner, time, raced>> /\ Mark(p, FALSE)
      /\ IF r.cmd.disconnect THEN Becomes(p, n) ELSE Ends({p})
      /\ r.mywrt \in Entry /\ r.mywrt.line = l /\ r.cmd \in Commands
  BY PlaceOf, AliveType DEF Mesg, Alive, utmp
<1>2. /\ n.above = r.above /\ n.cmd = r.cmd /\ n.mywrt = r.mywrt
      /\ n.pc = "scan" /\ n.sig = r.sig
  BY <1>1 DEF Process
<1> HIDE DEF n
<1>3. \/ UNCHANGED file
      \/ \E e \in Entry : /\ e.line = l /\ e.time = r.mywrt.time /\ Put(p, e)
                          /\ e.what = r.mywrt.what /\ e.pid = r.mywrt.pid
  <2>1. UNCHANGED file \/ \E c \in IF r.cmd.recs = {} THEN {r.mywrt.rec} ELSE r.cmd.recs :
                            Put(p, [r.mywrt EXCEPT !.rec = c])
    BY DEF Mesg
  <2>2. ASSUME NEW c \in IF r.cmd.recs = {} THEN {r.mywrt.rec} ELSE r.cmd.recs,
               Put(p, [r.mywrt EXCEPT !.rec = c])
        PROVE  \E e \in Entry : /\ e.line = l /\ e.time = r.mywrt.time /\ Put(p, e)
                                /\ e.what = r.mywrt.what /\ e.pid = r.mywrt.pid
    <3> DEFINE e == [r.mywrt EXCEPT !.rec = c]
    <3>1. c \in Record
      BY <1>1, <2>2 DEF Entry, Record, Commands
    <3>2. /\ e \in Entry /\ e.line = r.mywrt.line /\ e.time = r.mywrt.time
          /\ e.what = r.mywrt.what /\ e.pid = r.mywrt.pid
      BY <1>1, <3>1 DEF Entry
    <3>3. Put(p, e)
      BY <2>2
    <3> HIDE DEF e
    <3> QED BY <1>1, <3>2, <3>3
  <2> QED BY <2>1, <2>2
<1>4. CASE r.cmd.disconnect
  <2>1. Moves(p) /\ proc'[p] = n
    BY <1>1, <1>2, <1>4, BecomesMoves DEF SameEntry
  <2>2. Own(p)
    BY <1>1, <1>3, <2>1, MarkGrows DEF Own
  <2>3. Placed(n) /\ Below(p) = {}
    BY <1>1, <1>2 DEF Placed, HasShell
  <2>4. ASSUME p \in Live(l), Calm(l)' PROVE MovesInOrder(p) /\ MovesEntry(p)
    <3>1. /\ ~ InPlace(p) /\ ~ InPlace(p)' /\ ~ Stopped(p) /\ ~ Frozen(p) /\ ~ Frozen(p)'
          /\ ~ Stopped(p)' /\ r.pc # "stopped"
      BY <1>1, <1>2, <2>1 DEF InPlace, Stopped, Frozen, Placed
    <3>2. MovesInOrder(p)
      BY <2>3, <3>1 DEF MovesInOrder
    <3>3. MovesEntry(p)
      BY <1>3, <2>2, <2>4, <3>1, OwnEntry DEF MovesEntry
    <3> QED BY <3>2, <3>3
  <2> QED BY <2>1, <2>2, <2>3, <2>4 DEF OwnMoves
<1>5. CASE ~ r.cmd.disconnect
  <2>1. Own(p)
    BY <1>1, <1>3, <1>5, MarkGrows DEF Own
  <2>2. Below(p) = {} /\ ~ InPlace(p) /\ r.pc # "stopped"
    BY <1>1 DEF HasShell, InPlace
  <2>3. ASSUME p \in Live(l), Calm(l)' PROVE EndsEntry(p)
    BY <1>3, <2>1, <2>2, <2>3, OwnEntry DEF EndsEntry
  <2> QED BY <1>1, <1>5, <2>1, <2>2, <2>3 DEF OwnEnds
<1> QED BY <1>4, <1>5

-----------------------------------------------------------------------------
(* Shell escapes, the end, and susp().                                     *)

LEMMA RestorePuts ==
  ASSUME IInv, NEW p \in Proc, Alive(p), Restore(p)
  PROVE  /\ Put(p, proc[p].mywrt)
         /\ proc[p].mywrt \in Entry /\ proc[p].mywrt.line = Tty[p]
  BY AliveType DEF Restore, PutBack

LEMMA EscapeOwn ==
  ASSUME IInv, IInv', UInv, NEW p \in Proc, Escape(p)
  PROVE  Own(p) /\ OwnMoves(p)
<1> DEFINE r == proc[p]
           n == [r EXCEPT !.pc = "shell"]
<1>1. /\ Alive(p) /\ r \in Process /\ Placed(r) /\ r.pc = "talk" /\ r.sig = "none"
      /\ UNCHANGED <<owner, time, raced, file, upset>> /\ Becomes(p, n)
  BY PlaceOf DEF Escape, Alive, utmp
<1>2. /\ n.above = r.above /\ n.cmd = r.cmd /\ n.mywrt = r.mywrt /\ n.him = r.him
      /\ n.pc = "shell" /\ n.sig = r.sig /\ n.fixed = r.fixed
  BY <1>1 DEF Process
<1> HIDE DEF n
<1>3. Moves(p) /\ proc'[p] = n
  BY <1>1, <1>2, BecomesMoves DEF SameEntry
<1>4. Own(p)
  BY <1>1, <1>3 DEF Own
<1>5. Placed(n) /\ HasShell(n)
  BY <1>1, <1>2 DEF Placed, HasShell
<1>6. EntryOf(Tty[p])' = EntryOf(Tty[p])
  BY <1>1, AliveType, EntryKept
<1>7. /\ InPlace(p) /\ InPlace(p)' /\ ~ Stopped(p) /\ ~ Frozen(p)' /\ Shows(p)' = Shows(p)
  BY <1>1, <1>2, <1>3 DEF InPlace, Stopped, Frozen, Shows
<1>8. MovesInOrder(p) /\ MovesEntry(p)
  BY <1>1, <1>6, <1>7 DEF MovesInOrder, MovesEntry
<1> QED BY <1>3, <1>4, <1>5, <1>8 DEF OwnMoves

\* update_modes() takes only the preference from the file.
LEMMA UpdatedSame ==
  ASSUME IInv, NEW p \in Proc, Wrote(p)
  PROVE  LET u == Updated(p) IN
         /\ u \in Process /\ SameEntry(u.mywrt, proc[p].mywrt)
         /\ u.above = proc[p].above /\ u.cmd = proc[p].cmd /\ u.him = proc[p].him
         /\ u.sig = proc[p].sig /\ u.fixed = proc[p].fixed /\ u.was = proc[p].was
<1>1. proc[p] \in Process /\ proc[p].mywrt \in Entry
  BY AliveType
<1>2. Updated(p) \in Process
  BY UpdatedType
<1> QED BY <1>1, <1>2 DEF Updated, Process, Entry, SameEntry

LEMMA ReturnOwn ==
  ASSUME IInv, IInv', UInv, NEW p \in Proc, Return(p)
  PROVE  Own(p) /\ OwnMoves(p)
<1> DEFINE r == proc[p]
           u == IF r.cmd.tmp = "s" THEN Updated(p) ELSE r
           n == [u EXCEPT !.pc = "talk"]
<1>1. /\ Alive(p) /\ Wrote(p) /\ r \in Process /\ Placed(r) /\ r.pc = "shell"
      /\ Below(p) = {} /\ UNCHANGED <<owner, time, raced, file>> /\ Becomes(p, n)
      /\ Mark(p, r.cmd.post /\ n.mywrt.rec = "a" /\ r.mywrt.rec # "a")
  BY PlaceOf DEF Return, Alive, Wrote, utmp
<1>2. /\ u \in Process /\ SameEntry(u.mywrt, r.mywrt)
      /\ u.above = r.above /\ u.cmd = r.cmd /\ u.him = r.him
      /\ u.sig = r.sig /\ u.fixed = r.fixed
  BY <1>1, UpdatedSame DEF SameEntry
<1> HIDE DEF u
<1>3. /\ n.above = r.above /\ n.cmd = r.cmd /\ SameEntry(n.mywrt, r.mywrt) /\ n.him = r.him
      /\ n.pc = "talk" /\ n.sig = r.sig /\ n.fixed = r.fixed
  BY <1>2 DEF Process
<1> HIDE DEF n
<1>4. Moves(p) /\ proc'[p] = n
  BY <1>1, <1>3, BecomesMoves
<1>5. Own(p)
  BY <1>1, <1>4, MarkGrows DEF Own
<1>6. Placed(n)
  BY <1>1, <1>3 DEF Placed
<1>7. EntryOf(Tty[p])' = EntryOf(Tty[p])
  BY <1>1, AliveType, EntryKept
<1>8. /\ InPlace(p) /\ InPlace(p)' /\ ~ Stopped(p) /\ Shows(p)' = Shows(p)
      /\ (Frozen(p)' => Frozen(p)) /\ proc'[p].sig = r.sig
  BY <1>1, <1>3, <1>4 DEF InPlace, Stopped, Frozen, Shows
<1>9. MovesInOrder(p) /\ MovesEntry(p)
  BY <1>1, <1>7, <1>8 DEF MovesInOrder, MovesEntry
<1> QED BY <1>1, <1>4, <1>5, <1>6, <1>9 DEF OwnMoves

\* Those that end and put the old entry back.
LEMMA ExitOwn ==
  ASSUME IInv, IInv', UInv, NEW p \in Proc, AminEnds(p) \/ Exit(p)
  PROVE  Own(p) /\ OwnEnds(p)
<1>1. /\ Alive(p) /\ proc[p].pc \in {"talk", "shell"} /\ Ends({p}) /\ Mark(p, FALSE)
      /\ Restore(p) /\ UNCHANGED <<owner, time, raced>>
      /\ proc[p].pc = "talk" \/ Below(p) = {}
  BY DEF AminEnds, Exit, Alive, utmp
<1>2. Own(p)
  BY <1>1, MarkGrows, RestorePuts DEF Own
<1>3. Below(p) = {} /\ proc[p].pc # "stopped"
  BY <1>1, NoneBelow DEF HasShell
<1>4. ASSUME p \in Live(Tty[p]), Calm(Tty[p])' PROVE EndsEntry(p)
  BY <1>1, <1>2, <1>3, <1>4, OwnEntry, RestorePuts DEF EndsEntry
<1> QED BY <1>1, <1>2, <1>3, <1>4 DEF OwnEnds

LEMMA EndOwn ==
  ASSUME IInv, IInv', UInv, NEW p \in Proc, End(p)
  PROVE  Own(p) /\ OwnEnds(p)
<1>1. /\ Alive(p) /\ Ends({p}) /\ Mark(p, Below(p) # {} \/ Unseen(p))
      /\ IF proc[p].fixed THEN Restore(p) ELSE UNCHANGED file
      /\ UNCHANGED <<owner, time, raced>>
      /\ proc[p].fixed <=> proc[p].pc \in {"talk", "shell"}
  BY PlaceOf DEF End, Alive, utmp, Placed
<1>2. Own(p)
  BY <1>1, MarkGrows, RestorePuts DEF Own
<1>3. ASSUME p \in Live(Tty[p]), Calm(Tty[p])' PROVE Below(p) = {} /\ EndsEntry(p)
  <2>1. Below(p) = {}
    BY <1>1, <1>3, MarkGrows DEF Calm
  <2>2. CASE proc[p].fixed
    <3>1. proc[p].pc # "stopped"
      BY <1>1, <2>2
    <3>2. Put(p, proc[p].mywrt) /\ proc[p].mywrt \in Entry /\ proc[p].mywrt.line = Tty[p]
      BY <1>1, <2>2, RestorePuts
    <3>3. EntryOf(Tty[p])' = proc[p].mywrt
      BY <1>2, <1>3, <3>2, OwnEntry
    <3> QED BY <2>1, <3>1, <3>3 DEF EndsEntry
  <2>3. CASE ~ proc[p].fixed
    <3>1. ~ InPlace(p) /\ UNCHANGED file
      BY <1>1, <2>3 DEF InPlace
    <3>2. EntryOf(Tty[p])' = EntryOf(Tty[p])
      BY <1>2, <1>3, <3>1, OwnEntry
    <3> QED BY <2>1, <3>1, <3>2 DEF EndsEntry
  <2> QED BY <2>1, <2>2, <2>3
<1> QED BY <1>1, <1>2, <1>3 DEF OwnEnds

LEMMA KillOwn ==
  ASSUME IInv, IInv', UInv, NEW p \in Proc, Kill(p)
  PROVE  Own(p) /\ OwnEnds(p)
<1>1. /\ Alive(p) /\ Ends({p}) /\ Mark(p, InPlace(p) \/ Below(p) # {})
      /\ UNCHANGED <<owner, time, raced, file>>
  BY DEF Kill, Alive, utmp
<1>2. Own(p)
  BY <1>1, MarkGrows DEF Own
<1>3. ASSUME p \in Live(Tty[p]), Calm(Tty[p])' PROVE Below(p) = {} /\ EndsEntry(p)
  BY <1>1, <1>2, <1>3, OwnEntry, MarkGrows DEF Calm, EndsEntry
<1> QED BY <1>1, <1>2, <1>3 DEF OwnEnds

\* Halfway is an accident; before it others are as they were.
LEMMA HalfwayOwn ==
  ASSUME IInv, IInv', UInv, NEW p \in Proc, Halfway(p)
  PROVE  Own(p) /\ OwnEnds(p)
<1>1. /\ Alive(p) /\ Ends({p}) /\ Mark(p, TRUE) /\ UNCHANGED <<owner, time, raced>>
      /\ Put(p, proc[p].mywrt) \/ Put(p, Temp(p)) \/ UNCHANGED file
      /\ proc[p].mywrt \in Entry /\ proc[p].mywrt.line = Tty[p]
  BY AliveType DEF Halfway, InPlace, Fixing, Alive, utmp
<1>2. Own(p)
  BY <1>1, MarkGrows, TempShows DEF Own
<1>3. ~ Calm(Tty[p])'
  BY <1>1, MarkGrows DEF Calm
<1> QED BY <1>1, <1>2, <1>3 DEF OwnEnds

LEMMA SuspOwn ==
  ASSUME IInv, IInv', UInv, NEW p \in Proc, Susp(p)
  PROVE  Own(p) /\ OwnMoves(p)
<1> DEFINE r == proc[p]
           n == [r EXCEPT !.sig = "none", !.pc = "stopped", !.was = r.pc, !.fixed = FALSE]
           acc == (\E q \in Below(p) : proc[q].pc # "stopped") \/ Unseen(p) \/ ~ r.fixed
<1>1. /\ Alive(p) /\ r \in Process /\ (Below(p) # {} => HasShell(r))
      /\ r.pc \in {"talk", "shell"} /\ r.sig = "stop"
      /\ IF r.fixed THEN Restore(p) ELSE UNCHANGED file
      /\ UNCHANGED <<owner, time, raced>> /\ Becomes(p, n) /\ Mark(p, acc)
  BY PlaceOf DEF Susp, Alive, InPlace, utmp
<1>2. /\ n.above = r.above /\ n.cmd = r.cmd /\ n.mywrt = r.mywrt /\ n.him = r.him
      /\ n.pc = "stopped" /\ n.sig = "none" /\ n.fixed = FALSE /\ n.was = r.pc
  BY <1>1 DEF Process
<1> HIDE DEF n
<1>3. Moves(p) /\ proc'[p] = n
  BY <1>1, <1>2, BecomesMoves DEF SameEntry
<1>4. Own(p)
  BY <1>1, <1>3, MarkGrows, RestorePuts DEF Own
<1>5. Placed(n) /\ (Below(p) # {} => HasShell(n))
  BY <1>1, <1>2 DEF Placed, HasShell
<1>6. ASSUME p \in Live(Tty[p]), Calm(Tty[p])' PROVE MovesInOrder(p) /\ MovesEntry(p)
  <2>1. ~ acc
    <3> HIDE DEF acc
    <3> QED BY <1>1, <1>6, MarkGrows DEF Calm
  <2>2. EntryOf(Tty[p])' = r.mywrt
    BY <1>1, <1>4, <1>6, <2>1, OwnEntry, RestorePuts
  <2>3. /\ ~ InPlace(p)' /\ ~ Stopped(p) /\ Frozen(p) /\ Shows(p)' = Shows(p)
    BY <1>1, <1>2, <1>3 DEF InPlace, Stopped, Frozen, Shows
  <2>4. MovesInOrder(p)
    BY <1>1, <1>2, <1>3, <2>1, <2>3 DEF MovesInOrder
  <2>5. MovesEntry(p)
    BY <1>1, <2>2, <2>3 DEF MovesEntry
  <2> QED BY <2>4, <2>5
<1> QED BY <1>3, <1>4, <1>5, <1>6 DEF OwnMoves

LEMMA WriteWakesOwn ==
  ASSUME IInv, IInv', UInv, NEW p \in Proc, WriteWakes(p)
  PROVE  Own(p) /\ OwnMoves(p)
<1> DEFINE r == proc[p]
           u == Updated(p)
           n == [u EXCEPT !.pc = "wake", !.sig = "none"]
           acc == \E e \in r.above : ~ InPlace(e)
<1>1. /\ Alive(p) /\ Wrote(p) /\ r \in Process /\ Placed(r) /\ (Below(p) # {} => HasShell(r))
      /\ r.pc = "stopped" /\ r.sig = "cont" /\ r.cmd.prog = "write"
      /\ UNCHANGED <<owner, time, raced, file>> /\ Becomes(p, n) /\ Mark(p, acc)
  BY PlaceOf DEF WriteWakes, Wakes, Alive, Wrote, utmp
<1>2. /\ u \in Process /\ SameEntry(u.mywrt, r.mywrt) /\ u.above = r.above
      /\ u.cmd = r.cmd /\ u.him = r.him /\ u.fixed = r.fixed /\ u.was = r.was
  BY <1>1, UpdatedSame
<1> HIDE DEF u
<1>3. /\ n.above = r.above /\ n.cmd = r.cmd /\ SameEntry(n.mywrt, r.mywrt) /\ n.him = r.him
      /\ n.pc = "wake" /\ n.sig = "none" /\ n.fixed = r.fixed /\ n.was = r.was
  BY <1>2 DEF Process
<1> HIDE DEF n
<1>4. Moves(p) /\ proc'[p] = n
  BY <1>1, <1>3, BecomesMoves
<1>5. Own(p)
  BY <1>1, <1>4, MarkGrows DEF Own
<1>6. Placed(n) /\ (Below(p) # {} => HasShell(n))
  BY <1>1, <1>3 DEF Placed, HasShell
<1>7. ASSUME p \in Live(Tty[p]), Calm(Tty[p])' PROVE MovesInOrder(p) /\ MovesEntry(p)
  <2>1. ~ acc
    <3> HIDE DEF acc
    <3> QED BY <1>1, <1>7, MarkGrows DEF Calm
  <2>2. EntryOf(Tty[p])' = EntryOf(Tty[p])
    BY <1>1, AliveType, EntryKept
  <2>3. /\ ~ InPlace(p) /\ ~ InPlace(p)' /\ ~ Stopped(p) /\ ~ Frozen(p)' /\ Shows(p)' = Shows(p)
    BY <1>1, <1>3, <1>4 DEF InPlace, Stopped, Frozen, Shows
  <2>4. MovesInOrder(p)
    BY <1>1, <2>1, <2>3 DEF MovesInOrder
  <2> QED BY <2>2, <2>3, <2>4 DEF MovesEntry
<1> QED BY <1>4, <1>5, <1>6, <1>7 DEF OwnMoves

LEMMA AminWakesOwn ==
  ASSUME IInv, IInv', UInv, NEW p \in Proc, AminWakes(p)
  PROVE  Own(p) /\ OwnMoves(p)
<1> DEFINE r == proc[p]
           v == IF r.cmd.tmp = "s" THEN r.myperm ELSE perm[Tty[p]]
           n == [r EXCEPT !.sig = "none", !.pc = "shell", !.was = "talk", !.myperm = v]
           acc == \/ \E e \in r.above : ~ InPlace(e)
                  \/ file[r.mypos].rec # r.mywrt.rec
<1>1. /\ Alive(p) /\ r \in Process /\ r.pc = "stopped" /\ r.sig = "cont" /\ r.cmd.prog = "amin"
      /\ UNCHANGED <<owner, time, raced>> /\ Put(p, Temp(p)) /\ Mark(p, acc)
  BY PlaceOf DEF AminWakes, Wakes, Alive, utmp
<1>2. Becomes(p, n)
  BY <1>1 DEF AminWakes, Process
<1>3. /\ n.above = r.above /\ n.cmd = r.cmd /\ n.mywrt = r.mywrt /\ n.him = r.him
      /\ n.pc = "shell" /\ n.sig = "none"
  <2> HIDE DEF v
  <2> QED BY <1>1 DEF Process
<1> HIDE DEF n
<1>4. Moves(p) /\ proc'[p] = n
  BY <1>1, <1>2, <1>3, BecomesMoves DEF SameEntry
<1>5. Own(p)
  BY <1>1, <1>4, MarkGrows, TempShows DEF Own
<1>6. Placed(n) /\ HasShell(n)
  BY <1>1, <1>3 DEF Placed, HasShell
<1>7. ASSUME p \in Live(Tty[p]), Calm(Tty[p])' PROVE MovesInOrder(p) /\ MovesEntry(p)
  <2>1. ~ acc
    <3> HIDE DEF acc
    <3> QED BY <1>1, <1>7, MarkGrows DEF Calm
  <2>2. EntryOf(Tty[p])' = Temp(p) /\ Temp(p).what = Shows(p)
    BY <1>1, <1>5, <1>7, OwnEntry, TempShows
  <2>3. /\ ~ InPlace(p) /\ InPlace(p)' /\ ~ Stopped(p) /\ ~ Frozen(p)' /\ Shows(p)' = Shows(p)
    BY <1>1, <1>3, <1>4 DEF InPlace, Stopped, Frozen, Shows
  <2>4. MovesInOrder(p)
    BY <1>1, <2>1, <2>3 DEF MovesInOrder
  <2>5. MovesEntry(p)
    BY <1>1, <2>2, <2>3 DEF MovesEntry
  <2> QED BY <2>4, <2>5
<1> QED BY <1>4, <1>5, <1>6, <1>7 DEF OwnMoves

-----------------------------------------------------------------------------
(* The actions that send signals.                                          *)

LEMMA SignalSent ==
  ASSUME IInv, NEW S \in SUBSET Proc, NEW g \in {"stop", "cont", "end"},
         proc' = [q \in Proc |-> IF q \in S THEN [proc[q] EXCEPT !.sig = g] ELSE proc[q]],
         UNCHANGED <<owner, time, file, upset, raced>>
  PROVE  /\ Signals
         /\ \A q \in Proc : /\ q \in S => proc'[q].sig = g
                            /\ q \notin S => proc'[q] = proc[q]
<1>1. ASSUME NEW q \in Proc
      PROVE  LET r == [proc[q] EXCEPT !.sig = g]
             IN  /\ r.pc = proc[q].pc /\ r.above = proc[q].above /\ r.cmd = proc[q].cmd
                 /\ r.mywrt = proc[q].mywrt /\ r.him = proc[q].him /\ r.was = proc[q].was
                 /\ r.fixed = proc[q].fixed /\ r.sig = g /\ r.keep = proc[q].keep
                 /\ r.mypos = proc[q].mypos /\ r.myperm = proc[q].myperm
  BY AliveType DEF Process
<1> QED BY <1>1 DEF Signals

\* do_disconnect() sends SIGTERM to a write that has called siginit().
LEMMA DisconnectSends ==
  ASSUME IInv, NEW p \in Proc, Disconnect(p)
  PROVE  /\ Signals
         /\ \A q \in Proc : \/ proc'[q].sig = proc[q].sig
                            \/ proc'[q].sig = "end" /\ Signalled(q)
<1> DEFINE r == proc[p]
           next == [r EXCEPT !.slot = @ + 1]
           t == file[r.slot].pid
           Alike(a, b) == /\ a.pc = b.pc /\ a.above = b.above /\ a.cmd = b.cmd
                          /\ a.mywrt = b.mywrt /\ a.him = b.him /\ a.was = b.was
                          /\ a.fixed = b.fixed /\ a.keep = b.keep
                          /\ a.mypos = b.mypos /\ a.myperm = b.myperm
<1>1. /\ proc \in [Proc -> Process] /\ r \in Process
      /\ UNCHANGED <<owner, time, file, upset, raced>>
  BY AliveType DEF Disconnect, IInv, WrtTypeOK, utmp
<1>2. next \in Process /\ Alike(next, r) /\ next.sig = r.sig
  BY <1>1 DEF Process
<1> DEFINE all == [proc EXCEPT ![p] = next]
<1>3. /\ all \in [Proc -> Process]
      /\ \A q \in Proc : Alike(all[q], proc[q]) /\ all[q].sig = proc[q].sig
  BY <1>1, <1>2
<1>4. CASE proc' = all
  BY <1>1, <1>3, <1>4 DEF Signals
<1>5. CASE Signalled(t) /\ proc' = [all EXCEPT ![t].sig = "end"]
  <2> DEFINE m == [all[t] EXCEPT !.sig = "end"]
  <2>1. ASSUME t \in Proc PROVE Alike(m, all[t]) /\ m.sig = "end"
    <3>1. all[t] \in Process
      BY <1>3, <2>1
    <3> HIDE DEF all, t
    <3> QED BY <3>1 DEF Process
  <2>2. \A q \in Proc : /\ Alike(proc'[q], proc[q])
                        /\ proc'[q].sig = proc[q].sig \/ (proc'[q].sig = "end" /\ q = t)
    <3>1. proc' = [all EXCEPT ![t] = m]
      BY <1>3, <1>5
    <3> HIDE DEF all, m, t
    <3> QED BY <1>3, <2>1, <3>1
  <2> QED BY <1>1, <1>5, <2>2 DEF Signals
<1>6. proc' = all \/ (Signalled(t) /\ proc' = [all EXCEPT ![t].sig = "end"])
  BY <1>1 DEF Disconnect
<1> QED BY <1>4, <1>5, <1>6

LEMMA DisconnectInv ==
  ASSUME IInv, IInv', UInv, LinesInv, NEW p \in Proc, Disconnect(p)
  PROVE  UInv' /\ LinesInv'
<1>1. /\ Signals
      /\ \A q \in Proc : \/ proc'[q].sig = proc[q].sig
                         \/ proc'[q].sig = "end" /\ Signalled(q)
  BY DisconnectSends
<1>2. \A q \in Proc : Placed(proc'[q])
  <2> TAKE q \in Proc
  <2>1. Placed(proc[q])
    BY PlaceOf
  <2> QED BY <1>1, <2>1 DEF Placed, Signals, Signalled
<1>3. UInv'
  BY <1>1, <1>2, SignalsInv
<1>4. ASSUME NEW l \in Line, Calm(l)' PROVE LineInv(l)'
  <2>1. LineInv(l)
    BY <1>1, <1>4 DEF Calm, LinesInv, Signals
  <2>2. /\ Live(l)' = Live(l) /\ Live(l) \subseteq Proc
        /\ \A q \in Proc : Below(q)' = Below(q) /\ Below(q) \subseteq Proc
    BY <1>1, SignalsLive DEF Live, Below
  <2>3. \A q, s \in Proc : Comparable(q, s)' <=> Comparable(q, s)
    BY <1>1 DEF Comparable, Signals
  <2>4. \A q \in Proc : Stopped(q) => Stopped(q)'
    BY <1>1 DEF Stopped, Signals
  <2>5. Running(l)'
    BY <2>1, <2>2, <2>3, <2>4 DEF LineInv, Running
  <2>6. ASSUME NEW q \in Live(l) PROVE Freezes(q)'
    <3>1. q \in Proc /\ Freezes(q)
      BY <2>1, <2>2 DEF LineInv
    <3>2. Frozen(q)' => Frozen(q)
      BY <1>1, <3>1 DEF Frozen, Signals
    <3>3. \A s \in Proc : /\ InPlace(s)' <=> InPlace(s)
                          /\ proc'[s].pc = proc[s].pc
                          /\ proc[s].sig # "cont" => proc'[s].sig # "cont"
                          /\ proc[s].sig \in {"stop", "end"} => proc'[s].sig \in {"stop", "end"}
      BY <1>1 DEF InPlace, Signals
    <3> QED BY <2>2, <2>3, <3>1, <3>2, <3>3 DEF Freezes
  <2> QED BY <1>1, <2>1, <2>5, <2>6, SignalsLine
<1> QED BY <1>3, <1>4 DEF LinesInv

\* ^Z: all of those in the shells of whom it stops are stopped with it.
LEMMA StopInv ==
  ASSUME IInv, IInv', UInv, LinesInv, NEW p \in Proc, Stop(p)
  PROVE  UInv' /\ LinesInv'
<1>1. PICK S \in {{p}, {p} \cup proc[p].above} :
        /\ \A q \in S : InPlace(q) /\ proc[q].sig = "none"
        /\ \A q \in S : Below(q) \subseteq S
        /\ proc' = [q \in Proc |-> IF q \in S THEN [proc[q] EXCEPT !.sig = "stop"] ELSE proc[q]]
  BY DEF Stop
<1>2. S \in SUBSET Proc
  BY AliveType DEF Process
<1>3. /\ Signals
      /\ \A q \in Proc : /\ q \in S => proc'[q].sig = "stop"
                         /\ q \notin S => proc'[q] = proc[q]
  BY <1>1, <1>2, SignalSent DEF Stop, utmp
<1>4. \A q, s \in S : Comparable(q, s)
  BY DEF UInv, TreeInv, Comparable
<1>5. \A q \in Proc : Placed(proc'[q])
  <2> TAKE q \in Proc
  <2>1. Placed(proc[q])
    BY PlaceOf
  <2>2. CASE q \in S
    <3>1. proc'[q].sig = "stop" /\ proc[q].pc \in {"talk", "shell"}
      BY <1>1, <1>3, <2>2 DEF InPlace
    <3>2. proc'[q].pc = proc[q].pc /\ proc'[q].cmd = proc[q].cmd /\ proc'[q].fixed = proc[q].fixed
      BY <1>3 DEF Signals
    <3> QED BY <2>1, <3>1, <3>2 DEF Placed
  <2> QED BY <1>3, <2>1, <2>2
<1>6. UInv'
  BY <1>3, <1>5, SignalsInv
<1>7. ASSUME NEW l \in Line, Calm(l)' PROVE LineInv(l)'
  <2>1. LineInv(l)
    BY <1>3, <1>7 DEF Calm, LinesInv, Signals
  <2>2. /\ Live(l)' = Live(l) /\ Live(l) \subseteq Proc
        /\ \A q \in Proc : Below(q)' = Below(q) /\ Below(q) \subseteq Proc
    BY <1>3, SignalsLive DEF Live, Below
  <2>3. \A q, s \in Proc : Comparable(q, s)' <=> Comparable(q, s)
    BY <1>3 DEF Comparable, Signals
  <2>4. \A q \in Proc : Stopped(q) => Stopped(q)'
    BY <1>1, <1>3 DEF Stopped, InPlace
  <2>5. Running(l)'
    BY <2>1, <2>2, <2>3, <2>4 DEF LineInv, Running
  <2>6. ASSUME NEW q \in Live(l) PROVE Freezes(q)'
    <3>1. q \in Proc /\ Freezes(q)
      BY <2>1, <2>2 DEF LineInv
    <3>2. CASE q \in S
      <4>1. \A s \in Below(q) : proc'[s].sig = "stop" /\ InPlace(s)' /\ InPlace(q)'
        BY <1>1, <1>2, <1>3, <3>2 DEF InPlace, Signals
      <4>2. \A s, t \in Below(q) : Comparable(s, t)'
        BY <1>1, <1>2, <1>4, <2>3, <3>2
      <4> QED BY <2>2, <4>1, <4>2 DEF Freezes
    <3>3. CASE q \notin S
      <4>1. Frozen(q)' => Frozen(q)
        BY <1>3, <3>1, <3>3 DEF Frozen
      <4>2. ASSUME Frozen(q), NEW s \in Below(q) PROVE s \notin S
        BY <1>1, <3>1, <4>2 DEF Freezes, InPlace
      <4>3. \A s \in Below(q) : Frozen(q) => proc'[s] = proc[s]
        BY <1>3, <2>2, <4>2
      <4>4. InPlace(q)' <=> InPlace(q)
        BY <1>3, <3>1, <3>3 DEF InPlace
      <4> QED BY <2>2, <2>3, <3>1, <4>1, <4>3, <4>4 DEF Freezes, InPlace
    <3> QED BY <3>2, <3>3
  <2> QED BY <1>3, <2>1, <2>5, <2>6, SignalsLine
<1> QED BY <1>6, <1>7 DEF LinesInv

-----------------------------------------------------------------------------
(* What the shell runs in that reads the tty.                              *)

LEMMA PromptTree ==
  ASSUME IInv, UInv, NEW l \in Line, NEW S \in Prompts(l)
  PROVE  /\ S \subseteq Live(l)
         /\ \A o \in S : HasShell(proc[o]) /\ proc[o].above \subseteq S
         /\ \A o, u \in S : Comparable(o, u)
<1>1. CASE S = {}
  BY <1>1
<1>2. CASE S # {}
  <2>1. PICK e \in Live(l) : S = proc[e].above \cup {e} /\ proc[e].pc = "shell"
    BY <1>2 DEF Prompts
  <2>2. e \in Proc /\ proc[e].above \subseteq Live(l)
    BY AboveLive DEF Live, UInv
  <2>3. \A o \in proc[e].above : HasShell(proc[o]) /\ proc[o].above \subseteq proc[e].above
    BY <2>2 DEF UInv, AboveInv, TreeInv
  <2>4. HasShell(proc[e])
    BY <2>1 DEF HasShell
  <2>5. \A o, u \in S : Comparable(o, u)
    BY <2>1, <2>2 DEF UInv, TreeInv, Comparable
  <2> QED BY <2>1, <2>2, <2>3, <2>4, <2>5
<1> QED BY <1>1, <1>2

\* They are on, and nothing else is or runs; none of them is to stop.
LEMMA PromptOn ==
  ASSUME IInv, UInv, NEW l \in Line, LineInv(l), NEW S \in Prompts(l)
  PROVE  /\ \A q \in Live(l) : ~ Stopped(q) => q \in S
         /\ \A q \in S : ~ Frozen(q)
         /\ S = On(l)
<1>1. CASE S = {}
  <2>1. \A q \in Live(l) : Stopped(q)
    BY <1>1 DEF Prompts
  <2>2. On(l) = {}
    BY <2>1 DEF On, Stopped, InPlace
  <2> QED BY <1>1, <2>1, <2>2
<1>2. CASE S # {}
  <2>1. PICK e \in Live(l) : /\ S = proc[e].above \cup {e} /\ Front(e)
                             /\ proc[e].pc = "shell" /\ proc[e].sig = "none"
    BY <1>2 DEF Prompts
  <2>2. /\ e \in Proc /\ proc[e].above \subseteq Live(l) /\ Below(e) \subseteq Live(l)
        /\ Live(l) \subseteq Proc
    BY AboveLive DEF Live, UInv
  <2>3. ASSUME NEW q \in Live(l), ~ Stopped(q) PROVE q \in S
    <3>1. Comparable(q, e)
      BY <2>1, <2>3 DEF LineInv, Running, Front
    <3>2. e \notin proc[q].above
      BY <2>1, <2>2, <2>3 DEF Front, Below
    <3> QED BY <2>1, <3>1, <3>2 DEF Comparable
  <2>4. \A q \in proc[e].above : InPlace(q)
    BY <2>1 DEF LineInv, Opened
  <2>5. ASSUME NEW q \in S PROVE ~ Frozen(q)
    <3>1. CASE q = e
      BY <2>1, <3>1 DEF Frozen
    <3>2. CASE q \in proc[e].above
      <4>1. q \in Live(l) /\ e \in Below(q) /\ InPlace(q)
        BY <2>2, <2>4, <3>2 DEF Below
      <4> QED BY <2>1, <4>1 DEF LineInv, Freezes
    <3> QED BY <2>1, <2>5, <3>1, <3>2
  <2>6. \A q \in On(l) : q \in Live(l) /\ ~ Stopped(q)
    BY DEF On, InPlace, Stopped
  <2>7. InPlace(e)
    BY <2>1 DEF InPlace
  <2>8. S \subseteq On(l)
    BY <2>1, <2>2, <2>4, <2>7 DEF On
  <2> QED BY <2>3, <2>5, <2>6, <2>8
<1> QED BY <1>1, <1>2

\* fg: the job of the process p goes on, which is stopped as a whole; and what runs
\* on the tty is above it.
LEMMA FgInv ==
  ASSUME IInv, IInv', UInv, LinesInv, NEW p \in Proc, Fg(p)
  PROVE  UInv' /\ LinesInv'
<1> DEFINE l == Tty[p]
           S == {q \in Proc : q = p \/ (q \in Below(p) /\ proc[q].sig = "none")}
<1>1. /\ proc[p].pc = "stopped" /\ proc[p].sig = "none" /\ p \in Live(l)
      /\ proc[p].above \in Prompts(l) /\ l \in Line
      /\ proc' = [q \in Proc |-> IF q \in S THEN [proc[q] EXCEPT !.sig = "cont"] ELSE proc[q]]
      /\ UNCHANGED <<owner, time, file, upset, raced>>
  BY AliveType DEF Fg, Stopped, utmp
<1>2. /\ Signals
      /\ \A q \in Proc : /\ q \in S => proc'[q].sig = "cont"
                         /\ q \notin S => proc'[q] = proc[q]
  <2>1. S \in SUBSET Proc
    OBVIOUS
  <2> HIDE DEF S
  <2> QED BY <1>1, <2>1, SignalSent
<1>3. \A q \in Proc : Placed(proc'[q])
  <2> TAKE q \in Proc
  <2>1. Placed(proc[q])
    BY PlaceOf
  <2>2. CASE q \in S
    <3>1. proc'[q].sig = "cont"
      BY <1>2, <2>2
    <3>2. proc'[q].pc = proc[q].pc /\ proc'[q].cmd = proc[q].cmd /\ proc'[q].fixed = proc[q].fixed
      BY <1>2 DEF Signals
    <3> QED BY <2>1, <3>1, <3>2 DEF Placed
  <2> QED BY <1>2, <2>1, <2>2
<1>4. UInv'
  BY <1>2, <1>3, SignalsInv
<1>5. S \subseteq Live(l) /\ p \in S /\ Below(p) \subseteq Live(l)
  BY <1>1, AboveLive DEF UInv
<1>6. ASSUME NEW k \in Line, k # l, Calm(k)' PROVE LineInv(k)'
  <2>1. LineInv(k)
    BY <1>1, <1>6 DEF Calm, LinesInv
  <2>2. \A q \in Live(k) : q \in Proc /\ q \notin S
    BY <1>5, <1>6 DEF Live
  <2>3. Same(k)
    <3> HIDE DEF S
    <3> QED BY <1>2, <2>2, SignalsLive DEF Same
  <2> QED BY <1>4, <2>1, <2>3, SameLine
<1>7. ASSUME Calm(l)' PROVE LineInv(l)'
  <2>1. LineInv(l)
    BY <1>1, <1>7 DEF Calm, LinesInv
  <2>2. /\ Live(l)' = Live(l) /\ Live(l) \subseteq Proc
        /\ \A q \in Proc : Below(q)' = Below(q) /\ Below(q) \subseteq Proc
    BY <1>1, <1>2, SignalsLive DEF Live, Below
  <2>3. \A q, s \in Proc : Comparable(q, s)' <=> Comparable(q, s)
    BY <1>2 DEF Comparable, Signals
  <2>4. /\ \A q \in Live(l) : ~ Stopped(q) => q \in proc[p].above
        /\ \A q \in proc[p].above : ~ Frozen(q)
    BY <1>1, <2>1, PromptOn
  <2>5. /\ \A q \in Below(p) : proc[q].pc = "stopped" /\ proc[q].sig # "cont"
        /\ \A q, s \in Below(p) : Comparable(q, s)
    BY <1>1, <2>1 DEF LineInv, Freezes, Frozen, InPlace
  <2>6. ASSUME NEW q \in Live(l), ~ Stopped(q)' PROVE q \in proc[p].above \cup S
    <3>1. q \notin S => proc'[q] = proc[q]
      BY <1>2, <2>2
    <3> QED BY <2>4, <2>6, <3>1 DEF Stopped
  <2>7. \A q, s \in proc[p].above \cup S : Comparable(q, s)
    <3> TAKE q, s \in proc[p].above \cup S
    <3>1. \A x \in S : x = p \/ (x \in Below(p) /\ p \in proc[x].above)
      BY DEF Below
    <3>2. \A x \in S : \A y \in proc[p].above : y \in proc[x].above
      BY <1>5, <2>2, <3>1 DEF UInv, TreeInv
    <3>3. CASE q \in S /\ s \in S
      BY <2>5, <3>1, <3>3 DEF Comparable
    <3>4. CASE q \in proc[p].above /\ s \in proc[p].above
      BY <3>4 DEF UInv, TreeInv
    <3> HIDE DEF S
    <3> QED BY <3>2, <3>3, <3>4 DEF Comparable
  <2>8. Running(l)'
    BY <2>2, <2>3, <2>6, <2>7 DEF Running
  <2>9. ASSUME NEW q \in Live(l) PROVE Freezes(q)'
    <3>1. q \in Proc /\ Freezes(q)
      BY <2>1, <2>2 DEF LineInv
    <3>2. SUFFICES ASSUME Frozen(q)' PROVE Freezes(q)'
      BY DEF Freezes
    <3>3. q \notin S
      <4> HIDE DEF S
      <4> QED BY <1>2, <3>1, <3>2 DEF Frozen
    <3>4. Frozen(q) /\ proc'[q] = proc[q]
      BY <1>2, <3>1, <3>2, <3>3 DEF Frozen
    <3>5. ASSUME NEW s \in Below(q), s \in S PROVE FALSE
      <4>1. q \in proc[s].above /\ q \notin proc[p].above
        BY <2>4, <3>4, <3>5 DEF Below
      <4>2. s # p
        BY <4>1
      <4>3. s \in Below(p) /\ p \in proc[s].above
        BY <3>5, <4>2 DEF Below
      <4>4. Comparable(p, q)
        BY <2>2, <3>5, <4>1, <4>3 DEF UInv, TreeInv
      <4>5. q \in Below(p)
        BY <1>5, <3>1, <3>3, <4>1, <4>4 DEF Comparable, Below
      <4>6. proc[q].sig # "none"
        BY <3>1, <3>3, <4>5
      <4>7. proc[q].sig = "stop"
        BY <3>4, <4>6 DEF Frozen
      <4>8. proc[q].pc \in {"talk", "shell"}
        BY <3>1, <4>7, PlaceOf DEF Placed
      <4> QED BY <2>5, <4>5, <4>8
    <3>6. \A s \in Below(q) : s \in Proc /\ proc'[s] = proc[s]
      <4> HIDE DEF S
      <4> QED BY <1>2, <2>2, <3>5, <3>1
    <3> QED BY <2>2, <2>3, <3>1, <3>4, <3>6 DEF Freezes, InPlace
  <2> QED BY <1>1, <1>2, <2>1, <2>8, <2>9, SignalsLine
<1>8. \A k \in Line : Calm(k)' => LineInv(k)'
  BY <1>6, <1>7
<1> QED BY <1>4, <1>8 DEF LinesInv

-----------------------------------------------------------------------------
(* A program starts.                                                       *)

\* It is the innermost, and has read what the innermost of the others shows.
LEMMA StartMakes ==
  ASSUME IInv, NEW p \in Proc, Start(p)
  PROVE  /\ ~ Alive(p) /\ \A q \in Proc \ {p} : proc'[q] = proc[q]
         /\ proc'[p].pc = "ask" /\ proc'[p].sig = "none" /\ proc'[p].fixed = FALSE
         /\ proc'[p].above \in Prompts(Tty[p]) /\ proc'[p].mywrt = EntryOf(Tty[p])
         /\ EntryOf(Tty[p]).time = time[Tty[p]]
         /\ proc'[p].cmd.prog \in {"write", "amin"} => proc'[p].myperm = perm[Tty[p]]
         /\ proc'[p].keep.perm = (\A e \in proc'[p].above : proc[e].cmd.tmp = "s")
         /\ proc'[p].keep.rec = (\A e \in proc'[p].above :
                                  proc[e].cmd.tmp = "s" /\ proc[e].cmd.prog = "write")
<1> DEFINE l == Tty[p]
<1>1. PICK c \in Invoked[p], shells \in Prompts(l) :
        Becomes(p, [Idle EXCEPT
          !.pc = "ask", !.cmd = c, !.above = shells,
          !.mypos = SlotOf(l), !.mywrt = EntryOf(l),
          !.myperm = c.prog \in {"write", "amin"} /\ perm[l],
          !.keep = [perm |-> \A e \in shells : proc[e].cmd.tmp = "s",
                    rec  |-> \A e \in shells : proc[e].cmd.tmp = "s" /\ proc[e].cmd.prog = "write"]])
  BY DEF Start
<1> DEFINE n == [Idle EXCEPT
          !.pc = "ask", !.cmd = c, !.above = shells,
          !.mypos = SlotOf(l), !.mywrt = EntryOf(l),
          !.myperm = c.prog \in {"write", "amin"} /\ perm[l],
          !.keep = [perm |-> \A e \in shells : proc[e].cmd.tmp = "s",
                    rec  |-> \A e \in shells : proc[e].cmd.tmp = "s" /\ proc[e].cmd.prog = "write"]]
<1>2. /\ n.pc = "ask" /\ n.sig = "none" /\ n.fixed = FALSE
      /\ n.above = shells /\ n.mywrt = EntryOf(l)
      /\ n.cmd.prog \in {"write", "amin"} => n.myperm = perm[l]
      /\ n.keep.perm = (\A e \in shells : proc[e].cmd.tmp = "s")
      /\ n.keep.rec = (\A e \in shells : proc[e].cmd.tmp = "s" /\ proc[e].cmd.prog = "write")
  <2> DEFINE v == c.prog \in {"write", "amin"} /\ perm[l]
             k == [perm |-> \A e \in shells : proc[e].cmd.tmp = "s",
                   rec  |-> \A e \in shells : proc[e].cmd.tmp = "s" /\ proc[e].cmd.prog = "write"]
             m == [Idle EXCEPT !.pc = "ask", !.cmd = c, !.above = shells, !.mypos = SlotOf(l),
                               !.mywrt = EntryOf(l), !.myperm = v, !.keep = k]
  <2>1. n = m
    OBVIOUS
  <2>2. Idle \in Process /\ Idle.sig = "none" /\ Idle.fixed = FALSE
    BY IdleType, IdleFields
  <2>3. perm[l] \in BOOLEAN
    BY AliveType DEF IInv, WrtTypeOK
  <2>4. /\ c.prog \in {"write", "amin"} => v = perm[l]
        /\ k.perm = (\A e \in shells : proc[e].cmd.tmp = "s")
        /\ k.rec = (\A e \in shells : proc[e].cmd.tmp = "s" /\ proc[e].cmd.prog = "write")
    BY <2>3
  <2> HIDE DEF n, v, k
  <2>5. /\ m.pc = "ask" /\ m.sig = "none" /\ m.fixed = FALSE
        /\ m.above = shells /\ m.mywrt = EntryOf(l) /\ m.cmd = c /\ m.myperm = v /\ m.keep = k
    BY <2>2 DEF Process
  <2> QED BY <2>1, <2>4, <2>5
<1>3. proc' = [proc EXCEPT ![p] = n] /\ proc \in [Proc -> Process]
  BY <1>1 DEF Becomes, IInv, WrtTypeOK
<1> HIDE DEF n
<1>4. proc'[p] = n /\ \A q \in Proc \ {p} : proc'[q] = proc[q]
  BY <1>3
<1>5. EntryOf(l).time = time[l]
  <2>1. Default(l, time[l]).time = time[l]
    BY DEF Default
  <2> QED BY <2>1 DEF EntryOf
<1> QED BY <1>1, <1>2, <1>4, <1>5 DEF Start, Alive

LEMMA StartTree ==
  ASSUME IInv, UInv, NEW p \in Proc, Start(p)
  PROVE  UInv'
<1> DEFINE l == Tty[p]
           S == proc'[p].above
<1>1. /\ ~ Alive(p) /\ \A q \in Proc \ {p} : proc'[q] = proc[q]
      /\ proc'[p].pc = "ask" /\ proc'[p].sig = "none" /\ proc'[p].fixed = FALSE
      /\ S \in Prompts(l) /\ proc'[p].mywrt.time = time[l]
      /\ UNCHANGED <<time, file>> /\ l \in Line /\ time[l] \in Nat
  BY StartMakes, AliveType DEF Start, utmp, IInv, WrtTypeOK
<1>2. /\ S \subseteq Live(l) /\ p \notin S
      /\ \A o \in S : HasShell(proc[o]) /\ proc[o].above \subseteq S
      /\ \A o, u \in S : Comparable(o, u)
  BY <1>1, PromptTree DEF Live, Alive
<1>3. \A q \in Proc \ {p} : proc[q].above \subseteq Proc \ {p}
  BY <1>1, AliveType DEF UInv, AboveInv, Process
<1>4. TimeInv'
  BY <1>1 DEF UInv, TimeInv, Alive
<1>5. PlaceInv'
  <2>1. Placed(proc'[p])
    BY <1>1 DEF Placed
  <2> QED BY <1>1, <2>1 DEF UInv, PlaceInv
<1>6. AboveInv'
  <2> SUFFICES ASSUME NEW q \in Proc, NEW o \in proc'[q].above
               PROVE  /\ Alive(q)' /\ Alive(o)' /\ Tty[o] = Tty[q]
                      /\ proc'[o].mywrt.time = proc'[q].mywrt.time
                      /\ HasShell(proc'[o])
    BY DEF AboveInv
  <2>1. CASE q = p
    <3>1. o \in Live(l) /\ o \in Proc \ {p} /\ HasShell(proc[o])
      BY <1>2, <2>1 DEF Live
    <3> QED BY <1>1, <2>1, <3>1 DEF Live, Alive
  <2>2. CASE q # p
    <3>1. o \in Proc \ {p} /\ o \in proc[q].above /\ proc'[q] = proc[q] /\ proc'[o] = proc[o]
      BY <1>1, <1>3, <2>2
    <3> QED BY <3>1 DEF UInv, AboveInv, Alive
  <2> QED BY <2>1, <2>2
<1>7. TreeInv'
  <2> SUFFICES ASSUME NEW q \in Proc
               PROVE  /\ q \notin proc'[q].above
                      /\ \A o \in proc'[q].above : proc'[o].above \subseteq proc'[q].above
                      /\ \A o, u \in proc'[q].above : Comparable(o, u)'
    BY DEF TreeInv
  <2>1. \A x \in proc'[q].above : x \in Proc /\ proc'[x] = proc[x]
    BY <1>1, <1>2, <1>3 DEF Live
  <2>2. CASE q = p
    BY <1>2, <2>1, <2>2 DEF Comparable
  <2>3. CASE q # p
    BY <1>1, <2>1, <2>3 DEF UInv, TreeInv, Comparable
  <2> QED BY <2>2, <2>3
<1> QED BY <1>4, <1>5, <1>6, <1>7 DEF UInv

\* Nothing happens on the other lines.
LEMMA StartSame ==
  ASSUME IInv, NEW p \in Proc, Start(p), NEW k \in Line, Calm(k)'
  PROVE  Calm(k) /\ (k # Tty[p] => Same(k))
<1>1. /\ ~ Alive(p) /\ \A q \in Proc \ {p} : proc'[q] = proc[q]
      /\ UNCHANGED <<owner, time, file, upset>> /\ EntryOf(k)' = EntryOf(k)
  BY StartMakes, EntryKept DEF Start, utmp
<1>2. Calm(k)
  BY <1>1 DEF Calm, Start
<1>3. k # Tty[p] => Same(k)
  BY <1>1 DEF Same, Live
<1> QED BY <1>2, <1>3

LEMMA StartInv ==
  ASSUME IInv, IInv', UInv, LinesInv, NEW p \in Proc, Start(p)
  PROVE  UInv' /\ LinesInv'
<1> DEFINE l == Tty[p]
           S == proc'[p].above
<1>1. /\ ~ Alive(p) /\ \A q \in Proc \ {p} : proc'[q] = proc[q]
      /\ proc'[p].pc = "ask" /\ proc'[p].sig = "none"
      /\ S \in Prompts(l) /\ proc'[p].mywrt = EntryOf(l) /\ proc'[p].mywrt.time = time[l]
      /\ UNCHANGED <<owner, time, file, upset>> /\ l \in Line
      /\ \A k \in Line : EntryOf(k)' = EntryOf(k)
  BY StartMakes, EntryKept, AliveType DEF Start, utmp
<1>2. UInv'
  BY StartTree
<1>3. \A k \in Line : Calm(k)' => Calm(k)
  BY StartSame
<1>4. ASSUME NEW k \in Line, k # l, Calm(k)' PROVE LineInv(k)'
  <2>1. Same(k)
    BY <1>4, StartSame
  <2> QED BY <1>2, <1>3, <1>4, <2>1, SameLine DEF LinesInv
<1>5. ASSUME Calm(l)' PROVE LineInv(l)'
  <2>1. LineInv(l)
    BY <1>1, <1>3, <1>5 DEF LinesInv
  <2>2. Live(l)' = Live(l) \cup {p} /\ Live(l) \subseteq Proc \ {p}
    BY <1>1 DEF Live, Alive
  <2>3. /\ \A q \in Live(l) : ~ Stopped(q) => q \in S
        /\ \A q \in S : ~ Frozen(q)
        /\ S = On(l) /\ S \subseteq Live(l)
    BY <1>1, <2>1, PromptOn DEF On
  <2>4. \A q \in Live(l) : /\ proc'[q] = proc[q] /\ proc[q].above \subseteq Live(l)
                           /\ \A o \in proc[q].above : proc'[o] = proc[o]
                           /\ q \notin S => Below(q)' = Below(q)
                           /\ \A s \in Below(q) : proc'[s] = proc[s]
    <3> TAKE q \in Live(l)
    <3>1. proc'[q] = proc[q] /\ proc[q].above \subseteq Live(l) /\ Below(q) \subseteq Live(l)
      BY <1>1, <2>2, AboveLive DEF UInv
    <3>2. Below(q)' \ {p} = Below(q) \ {p} /\ p \notin Below(q)
      BY <1>1, <2>2, <3>1 DEF Below
    <3>3. q \notin S => p \notin Below(q)'
      BY DEF Below
    <3> QED BY <1>1, <2>2, <3>1, <3>2, <3>3
  <2>5. Running(l)'
    <3> SUFFICES ASSUME NEW q \in Live(l)', NEW s \in Live(l)', ~ Stopped(q)', ~ Stopped(s)'
                 PROVE  Comparable(q, s)'
      BY DEF Running
    <3>1. q \in Live(l) /\ s \in Live(l) => Comparable(q, s)'
      BY <2>1, <2>4 DEF LineInv, Running, Stopped, Comparable
    <3>2. \A x \in Live(l) : ~ Stopped(x)' => x \in S
      BY <2>3, <2>4 DEF Stopped
    <3> QED BY <2>2, <3>1, <3>2 DEF Comparable
  <2>6. ShownBy(On(l), EntryOf(l)) /\ \A x \in On(l) : proc'[x] = proc[x]
    BY <2>1, <2>3, <2>4 DEF LineInv
  <2>7. ASSUME NEW q \in Live(l)
        PROVE  Opened(q)' /\ Freezes(q)' /\ ShownBy(proc[q].above, proc[q].mywrt)'
    <3>1. Opened(q) /\ Freezes(q) /\ ShownBy(proc[q].above, proc[q].mywrt)
      BY <2>1 DEF LineInv
    <3>2. Opened(q)'
      BY <2>4, <3>1 DEF Opened, InPlace
    <3>3. Freezes(q)'
      <4>1. Frozen(q)' => Frozen(q) /\ q \notin S
        BY <2>3, <2>4 DEF Frozen
      <4> QED BY <2>4, <3>1, <4>1 DEF Freezes, InPlace, Comparable
    <3>4. ShownBy(proc[q].above, proc[q].mywrt)'
      BY <2>4, <3>1 DEF ShownBy, Shows
    <3> QED BY <3>2, <3>3, <3>4
  <2>8. Opened(p)' /\ Freezes(p)' /\ ShownBy(proc[p].above, proc[p].mywrt)'
    <3>1. Opened(p)'
      BY <2>3, <2>4 DEF Opened, On, InPlace
    <3>2. Freezes(p)'
      BY <1>1 DEF Freezes, Frozen
    <3>3. ShownBy(proc[p].above, proc[p].mywrt)'
      BY <1>1, <2>3, <2>6 DEF ShownBy, Shows
    <3> QED BY <3>1, <3>2, <3>3
  <2>9. ShownBy(On(l), EntryOf(l))'
    <3>1. On(l)' = On(l)
      BY <1>1, <2>2, <2>4 DEF On, InPlace
    <3> QED BY <1>1, <2>6, <3>1 DEF ShownBy, Shows
  <2> QED BY <2>2, <2>5, <2>7, <2>8, <2>9 DEF LineInv
<1>6. \A k \in Line : Calm(k)' => LineInv(k)'
  BY <1>4, <1>5
<1> QED BY <1>2, <1>6 DEF LinesInv

-----------------------------------------------------------------------------
(* Logins.                                                                 *)

LEMMA LogoutMakes ==
  ASSUME IInv, NEW l \in Line, Logout(l)
  PROVE  LET dying == {p \in Live(l) : proc[p].pc \in {"ask", "scan"}} IN
         /\ Carries(dying)
         /\ \A p \in Proc \ dying :
              /\ proc'[p].pc = proc[p].pc /\ proc'[p].fixed = proc[p].fixed
              /\ proc'[p].was = proc[p].was
              /\ \/ proc'[p].sig = proc[p].sig
                 \/ proc'[p].sig = "end" /\ p \in Live(l) /\ proc[p].cmd.prog = "write"
                 \/ proc'[p].sig = "cont"
              /\ p \notin Live(l) /\ proc[p].above \cap dying = {} => proc'[p] = proc[p]
<1> DEFINE dying == {p \in Live(l) : proc[p].pc \in {"ask", "scan"}}
           sig(p) == IF p \notin Live(l) THEN proc[p].sig
                     ELSE IF proc[p].cmd.prog = "write" THEN "end"
                     ELSE IF proc[p].pc = "stopped" THEN "cont" ELSE proc[p].sig
           n(p) == [proc[p] EXCEPT !.above = proc[p].above \ dying, !.sig = sig(p)]
<1>1. proc \in [Proc -> Process]
  BY DEF IInv, WrtTypeOK
<1>2. proc' = [p \in Proc |-> IF p \in dying THEN Idle ELSE n(p)]
  BY <1>1 DEF Logout, Process
<1>3. ASSUME NEW p \in Proc
      PROVE  /\ n(p).pc = proc[p].pc /\ n(p).fixed = proc[p].fixed /\ n(p).was = proc[p].was
             /\ n(p).cmd = proc[p].cmd /\ n(p).mywrt = proc[p].mywrt
             /\ n(p).above = proc[p].above \ dying /\ n(p).sig = sig(p)
             /\ proc[p].above \cap dying = {} /\ sig(p) = proc[p].sig => n(p) = proc[p]
  <2>1. proc[p] \in Process
    BY <1>1
  <2>2. proc[p].above \cap dying = {} => proc[p].above \ dying = proc[p].above
    OBVIOUS
  <2> HIDE DEF sig, dying
  <2> QED BY <2>1, <2>2 DEF Process
<1>4. \A p \in Proc : \/ sig(p) = proc[p].sig
                      \/ sig(p) = "end" /\ p \in Live(l) /\ proc[p].cmd.prog = "write"
                      \/ sig(p) = "cont"
  OBVIOUS
<1>5. \A p \in Proc : p \notin Live(l) => sig(p) = proc[p].sig
  OBVIOUS
<1> HIDE DEF dying, n, sig
<1>6. \A p \in Proc : /\ p \in dying => proc'[p] = Idle
                      /\ p \notin dying => proc'[p] = n(p)
  BY <1>2
<1>7. Carries(dying)
  BY <1>3, <1>6 DEF Carries, SameEntry
<1>8. \A p \in Proc \ dying :
        /\ proc'[p].pc = proc[p].pc /\ proc'[p].fixed = proc[p].fixed
        /\ proc'[p].was = proc[p].was
        /\ \/ proc'[p].sig = proc[p].sig
           \/ proc'[p].sig = "end" /\ p \in Live(l) /\ proc[p].cmd.prog = "write"
           \/ proc'[p].sig = "cont"
        /\ p \notin Live(l) /\ proc[p].above \cap dying = {} => proc'[p] = proc[p]
  BY <1>3, <1>4, <1>5, <1>6
<1> QED BY <1>7, <1>8 DEF dying

\* Nothing happens on the other lines.
LEMMA LogoutSame ==
  ASSUME IInv, UInv, NEW l \in Line, Logout(l), NEW k \in Line, Calm(k)'
  PROVE  Calm(k) /\ Same(k)
<1> DEFINE D == {p \in Live(l) : proc[p].pc \in {"ask", "scan"}}
<1>1. /\ D \subseteq Live(l) /\ Carries(D)
      /\ \A p \in Proc \ D :
           /\ proc'[p].pc = proc[p].pc
           /\ p \notin Live(l) /\ proc[p].above \cap D = {} => proc'[p] = proc[p]
  BY LogoutMakes
<1> HIDE DEF D
<1>2. /\ UNCHANGED <<time, file, upset, raced>>
      /\ owner' = [owner EXCEPT ![l] = NoUser] /\ owner \in [Line -> User \cup {NoUser}]
  BY DEF Logout, IInv, WrtTypeOK
<1>3. k # l /\ Calm(k)
  BY <1>2 DEF Calm
<1>4. \A q \in Live(k) : proc'[q] = proc[q]
  <2> TAKE q \in Live(k)
  <2>1. q \in Proc /\ proc[q].above \subseteq Live(k)
    BY AboveLive DEF UInv, Live
  <2>2. q \notin Live(l) /\ proc[q].above \cap D = {} /\ q \notin D
    BY <1>1, <1>3, <2>1 DEF Live
  <2> QED BY <1>1, <2>1, <2>2
<1>5. Live(k)' = Live(k)
  <2>1. \A q \in Proc \ D : /\ proc'[q].pc = proc[q].pc
                            /\ proc'[q].mywrt.time = proc[q].mywrt.time
    BY <1>1 DEF Carries, SameEntry
  <2>2. \A q \in D : Tty[q] # k
    BY <1>1, <1>3 DEF Live
  <2> QED BY <1>2, <2>1, <2>2 DEF Live
<1>6. EntryOf(k)' = EntryOf(k)
  BY <1>2, EntryKept
<1> QED BY <1>3, <1>4, <1>5, <1>6 DEF Same

\* Only those die at once that have no shell.
LEMMA LogoutInv ==
  ASSUME IInv, IInv', UInv, LinesInv, NEW l \in Line, Logout(l)
  PROVE  UInv' /\ LinesInv'
<1> DEFINE D == {p \in Live(l) : proc[p].pc \in {"ask", "scan"}}
<1>1. /\ D \in SUBSET Proc /\ D \subseteq Live(l) /\ Carries(D)
      /\ \A p \in Proc \ D :
           /\ proc'[p].pc = proc[p].pc /\ proc'[p].fixed = proc[p].fixed
           /\ proc'[p].was = proc[p].was
           /\ \/ proc'[p].sig = proc[p].sig
              \/ proc'[p].sig = "end" /\ p \in Live(l) /\ proc[p].cmd.prog = "write"
              \/ proc'[p].sig = "cont"
           /\ p \notin Live(l) /\ proc[p].above \cap D = {} => proc'[p] = proc[p]
  BY LogoutMakes DEF Live
<1> HIDE DEF D
<1>2. \A p \in Proc \ D : proc'[p].cmd = proc[p].cmd
  BY <1>1 DEF Carries
<1>3. UNCHANGED <<time, file, upset, raced>>
      /\ owner' = [owner EXCEPT ![l] = NoUser] /\ owner \in [Line -> User \cup {NoUser}]
  BY DEF Logout, IInv, WrtTypeOK
<1>4. \A p \in Proc \ D : Placed(proc'[p])
  <2> TAKE p \in Proc \ D
  <2>1. Placed(proc[p])
    BY PlaceOf
  <2>2. p \in Live(l) => proc[p].pc # "out"
    BY DEF Live
  <2> QED BY <1>1, <1>2, <2>1, <2>2 DEF Placed
<1>5. \A p \in Proc \ D : Below(p) # {} => HasShell(proc'[p])
  BY <1>1, <1>2, PlaceOf DEF HasShell
<1>6. UInv'
  BY <1>1, <1>3, <1>4, <1>5, CarriesInv DEF WritesOwn
<1>7. ASSUME NEW k \in Line, Calm(k)' PROVE LineInv(k)'
  BY <1>6, <1>7, LogoutSame, SameLine DEF LinesInv
<1> QED BY <1>6, <1>7 DEF LinesInv

\* Nothing of a new login is on its line, and its entry is of an earlier one.
LEMMA LoginNew ==
  ASSUME IInv, UInv, NEW l \in Line, Login(l)
  PROVE  Live(l)' = {} /\ EntryOf(l)' = Default(l, time'[l])
<1>1. time'[l] = time[l] + 1 /\ time[l] \in Nat /\ UNCHANGED <<file, proc>>
  BY DEF Login, IInv, WrtTypeOK
<1>2. Live(l)' = {}
  <2>1. ASSUME NEW p \in Proc, Alive(p), Tty[p] = l PROVE proc[p].mywrt.time # time'[l]
    <3>1. proc[p].mywrt.time <= time[l] /\ proc[p].mywrt.time \in Nat
      BY <2>1, AliveType DEF UInv, TimeInv, Entry
    <3> QED BY <1>1, <3>1
  <2> QED BY <1>1, <2>1 DEF Live, Alive
<1>3. EntryOf(l)' = Default(l, time'[l])
  <2>1. SlotOf(l)' = SlotOf(l)
    BY <1>1 DEF SlotOf, SlotsOf
  <2>2. SlotOf(l) \in 1 .. Len(file) + 1 /\ (SlotOf(l) <= Len(file) => file[SlotOf(l)].line = l)
        /\ Len(file) \in Nat
    BY SlotFound DEF IInv, WrtTypeOK
  <2>3. ASSUME SlotOf(l) <= Len(file) PROVE file[SlotOf(l)].time # time'[l]
    <3>1. SlotOf(l) \in 1 .. Len(file)
      BY <2>2, <2>3
    <3>2. file[SlotOf(l)] \in Entry
      BY <3>1 DEF IInv, WrtTypeOK
    <3>3. file[SlotOf(l)].time <= time[l] /\ file[SlotOf(l)].time \in Nat
      BY <2>2, <2>3, <3>1, <3>2 DEF UInv, TimeInv, Entry
    <3> QED BY <1>1, <3>3
  <2> QED BY <1>1, <2>1, <2>3 DEF EntryOf, Default
<1> QED BY <1>2, <1>3

\* Nothing happens on the other lines.
LEMMA LoginSame ==
  ASSUME IInv, NEW l \in Line, Login(l), NEW k \in Line, Calm(k)', k # l
  PROVE  Calm(k) /\ Same(k)
<1>1. /\ time'[k] = time[k] /\ owner'[k] = owner[k]
      /\ UNCHANGED <<file, proc, raced>> /\ upset' = upset \ {l}
  BY DEF Login, IInv, WrtTypeOK
<1>2. Live(k)' = Live(k) /\ EntryOf(k)' = EntryOf(k)
  BY <1>1 DEF Live, EntryOf, SlotOf, SlotsOf, Default
<1> QED BY <1>1, <1>2 DEF Calm, Same

LEMMA LoginInv ==
  ASSUME IInv, IInv', UInv, LinesInv, NEW l \in Line, Login(l)
  PROVE  UInv' /\ LinesInv'
<1>1. /\ time \in [Line -> Nat] /\ time' = [time EXCEPT ![l] = time[l] + 1]
      /\ \A k \in Line : k # l => time'[k] = time[k] /\ owner'[k] = owner[k]
      /\ time'[l] = time[l] + 1 /\ time[l] \in Nat
      /\ UNCHANGED <<file, proc, raced>> /\ upset' = upset \ {l}
  BY DEF Login, IInv, WrtTypeOK
<1>2. TimeInv'
  <2>1. \A k \in Line : time[k] \in Nat /\ time[k] <= time'[k] /\ time'[k] \in Nat
    BY <1>1
  <2>2. ASSUME NEW p \in Proc, Alive(p) PROVE proc[p].mywrt.time <= time'[Tty[p]]
    <3>1. proc[p].mywrt.time <= time[Tty[p]] /\ proc[p].mywrt.time \in Nat /\ Tty[p] \in Line
      BY <2>2, AliveType DEF UInv, TimeInv, Entry
    <3> QED BY <2>1, <3>1
  <2>3. ASSUME NEW i \in 1 .. Len(file)
        PROVE  file[i].line \in Line /\ file[i].time <= time'[file[i].line]
    <3>1. file[i] \in Entry
      BY DEF IInv, WrtTypeOK
    <3>2. file[i].time <= time[file[i].line] /\ file[i].time \in Nat /\ file[i].line \in Line
      BY <3>1 DEF UInv, TimeInv, Entry
    <3> QED BY <2>1, <3>2
  <2> QED BY <1>1, <2>2, <2>3 DEF TimeInv, Alive
<1>3. UInv'
  BY <1>1, <1>2 DEF UInv, PlaceInv, AboveInv, TreeInv, Alive, Comparable
<1>4. ASSUME NEW k \in Line, Calm(k)', k # l PROVE LineInv(k)'
  BY <1>3, <1>4, LoginSame, SameLine DEF LinesInv
<1>5. LineInv(l)'
  <2>1. Live(l)' = {} /\ EntryOf(l)'.what = NoUser
    BY LoginNew DEF Default
  <2>2. On(l)' = {}
    BY <2>1 DEF On
  <2> QED BY <2>1, <2>2 DEF LineInv, Running, ShownBy
<1>6. \A k \in Line : Calm(k)' => LineInv(k)'
  BY <1>4, <1>5
<1> QED BY <1>3, <1>6 DEF LinesInv

-----------------------------------------------------------------------------
(* What the entries say is so.                                             *)

\* Once two lines have raced for a slot, or an amin that was stopped early has gone
\* astray, nothing more is said.
ShownInv == IInv /\ (raced \/ (UInv /\ LinesInv))

LEMMA ShownInit == Init => ShownInv
<1> SUFFICES ASSUME Init PROVE ShownInv
  OBVIOUS
<1>1. IInv
  BY InitInv
<1>2. /\ \A p \in Proc : /\ proc[p].pc = "out" /\ proc[p].above = {} /\ proc[p].sig = "none"
                         /\ proc[p].fixed = FALSE
      /\ file = << >> /\ \A l \in Line : owner[l] = NoUser
  BY IdleFields DEF Init
<1>3. UInv
  <2>1. TimeInv
    BY <1>2 DEF TimeInv, Alive
  <2>2. PlaceInv
    BY <1>2 DEF PlaceInv, Placed
  <2>3. AboveInv /\ TreeInv
    BY <1>2 DEF AboveInv, TreeInv
  <2> QED BY <2>1, <2>2, <2>3 DEF UInv
<1>4. LinesInv
  BY <1>2 DEF LinesInv, Calm
<1> QED BY <1>1, <1>3, <1>4 DEF ShownInv

\* What every action but that does.
LEMMA StepShown ==
  ASSUME IInv, IInv', UInv, LinesInv, Step
  PROVE  UInv' /\ LinesInv'
<1>1. ASSUME NEW p \in Proc, Own(p), OwnMoves(p) \/ OwnEnds(p) PROVE UInv' /\ LinesInv'
  BY <1>1, OwnStep
<1>2. ASSUME NEW p \in Proc,
             Leave(p) \/ SetModes(p) \/ Tel(p) \/ Amin(p) \/ Mesg(p) \/ MesgEnds(p)
      PROVE  Own(p) /\ (OwnMoves(p) \/ OwnEnds(p))
  BY <1>2, LeaveOwn, SetModesOwn, TelOwn, AminOwn, MesgOwn
<1>3. ASSUME NEW p \in Proc,
             Escape(p) \/ Return(p) \/ AminEnds(p) \/ Exit(p) \/ End(p) \/ Kill(p) \/ Halfway(p)
      PROVE  Own(p) /\ (OwnMoves(p) \/ OwnEnds(p))
  BY <1>3, EscapeOwn, ReturnOwn, ExitOwn, EndOwn, KillOwn, HalfwayOwn
<1>4. ASSUME NEW p \in Proc, Susp(p) \/ WriteWakes(p) \/ AminWakes(p)
      PROVE  Own(p) /\ (OwnMoves(p) \/ OwnEnds(p))
  BY <1>4, SuspOwn, WriteWakesOwn, AminWakesOwn
<1>5. ASSUME NEW p \in Proc, Start(p) \/ Disconnect(p) \/ Stop(p) \/ Fg(p)
      PROVE  UInv' /\ LinesInv'
  BY <1>5, StartInv, DisconnectInv, StopInv, FgInv
<1>6. ASSUME NEW l \in Line, Logout(l) \/ Login(l) PROVE UInv' /\ LinesInv'
  BY <1>6, LogoutInv, LoginInv
<1> QED BY <1>1, <1>2, <1>3, <1>4, <1>5, <1>6 DEF Step

LEMMA ShownNext == ShownInv /\ [Next]_vars => ShownInv'
<1> SUFFICES ASSUME ShownInv, [Next]_vars, ~ raced' PROVE UInv' /\ LinesInv'
  BY NextInv DEF ShownInv
<1>1. IInv /\ IInv' /\ UInv /\ LinesInv
  BY NextInv DEF ShownInv
<1>2. CASE UNCHANGED vars
  <2>1. UInv'
    BY <1>1, <1>2 DEF vars, UInv, TimeInv, PlaceInv, AboveInv, TreeInv, Alive, Comparable
  <2>2. \A l \in Line : Same(l) /\ (Calm(l)' => Calm(l))
    BY <1>2, EntryKept DEF vars, Same, Live, Calm
  <2> QED BY <1>1, <2>1, <2>2, SameLine DEF LinesInv
<1>3. CASE Step
  BY <1>1, <1>3, StepShown
<1>4. ASSUME NEW p \in Proc, EarlyStop(p) PROVE UInv' /\ LinesInv'
  BY <1>1, <1>4, LeaveOwn, HalfwayOwn, OwnStep DEF EarlyStop
<1>5. ASSUME NEW p \in Proc, Astray(p) PROVE FALSE
  BY <1>5 DEF Astray
<1> QED BY <1>2, <1>3, <1>4, <1>5 DEF Next

\* In a login without an accident the entry of the tty shows, at any time, the
\* innermost process whose modes are in place, and nobody when there is none, in
\* whatever nesting of write and amin, and after ^Z, fg and signals (set_modes(),
\* reset_modes(), fix_modes(), restore_modes(), susp(), intr()).  Accidents are those
\* in upset, among them a kill or a signal halfway through one of these, and in raced,
\* among them the fg of an amin that ^Z struck before its modes were in place.
THEOREM ShownRight == Spec => []ShownIsTrue
<1>1. ShownInv => ShownIsTrue
  <2> SUFFICES ASSUME ShownInv, NEW l \in Line, Calm(l)
               PROVE  LET top == {p \in On(l) : Below(p) \cap On(l) = {}}
                          e == EntryOf(l)
                      IN  IF On(l) = {} THEN e.what = NoUser
                          ELSE \E p \in top : /\ top = {p} /\ e.what = Temp(p).what
                                              /\ proc[p].cmd.prog = "write" => e.pid = p
    BY DEF ShownIsTrue, Calm, On
  <2>1. ShownBy(On(l), EntryOf(l)) /\ IInv /\ UInv
    BY DEF ShownInv, LinesInv, LineInv, Calm
  <2>2. CASE On(l) = {}
    BY <2>1, <2>2 DEF ShownBy
  <2>3. CASE On(l) # {}
    <3>1. PICK x \in On(l) : /\ On(l) = proc[x].above \cup {x}
                             /\ EntryOf(l).what = Shows(x)
                             /\ proc[x].cmd.prog = "write" => EntryOf(l).pid = x
      BY <2>1, <2>3 DEF ShownBy
    <3>2. x \in Proc /\ Alive(x) /\ On(l) \subseteq Proc
      BY DEF On, Live, Alive
    <3>3. Below(x) \cap On(l) = {}
      BY <2>1, <3>1, <3>2 DEF Below, UInv, TreeInv
    <3>4. \A y \in On(l) : y # x => x \in Below(y) \cap On(l)
      BY <3>1, <3>2 DEF Below
    <3>5. {p \in On(l) : Below(p) \cap On(l) = {}} = {x}
      BY <3>3, <3>4
    <3>6. Temp(x).what = Shows(x)
      BY <2>1, <3>2, TempShows
    <3> QED BY <3>1, <3>5, <3>6
  <2> QED BY <2>2, <2>3
<1>2. Spec => []ShownInv
  BY ShownInit, ShownNext, PTL DEF Spec
<1> QED BY <1>1, <1>2, PTL

-----------------------------------------------------------------------------
(* The mode of a tty and the preference in its entry: the invariant of     *)
(* ModesPutBack.  What the user has set with mesg is in what those that    *)
(* are on have remembered, or still to be seen by them.                    *)

\* Preferences that mesg sets in the shells of the processes S come to last: each of
\* them leaves the mode alone, and calls update_modes().
Clear(S) == \A e \in S : proc[e].cmd.tmp = "s"
Lasting(S) == \A e \in S : proc[e].cmd.tmp = "s" /\ proc[e].cmd.prog = "write"

PermInv(l) ==
  /\ Clear(On(l)) => perm[l] = want[l].perm
  /\ \A x \in On(l) :
       Clear(proc[x].above)
         /\ (proc[x].cmd.tmp # "s" \/ (proc[x].cmd.prog = "write" /\ proc[x].pc = "talk"))
       => proc[x].myperm = want[l].perm

\* v is what the user wants, or write -p has put it there: one of S, but not of B.
Right(l, v, S, B) == v = want[l].rec \/ (v = "a" /\ \E y \in S \ B : proc[y].cmd.post)

\* B: in their shells mesg has been used, and they have not seen it yet.
Behind(l, B) ==
  /\ \A x \in B : proc[x].pc = "shell" /\ Lasting({x}) /\ proc[x].above \subseteq B
  /\ Lasting(On(l)) => Right(l, EntryOf(l).rec, On(l), B)
  /\ \A x \in On(l) \ B :
       Lasting(proc[x].above) => Right(l, proc[x].mywrt.rec, proc[x].above, B)

RecInv(l) == \E B \in SUBSET On(l) : Behind(l, B)

\* What mesg notes of those above it.
Kept(p) ==
  /\ proc[p].keep.perm = Clear(proc[p].above)
  /\ proc[p].keep.rec = Lasting(proc[p].above)

\* Between find_wrttmp() and set_modes() nothing changes.
Fresh(p) ==
  proc[p].pc \in {"ask", "wake"} =>
    /\ proc[p].mywrt.rec = EntryOf(Tty[p]).rec
    /\ proc[p].cmd.prog \in {"write", "amin"} => proc[p].myperm = perm[Tty[p]]

\* The entry it has written is of this login.
Current(p) == Wrote(p) => file[proc[p].mypos].time = time[Tty[p]]

WaitInv(l) == \A p \in Live(l) : Kept(p) /\ Fresh(p)

ModesInv(l) == WaitInv(l) /\ PermInv(l) /\ RecInv(l)

\* Only write talks, and only write and amin have shells.
Runs(r) == /\ r.pc = "talk" => r.cmd.prog = "write"
           /\ r.pc = "shell" => r.cmd.prog \in {"write", "amin"}

ProgInv == \A p \in Proc : Runs(proc[p])

ModesInvs ==
  /\ ProgInv
  /\ \A l \in Line : Calm(l) => ModesInv(l) /\ \A p \in Live(l) : Current(p)

-----------------------------------------------------------------------------
(* What the processes above and below leave alone.                         *)

\* All above one that is on are on; the innermost has all the others above it.
LEMMA OnTree ==
  ASSUME IInv, UInv, NEW l \in Line, LineInv(l)
  PROVE  /\ On(l) \subseteq Live(l) /\ Live(l) \subseteq Proc
         /\ \A x \in On(l) : proc[x].above \subseteq On(l) /\ x \notin proc[x].above
         /\ \A p \in Live(l) : ~ Stopped(p) /\ (\A o \in proc[p].above : InPlace(o))
              /\ (\A q \in Below(p) : ~ InPlace(p) \/ proc[q].pc = "stopped")
              => On(l) \ {p} = proc[p].above
<1>1. On(l) \subseteq Live(l) /\ Live(l) \subseteq Proc
  BY DEF On, Live
<1>2. ASSUME NEW x \in On(l)
      PROVE  proc[x].above \subseteq On(l) /\ x \notin proc[x].above
  <2>1. x \in Proc /\ InPlace(x) /\ x \in Live(l) /\ proc[x].above \subseteq Live(l)
    BY <1>1, AboveLive DEF On, UInv
  <2>2. \A o \in proc[x].above : InPlace(o)
    BY <2>1 DEF LineInv, Opened, InPlace
  <2> QED BY <2>1, <2>2 DEF On, UInv, TreeInv
<1>3. ASSUME NEW p \in Live(l), ~ Stopped(p), \A o \in proc[p].above : InPlace(o),
             \A q \in Below(p) : ~ InPlace(p) \/ proc[q].pc = "stopped"
      PROVE  On(l) \ {p} = proc[p].above
  <2>1. Running(l) /\ \A q \in Live(l) : Opened(q)
    BY DEF LineInv
  <2>2. ASSUME NEW q \in Below(p) PROVE ~ InPlace(q)
    <3>1. q \in Live(l) /\ p \in proc[q].above
      BY <1>1, <1>3, AboveLive DEF UInv, Below
    <3> QED BY <1>3, <2>1, <3>1 DEF Opened, InPlace
  <2> QED BY <1>3, <2>1, <2>2, Under
<1> QED BY <1>1, <1>2, <1>3

\* Nobody else waits when it puts its modes in place, or takes them back.
LEMMA AloneWaits ==
  ASSUME IInv, UInv, NEW l \in Line, LineInv(l), NEW p \in Live(l), ~ Stopped(p),
         \A o \in proc[p].above : InPlace(o),
         \A q \in Below(p) : ~ InPlace(p) \/ proc[q].pc = "stopped",
         NEW q \in Live(l), q # p
  PROVE  proc[q].pc \notin {"ask", "wake"}
<1> SUFFICES ASSUME proc[q].pc \in {"ask", "wake"} PROVE FALSE
  OBVIOUS
<1>1. Comparable(p, q)
  BY DEF LineInv, Running, Stopped
<1>2. p \in Live(l) /\ q \in Live(l) /\ q \in Proc
  BY DEF Live
<1>3. CASE q \in proc[p].above
  BY <1>3 DEF InPlace
<1>4. CASE p \in proc[q].above
  <2>1. q \in Below(p)
    BY <1>2, <1>4 DEF Below
  <2>2. InPlace(p)
    BY <1>4 DEF LineInv, Opened
  <2> QED BY <2>1, <2>2
<1> QED BY <1>1, <1>3, <1>4 DEF Comparable

KeepsSame(p) == proc'[p].keep = proc[p].keep

\* The step of p leaves the others on its tty as they are.
LEMMA Rest ==
  ASSUME IInv, UInv, NEW p \in Proc, p \in Live(Tty[p]),
         UNCHANGED time, (Moves(p) /\ KeepsSame(p)) \/ (Ends({p}) /\ Below(p) = {})
  PROVE  LET l == Tty[p] IN
         /\ \A q \in Proc \ {p} : proc'[q] = proc[q]
         /\ Live(l)' = IF Moves(p) THEN Live(l) ELSE Live(l) \ {p}
         /\ On(l)' = IF InPlace(p)' THEN On(l) \cup {p} ELSE On(l) \ {p}
         /\ \A q \in Live(l)' : q \in Live(l) /\ (Kept(q) => Kept(q)')
<1> DEFINE l == Tty[p]
<1>1. \A q \in Proc \ {p} : proc'[q] = proc[q]
  BY EndsOthers DEF Moves, Below
<1>2. l \in Line
  BY AliveType
<1>3. CASE Moves(p) /\ KeepsSame(p)
  <2>1. /\ Live(l)' = Live(l)
        /\ \A q \in Proc : proc'[q].above = proc[q].above /\ proc'[q].cmd = proc[q].cmd
    BY <1>2, <1>3, MovesLive
  <2>2. On(l)' = IF InPlace(p)' THEN On(l) \cup {p} ELSE On(l) \ {p}
    BY <1>1, <2>1 DEF On, InPlace, Live
  <2>3. ASSUME NEW q \in Live(l) PROVE Kept(q) => Kept(q)'
    <3>1. q \in Proc /\ proc[q].above \in SUBSET Proc
      BY AliveType DEF Live, Process
    <3>2. proc'[q].keep = proc[q].keep
      BY <1>1, <1>3, <3>1 DEF KeepsSame
    <3>3. Clear(proc[q].above)' = Clear(proc[q].above)
          /\ Lasting(proc[q].above)' = Lasting(proc[q].above)
      BY <2>1, <3>1 DEF Clear, Lasting
    <3> QED BY <3>2, <3>3 DEF Kept
  <2> QED BY <1>1, <1>3, <2>1, <2>2, <2>3
<1>4. CASE Ends({p}) /\ Below(p) = {}
  <2>1. proc'[p] = Idle /\ ~ Moves(p) /\ ~ InPlace(p)'
    BY <1>4, IdleFields DEF Ends, Moves, InPlace
  <2>2. Live(l)' = Live(l) \ {p}
    BY <1>1, <2>1, IdleFields DEF Live
  <2>3. On(l)' = On(l) \ {p}
    BY <1>1, <2>1, <2>2 DEF On, InPlace, Live
  <2>4. ASSUME NEW q \in Live(l)' PROVE Kept(q) => Kept(q)'
    <3>1. q \in Proc \ {p} /\ proc[q].above \in SUBSET Proc
      BY <2>2, AliveType DEF Live, Process
    <3>2. proc'[q] = proc[q] /\ \A x \in proc[q].above : proc'[x] = proc[x]
      BY <1>1, <1>4, <3>1 DEF Below
    <3> QED BY <3>2 DEF Kept, Clear, Lasting
  <2> QED BY <1>1, <2>1, <2>2, <2>3, <2>4
<1> QED BY <1>3, <1>4

-----------------------------------------------------------------------------
(* The modes on a tty, when a process of the login makes a step.           *)

\* A process that has written its entry finds it there.
LEMMA OwnFile ==
  ASSUME IInv, ~ raced, NEW p \in Proc, Wrote(p), Current(p)
  PROVE  EntryOf(Tty[p]) = file[proc[p].mypos]
<1>1. Alive(p) /\ Tty[p] \in Line
  BY AliveType DEF Wrote, Alive
<1>2. proc[p].mypos \in 1 .. Len(file)
  BY <1>1 DEF IInv, PosInv, WrtTypeOK, Alive
<1>3. SlotInv
  BY DEF IInv
<1>4. file[proc[p].mypos].line = Tty[p]
  BY <1>1, <1>2, <1>3 DEF SlotInv
<1>5. SlotsOf(Tty[p]) = {proc[p].mypos}
  BY <1>2, <1>3, <1>4 DEF SlotInv, SlotsOf
<1> QED BY <1>1, <1>2, <1>5, EntryAt DEF Current, IInv

\* Nothing that is said of those that are on changes.
LEMMA ModesKept ==
  ASSUME IInv, UInv, NEW l \in Line, LineInv(l), PermInv(l), RecInv(l),
         On(l)' = On(l),
         \A x \in On(l) :
           /\ proc'[x].above = proc[x].above /\ proc'[x].cmd = proc[x].cmd
           /\ proc'[x].mywrt.rec = proc[x].mywrt.rec /\ proc'[x].myperm = proc[x].myperm
           /\ proc[x].pc = "shell" => proc'[x].pc = "shell"
           /\ proc'[x].pc = "talk" => proc[x].pc = "talk",
         perm'[l] = perm[l], want'[l] = want[l], (EntryOf(l).rec)' = EntryOf(l).rec
  PROVE  PermInv(l)' /\ RecInv(l)'
<1>1. \A x \in On(l) : proc[x].above \subseteq On(l)
  BY OnTree
<1>2. PermInv(l)'
  <2>1. Clear(On(l))' = Clear(On(l)) /\ \A x \in On(l) : Clear(proc[x].above)' = Clear(proc[x].above)
    BY <1>1 DEF Clear
  <2> QED BY <2>1 DEF PermInv
<1>3. PICK B \in SUBSET On(l) : Behind(l, B)
  BY DEF RecInv
<1>4. Behind(l, B)'
  <2>1. /\ Lasting(On(l))' = Lasting(On(l))
        /\ \A x \in On(l) : /\ Lasting(proc[x].above)' = Lasting(proc[x].above)
                            /\ Lasting({x})' = Lasting({x})
    BY <1>1 DEF Lasting
  <2>2. \A x \in B : (proc[x].pc = "shell" /\ Lasting({x}) /\ proc[x].above \subseteq B)'
    BY <1>3, <2>1 DEF Behind
  <2>3. (Lasting(On(l)) => Right(l, EntryOf(l).rec, On(l), B))'
    BY <1>3, <2>1 DEF Behind, Right
  <2>4. ASSUME NEW x \in On(l) \ B, Lasting(proc[x].above)'
        PROVE  Right(l, proc[x].mywrt.rec, proc[x].above, B)'
    <3>1. Right(l, proc[x].mywrt.rec, proc[x].above, B)
      BY <1>3, <2>1, <2>4 DEF Behind
    <3>2. /\ proc'[x].mywrt.rec = proc[x].mywrt.rec /\ proc'[x].above = proc[x].above
          /\ \A y \in proc[x].above : proc'[y].cmd = proc[y].cmd
      BY <1>1, <2>4
    <3> QED BY <3>1, <3>2 DEF Right
  <2> QED BY <2>2, <2>3, <2>4 DEF Behind
<1> QED BY <1>2, <1>3, <1>4 DEF RecInv

\* It is the only one that waits, or has its modes in place and all below it stopped.
Alone(p) ==
  /\ ~ Stopped(p) /\ (\A o \in proc[p].above : InPlace(o))
  /\ (\A q \in Below(p) : ~ InPlace(p) \/ proc[q].pc = "stopped")
  /\ proc'[p].pc \notin {"ask", "wake"}

Goes(p) == (Moves(p) /\ KeepsSame(p)) \/ (Ends({p}) /\ Below(p) = {} /\ UNCHANGED time)

\* What those that wait have seen.
LEMMA WaitsOn ==
  ASSUME IInv, UInv, NEW p \in Proc, p \in Live(Tty[p]), LineInv(Tty[p]), WaitInv(Tty[p]),
         Goes(p), Fresh(p)',
         Alone(p) \/ (perm'[Tty[p]] = perm[Tty[p]] /\ (EntryOf(Tty[p]).rec)' = EntryOf(Tty[p]).rec)
  PROVE  WaitInv(Tty[p])'
<1> DEFINE l == Tty[p]
<1>1. /\ \A q \in Proc \ {p} : proc'[q] = proc[q]
      /\ \A q \in Live(l)' : q \in Live(l) /\ (Kept(q) => Kept(q)')
  BY Rest DEF Goes, Moves
<1>2. SUFFICES ASSUME NEW q \in Live(l)' PROVE Kept(q)' /\ Fresh(q)'
  BY DEF WaitInv
<1>3. q \in Live(l) /\ Kept(q)' /\ Fresh(q) /\ q \in Proc /\ Tty[q] = l /\ l \in Line
  BY <1>1, <1>2, AliveType DEF WaitInv, Live
<1>4. CASE q # p
  <2>1. proc'[q] = proc[q]
    BY <1>1, <1>3, <1>4
  <2>2. CASE Alone(p)
    <3>1. proc[q].pc \notin {"ask", "wake"}
      BY <1>3, <1>4, <2>2, AloneWaits DEF Alone
    <3> QED BY <1>3, <2>1, <3>1 DEF Fresh
  <2>3. CASE perm'[l] = perm[l] /\ (EntryOf(l).rec)' = EntryOf(l).rec
    BY <1>3, <2>1, <2>3 DEF Fresh
  <2> QED BY <2>2, <2>3
<1>5. q = p => Fresh(q)'
  BY <1>3 DEF Fresh
<1> QED BY <1>3, <1>4, <1>5

\* Those above a process, the set A, stay as they are.
UppersSame(A) ==
  /\ (Clear(A)' <=> Clear(A)) /\ (Lasting(A)' <=> Lasting(A))
  /\ \A x \in A : /\ proc'[x] = proc[x] /\ proc[x].above \in SUBSET A /\ x \notin proc[x].above
                  /\ Clear(proc[x].above)' <=> Clear(proc[x].above)
                  /\ Lasting(proc[x].above)' <=> Lasting(proc[x].above)
                  /\ Lasting({x})' <=> Lasting({x})

LEMMA Uppers ==
  ASSUME IInv, UInv, NEW p \in Proc, p \in Live(Tty[p]), LineInv(Tty[p]),
         \A q \in Proc \ {p} : proc'[q] = proc[q],
         NEW A \in SUBSET Proc, A = proc[p].above
  PROVE  p \notin A /\ UppersSame(A)
<1>1. p \notin A /\ \A x \in A : proc'[x] = proc[x]
  BY DEF UInv, TreeInv
<1>2. \A x \in A : x \in Proc /\ proc[x].above \in SUBSET A /\ x \notin proc[x].above
  BY DEF UInv, TreeInv
<1>3. (Clear(A)' <=> Clear(A)) /\ (Lasting(A)' <=> Lasting(A))
  BY <1>1 DEF Clear, Lasting
<1>4. ASSUME NEW x \in A
      PROVE  /\ Clear(proc[x].above)' <=> Clear(proc[x].above)
             /\ Lasting(proc[x].above)' <=> Lasting(proc[x].above)
             /\ Lasting({x})' <=> Lasting({x})
  <2>1. proc'[x] = proc[x] /\ \A y \in proc[x].above : proc'[y] = proc[y]
    BY <1>1, <1>2
  <2> QED BY <2>1 DEF Clear, Lasting
<1> QED BY <1>1, <1>2, <1>3, <1>4 DEF UppersSame

\* It puts its modes in place.
GoesOn(p) ==
  LET r == proc[p]
      l == Tty[p]
  IN
  /\ Alone(p) /\ ~ InPlace(p) /\ InPlace(p)'
  /\ r.mywrt.rec = EntryOf(l).rec /\ proc'[p].mywrt.rec = r.mywrt.rec
  /\ (EntryOf(l).rec)' = IF r.cmd.post THEN "a" ELSE r.mywrt.rec
  /\ perm'[l] = TempPerm(p, perm[l])
  /\ r.cmd.tmp # "s" \/ r.cmd.prog = "write" => proc'[p].myperm = perm[l]
  /\ want'[l] = want[l]

LEMMA GoesOnModes ==
  ASSUME IInv, UInv, NEW p \in Proc, p \in Live(Tty[p]), LineInv(Tty[p]), ModesInv(Tty[p]),
         Moves(p), KeepsSame(p), GoesOn(p)
  PROVE  ModesInv(Tty[p])'
<1> DEFINE l == Tty[p]
<1>1. PICK A \in SUBSET Proc : A = proc[p].above
  BY AliveType DEF Process
<1>2. /\ \A q \in Proc \ {p} : proc'[q] = proc[q]
      /\ On(l)' = On(l) \cup {p} /\ l \in Line
      /\ proc'[p].above = A /\ proc'[p].cmd = proc[p].cmd
  BY <1>1, Rest, AliveType DEF GoesOn, Moves
<1>3. On(l) = A
  BY <1>1, <1>2, OnTree DEF GoesOn, Alone, On
<1>4. /\ p \notin A /\ (Clear(A)' <=> Clear(A)) /\ (Lasting(A)' <=> Lasting(A))
      /\ \A x \in A : /\ proc'[x] = proc[x] /\ proc[x].above \in SUBSET A
                      /\ Clear(proc[x].above)' <=> Clear(proc[x].above)
                      /\ Lasting(proc[x].above)' <=> Lasting(proc[x].above)
                      /\ Lasting({x})' <=> Lasting({x})
  <2>1. p \notin A /\ UppersSame(A)
    BY <1>1, <1>2, Uppers
  <2> QED BY <2>1 DEF UppersSame
<1>5. /\ Clear(On(l))' => Clear(A) /\ proc[p].cmd.tmp = "s"
      /\ Lasting(On(l))' => Lasting(A)
  BY <1>2, <1>3, <1>4 DEF Clear, Lasting
<1>6. PermInv(l)'
  <2>1. Clear(A) => perm[l] = want[l].perm
    BY <1>3 DEF ModesInv, PermInv
  <2>2. Clear(On(l))' => perm'[l] = want'[l].perm
    BY <1>5, <2>1 DEF GoesOn, TempPerm
  <2>3. ASSUME NEW x \in On(l)', Clear(proc[x].above)',
               (proc[x].cmd.tmp # "s" \/ (proc[x].cmd.prog = "write" /\ proc[x].pc = "talk"))'
        PROVE  proc'[x].myperm = want'[l].perm
    <3>1. CASE x = p
      BY <1>2, <1>4, <2>1, <2>3, <3>1 DEF GoesOn
    <3>2. CASE x # p
      <4>1. x \in A /\ proc'[x] = proc[x]
        BY <1>2, <1>3, <1>4, <2>3, <3>2
      <4>2. /\ Clear(proc[x].above)
            /\ proc[x].cmd.tmp # "s" \/ (proc[x].cmd.prog = "write" /\ proc[x].pc = "talk")
        BY <1>4, <2>3, <4>1
      <4>3. proc[x].myperm = want[l].perm
        BY <1>3, <4>1, <4>2 DEF ModesInv, PermInv
      <4> QED BY <4>1, <4>3 DEF GoesOn
    <3> QED BY <3>1, <3>2
  <2> QED BY <2>2, <2>3 DEF PermInv
<1>7. PICK B \in SUBSET A : Behind(l, B)
  BY <1>3 DEF ModesInv, RecInv
<1>8. Behind(l, B)'
  <2>1. ASSUME NEW x \in B PROVE (proc[x].pc = "shell" /\ Lasting({x}) /\ proc[x].above \subseteq B)'
    BY <1>4, <1>7 DEF Behind
  <2>2. ASSUME NEW S \in SUBSET A, NEW v, Right(l, v, S, B)
        PROVE  v = want'[l].rec \/ (v = "a" /\ \E y \in S \ B : proc'[y].cmd.post)
    BY <1>4, <2>2 DEF Right, GoesOn
  <2>3. Lasting(A) => Right(l, proc[p].mywrt.rec, A, B)
    BY <1>3, <1>7 DEF Behind, GoesOn
  <2>4. ASSUME Lasting(On(l))' PROVE Right(l, EntryOf(l).rec, On(l), B)'
    <3>1. Right(l, proc[p].mywrt.rec, A, B)
      BY <1>5, <2>3, <2>4
    <3>2. CASE proc[p].cmd.post
      BY <1>2, <1>4, <3>2 DEF GoesOn, Right
    <3>3. CASE ~ proc[p].cmd.post
      BY <1>2, <1>3, <2>2, <3>1, <3>3 DEF GoesOn, Right
    <3> QED BY <3>2, <3>3
  <2>5. ASSUME NEW x \in On(l)' \ B, Lasting(proc[x].above)'
        PROVE  Right(l, proc[x].mywrt.rec, proc[x].above, B)'
    <3>1. CASE x = p
      <4>1. Right(l, proc[p].mywrt.rec, A, B)
        BY <1>2, <1>4, <2>3, <2>5, <3>1
      <4> QED BY <1>2, <2>2, <3>1, <4>1 DEF GoesOn, Right
    <3>2. CASE x # p
      <4>1. x \in A \ B /\ Lasting(proc[x].above)
        BY <1>2, <1>3, <1>4, <2>5, <3>2
      <4>2. Right(l, proc[x].mywrt.rec, proc[x].above, B)
        BY <1>3, <1>7, <4>1 DEF Behind
      <4> QED BY <1>4, <2>2, <4>1, <4>2 DEF Right
    <3> QED BY <3>1, <3>2
  <2> QED BY <2>1, <2>4, <2>5 DEF Behind
<1>9. RecInv(l)'
  BY <1>2, <1>3, <1>7, <1>8 DEF RecInv
<1>10. WaitInv(l)'
  <2>1. Fresh(p)'
    BY DEF GoesOn, Alone, Fresh
  <2> QED BY <2>1, WaitsOn DEF GoesOn, Goes, ModesInv
<1> QED BY <1>6, <1>9, <1>10 DEF ModesInv

\* Nothing lasts in the shell of p any more: what is said of those above it.
Passes(p, A, B) ==
  LET C == B \ {p} IN
  /\ On(Tty[p]) = A \cup {p} /\ p \notin A
  /\ \A x \in C : (proc[x].pc = "shell" /\ Lasting({x}) /\ proc[x].above \subseteq C)'
  /\ \A x \in A \ C :
       (Lasting(proc[x].above) => Right(Tty[p], proc[x].mywrt.rec, proc[x].above, C))'

LEMMA LessBehind ==
  ASSUME IInv, UInv, NEW p \in Proc, p \in Live(Tty[p]), LineInv(Tty[p]),
         \A q \in Proc \ {p} : proc'[q] = proc[q], Alone(p), InPlace(p),
         want'[Tty[p]] = want[Tty[p]],
         NEW A \in SUBSET Proc, A = proc[p].above,
         NEW B \in SUBSET On(Tty[p]), Behind(Tty[p], B)
  PROVE  Passes(p, A, B)
<1> DEFINE l == Tty[p]
<1>1. /\ p \notin A
      /\ \A x \in A : /\ proc'[x] = proc[x] /\ proc[x].above \in SUBSET A
                      /\ Lasting(proc[x].above)' <=> Lasting(proc[x].above)
                      /\ Lasting({x})' <=> Lasting({x})
  BY Uppers DEF UppersSame
<1>2. On(l) = A \cup {p} /\ l \in Line
  <2>1. On(l) \ {p} = A /\ l \in Line
    BY AliveType, OnTree DEF Alone
  <2> QED BY <2>1 DEF On
<1>3. ASSUME NEW x \in B \ {p}
      PROVE  (proc[x].pc = "shell" /\ Lasting({x}) /\ proc[x].above \subseteq B \ {p})'
  <2>1. x \in A /\ proc[x].above \subseteq B /\ proc[x].pc = "shell" /\ Lasting({x})
    BY <1>2 DEF Behind
  <2> QED BY <1>1, <2>1
<1>4. ASSUME NEW x \in A \ (B \ {p}), Lasting(proc[x].above)'
      PROVE  Right(l, proc[x].mywrt.rec, proc[x].above, B \ {p})'
  <2>1. x \in On(l) \ B /\ Lasting(proc[x].above) /\ proc[x].above \in SUBSET A
    BY <1>1, <1>2, <1>4
  <2>2. Right(l, proc[x].mywrt.rec, proc[x].above, B)
    BY <2>1 DEF Behind
  <2>3. /\ \A y \in proc[x].above \ B : y \in proc[x].above \ (B \ {p}) /\ proc'[y] = proc[y]
        /\ proc'[x] = proc[x]
    BY <1>1, <2>1
  <2> QED BY <2>2, <2>3 DEF Right
<1> QED BY <1>1, <1>2, <1>3, <1>4 DEF Passes

\* It takes them back.
GoesOff(p) ==
  LET r == proc[p]
      l == Tty[p]
  IN
  /\ Alone(p) /\ InPlace(p) /\ ~ InPlace(p)'
  /\ (EntryOf(l).rec)' = r.mywrt.rec
  /\ perm'[l] = IF r.cmd.prog = "amin" /\ r.cmd.tmp = "s" THEN perm[l] ELSE r.myperm
  /\ r.pc = "shell" /\ r.cmd.prog = "write" /\ r.cmd.tmp = "s" =>
       perm[l] = r.myperm /\ EntryOf(l).rec = IF r.cmd.post THEN "a" ELSE r.mywrt.rec
  /\ r.pc = "talk" => r.cmd.prog = "write"
  /\ r.cmd.prog \in {"write", "amin"}
  /\ want'[l] = want[l]

LEMMA GoesOffModes ==
  ASSUME IInv, UInv, NEW p \in Proc, p \in Live(Tty[p]), LineInv(Tty[p]), ModesInv(Tty[p]),
         Goes(p), GoesOff(p)
  PROVE  ModesInv(Tty[p])'
<1> DEFINE l == Tty[p]
<1>1. PICK A \in SUBSET Proc : A = proc[p].above
  BY AliveType DEF Process
<1>2. /\ \A q \in Proc \ {p} : proc'[q] = proc[q]
      /\ On(l)' = On(l) \ {p} /\ l \in Line
  BY Rest, AliveType DEF GoesOff, Goes, Moves
<1>3. PICK B \in SUBSET On(l) : Behind(l, B)
  BY DEF ModesInv, RecInv
<1>4. /\ On(l) = A \cup {p} /\ p \notin A
      /\ \A x \in B \ {p} : (proc[x].pc = "shell" /\ Lasting({x}) /\ proc[x].above \subseteq B \ {p})'
      /\ \A x \in A \ (B \ {p}) :
              (Lasting(proc[x].above) => Right(l, proc[x].mywrt.rec, proc[x].above, B \ {p}))'
  <2>1. Passes(p, A, B)
    BY <1>1, <1>2, <1>3, LessBehind DEF GoesOff
  <2> QED BY <2>1 DEF Passes
<1>5. /\ p \notin A /\ (Clear(A)' <=> Clear(A)) /\ (Lasting(A)' <=> Lasting(A))
      /\ \A x \in A : /\ proc'[x] = proc[x] /\ proc[x].above \in SUBSET A
                      /\ Clear(proc[x].above)' <=> Clear(proc[x].above)
  <2>1. p \notin A /\ UppersSame(A)
    BY <1>1, <1>2, Uppers
  <2> QED BY <2>1 DEF UppersSame
<1>6. On(l)' = A
  BY <1>2, <1>4
<1>7. PermInv(l)'
  <2>1. ASSUME Clear(A) PROVE perm'[l] = want[l].perm
    <3>1. proc[p].pc \in {"talk", "shell"} /\ proc[p].cmd.tmp \in {"s", "n", "y"}
      BY AliveType DEF GoesOff, InPlace, Commands
    <3>2. proc[p].cmd.tmp = "s" => perm[l] = want[l].perm
      BY <1>4, <2>1 DEF Clear, PermInv, ModesInv
    <3>3. proc[p].cmd.tmp # "s" \/ proc[p].pc = "talk" => proc[p].myperm = want[l].perm
      BY <1>1, <1>4, <2>1 DEF PermInv, ModesInv, GoesOff
    <3> QED BY <3>1, <3>2, <3>3 DEF GoesOff
  <2>2. ASSUME NEW x \in A, Clear(proc[x].above)',
               (proc[x].cmd.tmp # "s" \/ (proc[x].cmd.prog = "write" /\ proc[x].pc = "talk"))'
        PROVE  proc'[x].myperm = want'[l].perm
    BY <1>4, <1>5, <2>2 DEF GoesOff, ModesInv, PermInv
  <2>3. Clear(A)' => perm'[l] = want'[l].perm
    BY <1>5, <2>1 DEF GoesOff
  <2> QED BY <1>6, <2>2, <2>3 DEF PermInv, Clear
<1>8. Behind(l, B \ {p})'
  <2>1. ASSUME Lasting(A)' PROVE Right(l, EntryOf(l).rec, A, B \ {p})'
    <3>1. (EntryOf(l).rec)' = proc[p].mywrt.rec /\ want'[l] = want[l]
      BY DEF GoesOff
    <3>2. CASE p \notin B
      <4>1. Right(l, proc[p].mywrt.rec, A, B)
        BY <1>1, <1>3, <1>4, <1>5, <2>1, <3>2 DEF Behind
      <4>2. \A y \in A : proc'[y] = proc[y] /\ (y \notin B => y \notin B \ {p})
        BY <1>5
      <4> QED BY <3>1, <4>1, <4>2 DEF Right
    <3>3. CASE p \in B
      <4>1. /\ proc[p].pc = "shell" /\ Lasting({p}) /\ A \subseteq B
            /\ Lasting(On(l)) => Right(l, EntryOf(l).rec, On(l), B)
        BY <1>1, <1>3, <3>3 DEF Behind
      <4>2. Lasting(On(l)) /\ On(l) \ B = {}
        BY <1>4, <1>5, <2>1, <3>3, <4>1 DEF Lasting
      <4>3. EntryOf(l).rec = want[l].rec
        BY <4>1, <4>2 DEF Right
      <4>4. want[l].rec # "a"
        BY <1>2 DEF IInv, WrtTypeOK
      <4>5. proc[p].mywrt.rec = want[l].rec
        BY <4>1, <4>3, <4>4 DEF GoesOff, Lasting
      <4> QED BY <3>1, <4>5 DEF Right
    <3> QED BY <3>2, <3>3
  <2> QED BY <1>4, <1>6, <2>1 DEF Behind, Lasting, Right
<1>9. RecInv(l)'
  BY <1>3, <1>4, <1>6, <1>8 DEF RecInv
<1>10. WaitInv(l)'
  <2>1. Fresh(p)'
    BY DEF GoesOff, Alone, Fresh
  <2> QED BY <2>1, WaitsOn DEF GoesOff, ModesInv
<1> QED BY <1>7, <1>9, <1>10 DEF ModesInv

\* The shell of a write ends, and it sees what has been set there.
Returns(p) ==
  LET r == proc[p]
      l == Tty[p]
  IN
  /\ Alone(p) /\ r.pc = "shell" /\ proc'[p].pc = "talk" /\ r.cmd.prog = "write"
  /\ IF r.cmd.tmp = "s"
     THEN proc'[p].mywrt.rec = EntryOf(l).rec /\ proc'[p].myperm = perm[l]
     ELSE proc'[p].mywrt.rec = r.mywrt.rec /\ proc'[p].myperm = r.myperm
  /\ r.cmd.post /\ proc'[p].mywrt.rec = "a" => r.mywrt.rec = "a"
  /\ perm'[l] = perm[l] /\ (EntryOf(l).rec)' = EntryOf(l).rec /\ want'[l] = want[l]

LEMMA ReturnsModes ==
  ASSUME IInv, UInv, NEW p \in Proc, p \in Live(Tty[p]), LineInv(Tty[p]), ModesInv(Tty[p]),
         Moves(p), KeepsSame(p), Returns(p)
  PROVE  ModesInv(Tty[p])'
<1> DEFINE l == Tty[p]
           r == proc[p]
<1>1. PICK A \in SUBSET Proc : A = proc[p].above
  BY AliveType DEF Process
<1>2. /\ \A q \in Proc \ {p} : proc'[q] = proc[q]
      /\ On(l)' = On(l) \cup {p} /\ l \in Line /\ InPlace(p)
      /\ proc'[p].above = A /\ proc'[p].cmd = proc[p].cmd
  BY <1>1, Rest, AliveType DEF Returns, InPlace, Moves
<1>3. PICK B \in SUBSET On(l) : Behind(l, B)
  BY DEF ModesInv, RecInv
<1>4. /\ On(l) = A \cup {p} /\ p \notin A
      /\ \A x \in B \ {p} : (proc[x].pc = "shell" /\ Lasting({x}) /\ proc[x].above \subseteq B \ {p})'
      /\ \A x \in A \ (B \ {p}) :
              (Lasting(proc[x].above) => Right(l, proc[x].mywrt.rec, proc[x].above, B \ {p}))'
  <2>1. Passes(p, A, B)
    BY <1>1, <1>2, <1>3, LessBehind DEF Returns
  <2> QED BY <2>1 DEF Passes
<1>5. /\ p \notin A /\ (Clear(A)' <=> Clear(A)) /\ (Lasting(A)' <=> Lasting(A))
      /\ \A x \in A : /\ proc'[x] = proc[x] /\ proc[x].above \in SUBSET A
                      /\ Clear(proc[x].above)' <=> Clear(proc[x].above)
  <2>1. p \notin A /\ UppersSame(A)
    BY <1>1, <1>2, Uppers
  <2> QED BY <2>1 DEF UppersSame
<1>6. /\ On(l)' = On(l) /\ (Clear(On(l))' <=> Clear(On(l))) /\ (Lasting(On(l))' <=> Lasting(On(l)))
      /\ r.cmd.tmp \in {"s", "n", "y"} /\ r.cmd.post \in BOOLEAN
  <2>1. On(l)' = On(l) /\ \A x \in On(l) : proc'[x].cmd = proc[x].cmd
    BY <1>2, <1>4, <1>5
  <2> QED BY <2>1, AliveType DEF Clear, Lasting, Commands
<1>7. PermInv(l)'
  <2>1. ASSUME NEW x \in On(l), Clear(proc[x].above)',
               (proc[x].cmd.tmp # "s" \/ (proc[x].cmd.prog = "write" /\ proc[x].pc = "talk"))'
        PROVE  proc'[x].myperm = want'[l].perm
    <3>1. CASE x = p
      <4>1. Clear(A)
        BY <1>2, <1>5, <2>1, <3>1
      <4>2. CASE r.cmd.tmp = "s"
        BY <1>4, <2>1, <3>1, <4>1, <4>2 DEF Clear, ModesInv, PermInv, Returns
      <4>3. CASE r.cmd.tmp # "s"
        BY <1>1, <1>4, <2>1, <3>1, <4>1, <4>3 DEF ModesInv, PermInv, Returns
      <4> QED BY <1>6, <4>2, <4>3
    <3>2. CASE x # p
      BY <1>4, <1>5, <2>1, <3>2 DEF Returns, ModesInv, PermInv
    <3> QED BY <3>1, <3>2
  <2>2. Clear(On(l))' => perm'[l] = want'[l].perm
    BY <1>6 DEF Returns, ModesInv, PermInv
  <2> QED BY <1>6, <2>1, <2>2 DEF PermInv
<1>8. Behind(l, B \ {p})'
  <2> DEFINE C == B \ {p}
  <2>1. ASSUME Lasting(On(l))' PROVE Right(l, EntryOf(l).rec, On(l), C)'
    <3>1. Right(l, EntryOf(l).rec, On(l), B)
      BY <1>3, <1>6, <2>1 DEF Behind
    <3>2. \A y \in On(l) \ B : y \in On(l) \ C /\ proc'[y].cmd = proc[y].cmd
      BY <1>2, <1>4, <1>5
    <3> QED BY <1>6, <3>1, <3>2 DEF Right, Returns
  <2>2. ASSUME Lasting(A)' PROVE Right(l, proc[p].mywrt.rec, A, C)'
    <3>1. p \notin B => Right(l, r.mywrt.rec, A, B)
      BY <1>1, <1>3, <1>4, <1>5, <2>2 DEF Behind
    <3>2. \A y \in A \ B : y \in A \ C /\ proc'[y] = proc[y]
      BY <1>5
    <3>3. p \in B => A \subseteq B /\ Lasting({p})
      BY <1>1, <1>3 DEF Behind
    <3>4. CASE r.cmd.tmp # "s"
      <4>1. p \notin B
        BY <3>3, <3>4 DEF Lasting
      <4> QED BY <3>1, <3>2, <3>4, <4>1 DEF Right, Returns
    <3>5. CASE r.cmd.tmp = "s"
      <4>1. Lasting(On(l))
        BY <1>4, <1>5, <2>2, <3>5 DEF Lasting, Returns
      <4>2. Right(l, EntryOf(l).rec, On(l), B)
        BY <1>3, <4>1 DEF Behind
      <4>3. CASE EntryOf(l).rec = want[l].rec
        BY <3>5, <4>3 DEF Right, Returns
      <4>4. CASE EntryOf(l).rec # want[l].rec
        <5>1. EntryOf(l).rec = "a" /\ \E y \in On(l) \ B : proc[y].cmd.post
          BY <4>2, <4>4 DEF Right
        <5>2. PICK y \in On(l) \ B : proc[y].cmd.post
          BY <5>1
        <5>3. p \notin B
          BY <1>4, <3>3, <5>2
        <5>4. CASE y = p
          <6>1. r.mywrt.rec = "a" /\ want[l].rec # "a"
            BY <1>2, <3>5, <5>1, <5>2, <5>4 DEF Returns, IInv, WrtTypeOK
          <6>2. \E z \in A \ B : proc[z].cmd.post
            BY <3>1, <5>3, <6>1 DEF Right
          <6> QED BY <3>2, <3>5, <5>1, <6>2 DEF Right, Returns
        <5>5. CASE y # p
          BY <1>4, <3>2, <3>5, <5>1, <5>2, <5>5 DEF Right, Returns
        <5> QED BY <5>4, <5>5
      <4> QED BY <4>3, <4>4
    <3> QED BY <1>6, <3>4, <3>5
  <2>3. ASSUME NEW x \in On(l)' \ C, Lasting(proc[x].above)'
        PROVE  Right(l, proc[x].mywrt.rec, proc[x].above, C)'
    <3>1. x = p => Right(l, proc[x].mywrt.rec, proc[x].above, C)'
      BY <1>2, <2>2, <2>3 DEF Right
    <3> QED BY <1>4, <1>6, <2>3, <3>1
  <2> QED BY <1>4, <2>1, <2>3 DEF Behind
<1>9. RecInv(l)'
  BY <1>3, <1>6, <1>8 DEF RecInv
<1>10. WaitInv(l)'
  <2>1. Fresh(p)'
    BY DEF Returns, Alone, Fresh
  <2> QED BY <2>1, WaitsOn DEF Returns, ModesInv, Goes
<1> QED BY <1>7, <1>9, <1>10 DEF ModesInv

\* mesg: what it sets is what the user wants, if it lasts.
MesgSets(p) ==
  LET r == proc[p]
      l == Tty[p]
  IN
  /\ Alone(p) /\ ~ InPlace(p) /\ ~ InPlace(p)'
  /\ r.cmd.perms = {} => perm'[l] = perm[l]
  /\ r.cmd.recs = {} => (EntryOf(l).rec)' = EntryOf(l).rec
  /\ want'[l].perm = IF r.keep.perm /\ r.cmd.perms # {} THEN perm'[l] ELSE want[l].perm
  /\ want'[l].rec = IF r.keep.rec /\ r.cmd.recs # {} THEN (EntryOf(l).rec)' ELSE want[l].rec

LEMMA MesgSetsModes ==
  ASSUME IInv, UInv, NEW p \in Proc, p \in Live(Tty[p]), LineInv(Tty[p]), ModesInv(Tty[p]),
         Goes(p), MesgSets(p)
  PROVE  ModesInv(Tty[p])'
<1> DEFINE l == Tty[p]
           r == proc[p]
<1>1. PICK A \in SUBSET Proc : A = proc[p].above
  BY AliveType DEF Process
<1>2. /\ \A q \in Proc \ {p} : proc'[q] = proc[q]
      /\ On(l)' = On(l) \ {p} /\ l \in Line
  BY Rest, AliveType DEF MesgSets, Goes, Moves
<1>3. On(l) = A /\ On(l)' = A
  BY <1>1, <1>2, OnTree DEF MesgSets, Alone, On
<1>4. /\ (Clear(A)' <=> Clear(A)) /\ (Lasting(A)' <=> Lasting(A))
      /\ \A x \in A : /\ proc'[x] = proc[x] /\ proc[x].above \in SUBSET A
                      /\ Clear(proc[x].above)' <=> Clear(proc[x].above)
                      /\ Lasting(proc[x].above)' <=> Lasting(proc[x].above)
                      /\ Lasting({x})' <=> Lasting({x})
  <2>1. p \notin A /\ UppersSame(A)
    BY <1>1, <1>2, Uppers
  <2> QED BY <2>1 DEF UppersSame
<1>5. r.keep.perm = Clear(A) /\ r.keep.rec = Lasting(A)
  BY <1>1 DEF ModesInv, WaitInv, Kept
<1>6. \A x \in A : proc[x].pc = "shell" /\ proc[x].cmd.tmp \in {"s", "n", "y"}
  <2> TAKE x \in A
  <2>1. HasShell(proc[x]) /\ InPlace(x) /\ x \in Proc
    BY <1>1, <1>3 DEF UInv, AboveInv, On
  <2> QED BY <2>1, AliveType DEF HasShell, InPlace, Commands
<1>7. PermInv(l)'
  <2>1. Clear(A) => perm'[l] = want'[l].perm
    BY <1>3, <1>5 DEF MesgSets, ModesInv, PermInv
  <2>2. ASSUME NEW x \in A, Clear(proc[x].above)',
               (proc[x].cmd.tmp # "s" \/ (proc[x].cmd.prog = "write" /\ proc[x].pc = "talk"))'
        PROVE  proc'[x].myperm = want'[l].perm
    <3>1. proc[x].cmd.tmp # "s"
      BY <1>4, <1>6, <2>2
    <3>2. ~ Clear(A)
      BY <3>1, <2>2 DEF Clear
    <3> QED BY <1>3, <1>4, <1>5, <2>2, <3>1, <3>2 DEF MesgSets, ModesInv, PermInv
  <2> QED BY <1>3, <1>4, <2>1, <2>2 DEF PermInv
<1>8. RecInv(l)'
  <2>1. CASE Lasting(A) /\ r.cmd.recs # {}
    <3>1. ASSUME NEW x \in A
          PROVE  (proc[x].pc = "shell" /\ Lasting({x}) /\ proc[x].above \subseteq A)'
      BY <1>4, <1>6, <2>1 DEF Lasting
    <3>2. Right(l, EntryOf(l).rec, On(l), A)'
      BY <1>5, <2>1 DEF Right, MesgSets
    <3>3. Behind(l, A)'
      BY <1>3, <3>1, <3>2 DEF Behind
    <3> QED BY <1>3, <3>3 DEF RecInv
  <2>2. CASE ~ (Lasting(A) /\ r.cmd.recs # {})
    <3>1. PICK B \in SUBSET A : Behind(l, B)
      BY <1>3 DEF ModesInv, RecInv
    <3>2. want'[l].rec = want[l].rec
      BY <1>5, <2>2 DEF MesgSets
    <3>3. ASSUME NEW x \in B
          PROVE  (proc[x].pc = "shell" /\ Lasting({x}) /\ proc[x].above \subseteq B)'
      BY <1>4, <3>1 DEF Behind
    <3>4. ASSUME Lasting(On(l))' PROVE Right(l, EntryOf(l).rec, On(l), B)'
      <4>1. Lasting(On(l)) /\ r.cmd.recs = {}
        BY <1>3, <1>4, <2>2, <3>4 DEF Lasting
      <4>2. Right(l, EntryOf(l).rec, On(l), B)
        BY <3>1, <4>1 DEF Behind
      <4> QED BY <1>3, <1>4, <3>2, <4>1, <4>2 DEF Right, MesgSets
    <3>5. ASSUME NEW x \in A \ B, Lasting(proc[x].above)'
          PROVE  Right(l, proc[x].mywrt.rec, proc[x].above, B)'
      <4>1. Right(l, proc[x].mywrt.rec, proc[x].above, B)
        BY <1>3, <1>4, <3>1, <3>5 DEF Behind
      <4> QED BY <1>4, <3>2, <4>1 DEF Right
    <3>6. Behind(l, B)'
      BY <1>3, <3>3, <3>4, <3>5 DEF Behind
    <3> QED BY <1>3, <3>1, <3>6 DEF RecInv
  <2> QED BY <2>1, <2>2
<1>9. WaitInv(l)'
  <2>1. Fresh(p)'
    BY DEF MesgSets, Alone, Fresh
  <2> QED BY <2>1, WaitsOn DEF MesgSets, ModesInv
<1> QED BY <1>7, <1>8, <1>9 DEF ModesInv

\* It leaves the modes alone: it begins to wait, or has nothing in place.
Quiet(p) ==
  LET r == proc[p]
      l == Tty[p]
  IN
  /\ InPlace(p)' => r.pc = "talk" /\ proc'[p].pc = "shell" /\ proc'[p].mywrt.rec = r.mywrt.rec
                    /\ proc'[p].myperm = r.myperm
  /\ InPlace(p)' <=> InPlace(p)
  /\ Fresh(p)'
  /\ perm'[l] = perm[l] /\ (EntryOf(l).rec)' = EntryOf(l).rec /\ want'[l] = want[l]

LEMMA QuietModes ==
  ASSUME IInv, UInv, NEW p \in Proc, p \in Live(Tty[p]), LineInv(Tty[p]), ModesInv(Tty[p]),
         Goes(p), Quiet(p)
  PROVE  ModesInv(Tty[p])'
<1> DEFINE l == Tty[p]
<1>1. /\ \A q \in Proc \ {p} : proc'[q] = proc[q]
      /\ On(l)' = (IF InPlace(p)' THEN On(l) \cup {p} ELSE On(l) \ {p}) /\ l \in Line
  BY Rest, AliveType DEF Quiet, Goes, Moves
<1>2. On(l)' = On(l) /\ (p \in On(l) <=> InPlace(p))
  BY <1>1 DEF Quiet, On
<1>3. ASSUME NEW x \in On(l)
      PROVE  /\ proc'[x].above = proc[x].above /\ proc'[x].cmd = proc[x].cmd
             /\ proc'[x].mywrt.rec = proc[x].mywrt.rec /\ proc'[x].myperm = proc[x].myperm
             /\ proc[x].pc = "shell" => proc'[x].pc = "shell"
             /\ proc'[x].pc = "talk" => proc[x].pc = "talk"
  <2>1. CASE x # p
    BY <1>1, <1>3, <2>1 DEF On, Live
  <2>2. CASE x = p
    <3>1. InPlace(p)' /\ proc'[p].pc # "out"
      BY <1>2, <1>3, <2>2 DEF Quiet, InPlace
    <3>2. Moves(p)
      BY <3>1, IdleFields DEF Goes, Ends
    <3> QED BY <2>2, <3>1, <3>2 DEF Quiet, Moves
  <2> QED BY <2>1, <2>2
<1>4. PermInv(l)' /\ RecInv(l)'
  BY <1>1, <1>2, <1>3, ModesKept DEF Quiet, ModesInv
<1>5. WaitInv(l)'
  BY WaitsOn DEF Quiet, ModesInv
<1> QED BY <1>4, <1>5 DEF ModesInv

-----------------------------------------------------------------------------
(* A step of one process, and the modes.                                   *)

\* It changes the mode of its own tty, and what its user wants, in its own login;
\* a late change is noted.
PermOwn(p) ==
  /\ \A l \in Line \ {Tty[p]} : perm'[l] = perm[l] /\ want'[l] = want[l]
  /\ Late(p) => want'[Tty[p]] = want[Tty[p]]
                /\ (perm'[Tty[p]] = perm[Tty[p]] \/ Tty[p] \in upset')

ModesKind(p) ==
  \/ Moves(p) /\ KeepsSame(p) /\ (GoesOn(p) \/ Returns(p))
  \/ Goes(p) /\ (GoesOff(p) \/ MesgSets(p) \/ Quiet(p))

Enters(p) ==
  \E e \in Entry : e.line = Tty[p] /\ e.time = proc[p].mywrt.time /\ Put(p, e)

OwnModes(p) ==
  /\ PermOwn(p)
  /\ Wrote(p)' => Wrote(p) \/ Enters(p)
  /\ Runs(proc'[p])
  /\ p \in Live(Tty[p]) /\ Calm(Tty[p])' => ModesKind(p)

\* On a line where nothing happens.
LEMMA SameModes ==
  ASSUME IInv, UInv, NEW l \in Line, LineInv(l), ModesInv(l), Same(l),
         perm'[l] = perm[l], want'[l] = want[l]
  PROVE  ModesInv(l)'
<1>1. /\ Live(l)' = Live(l) /\ \A q \in Live(l) : proc'[q] = proc[q]
      /\ EntryOf(l)' = EntryOf(l)
      /\ \A q \in Live(l) : q \in Proc /\ Tty[q] = l /\ proc[q].above \subseteq Live(l)
  BY AboveLive DEF Same, Live, UInv
<1>2. On(l)' = On(l) /\ On(l) \subseteq Live(l)
  BY <1>1 DEF On, InPlace
<1>3. PermInv(l)' /\ RecInv(l)'
  BY <1>1, <1>2, ModesKept DEF ModesInv
<1>4. ASSUME NEW q \in Live(l) PROVE Kept(q)' /\ Fresh(q)'
  <2>1. Kept(q) /\ Fresh(q) /\ proc'[q] = proc[q] /\ Tty[q] = l
    BY <1>1 DEF ModesInv, WaitInv
  <2>2. \A x \in proc[q].above : proc'[x] = proc[x]
    BY <1>1
  <2>3. Kept(q)'
    <3>1. /\ Clear(proc[q].above)' = Clear(proc[q].above)
          /\ Lasting(proc[q].above)' = Lasting(proc[q].above)
      BY <2>1, <2>2 DEF Clear, Lasting
    <3> QED BY <2>1, <3>1 DEF Kept
  <2> QED BY <1>1, <2>1, <2>3 DEF Fresh
<1> QED BY <1>1, <1>3, <1>4 DEF ModesInv, WaitInv

LEMMA KindModes ==
  ASSUME IInv, UInv, NEW p \in Proc, p \in Live(Tty[p]), LineInv(Tty[p]), ModesInv(Tty[p]),
         ModesKind(p)
  PROVE  ModesInv(Tty[p])'
<1>1. CASE Moves(p) /\ KeepsSame(p) /\ GoesOn(p)
  BY <1>1, GoesOnModes
<1>2. CASE Moves(p) /\ KeepsSame(p) /\ Returns(p)
  BY <1>2, ReturnsModes
<1>3. CASE Goes(p) /\ GoesOff(p)
  BY <1>3, GoesOffModes
<1>4. CASE Goes(p) /\ MesgSets(p)
  BY <1>4, MesgSetsModes
<1>5. CASE Goes(p) /\ Quiet(p)
  BY <1>5, QuietModes
<1> QED BY <1>1, <1>2, <1>3, <1>4, <1>5 DEF ModesKind

\* What is in the slots of a login is of this login.
LEMMA OwnCurrent ==
  ASSUME IInv, IInv', ModesInvs, NEW p \in Proc, Own(p), Keeps, OwnModes(p),
         NEW l \in Line, Calm(l)', NEW q \in Live(l)'
  PROVE  Current(q)'
<1>1. Calm(l) /\ UNCHANGED time /\ ~ raced /\ SlotInv
  BY DEF Own, Calm, IInv
<1>2. q \in Proc /\ Tty[q] = l /\ Alive(q)'
  BY DEF Live, Alive
<1>3. proc'[q].mywrt.time = proc[q].mywrt.time /\ Alive(q) /\ (q # p => proc'[q].pc = proc[q].pc)
  <2>1. CASE Moves(p)
    BY <1>2, <2>1 DEF Moves, SameEntry, Alive
  <2>2. CASE Ends({p})
    <3>1. q # p
      BY <1>2, <2>2, IdleFields DEF Ends, Alive
    <3> QED BY <1>2, <2>2, <3>1, EndsCarries DEF Carries, SameEntry, Alive
  <2> QED BY <2>1, <2>2 DEF Own
<1>4. q \in Live(l) /\ Current(q)
  BY <1>1, <1>2, <1>3 DEF Live, Alive, ModesInvs
<1> SUFFICES ASSUME Wrote(q)' PROVE file'[proc'[q].mypos].time = time'[l]
  BY <1>2 DEF Current
<1>5. proc'[q].mypos = proc[q].mypos
  BY <1>2 DEF Keeps, Alive
<1>6. ASSUME Late(p) => Tty[p] \in upset',
             NEW e \in Entry, e.line = Tty[p], e.time = proc[p].mywrt.time, Put(p, e)
      PROVE  file'[proc'[q].mypos].time = time'[l]
  <2>1. /\ \A i \in 1 .. Len(file') : file'[i] = IF i = proc[p].mypos THEN e ELSE file[i]
        /\ proc[q].mypos \in 1 .. Len(file')
    <3>1. \A i \in 1 .. Len(file') : file'[i] = IF i = proc[p].mypos THEN e ELSE file[i]
      BY <1>6, PutWrites DEF IInv, Own
    <3>2. proc'[q].mypos \in 1 .. Len(file')
      BY <1>2 DEF IInv, PosInv, WrtTypeOK, Alive
    <3> QED BY <1>5, <3>1, <3>2
  <2>2. CASE proc[q].mypos = proc[p].mypos
    <3>1. Tty[p] = l
      BY <1>1, <1>2, <1>3, <2>2 DEF SlotInv, Own
    <3>2. ~ Late(p)
      BY <1>6, <3>1 DEF Calm
    <3> QED BY <1>1, <1>5, <1>6, <2>1, <2>2, <3>1, <3>2 DEF Late
  <2>3. CASE proc[q].mypos # proc[p].mypos
    <3>1. Wrote(q)
      BY <1>3, <2>3 DEF Wrote
    <3> QED BY <1>1, <1>2, <1>4, <1>5, <2>1, <2>3, <3>1 DEF Current
  <2> QED BY <2>2, <2>3
<1>7. CASE Wrote(q) /\ UNCHANGED file
  BY <1>1, <1>2, <1>4, <1>5, <1>7 DEF Current
<1>8. q = p => Wrote(p) \/ (~ Late(p) /\ Enters(p))
  BY <1>2, <1>4 DEF OwnModes, Live, Late
<1>9. q # p => Wrote(q)
  BY <1>3 DEF Wrote
<1> QED BY <1>6, <1>7, <1>8, <1>9 DEF Own, Enters

LEMMA OwnModesStep ==
  ASSUME IInv, IInv', UInv, LinesInv, ModesInvs, NEW p \in Proc, Own(p), Keeps, OwnModes(p)
  PROVE  ModesInvs'
<1>5. ProgInv'
  <2>1. \A q \in Proc : q # p => proc'[q].pc = proc[q].pc /\ proc'[q].cmd = proc[q].cmd
    <3>1. CASE Moves(p)
      BY <3>1 DEF Moves
    <3>2. CASE Ends({p})
      BY <3>2, EndsCarries DEF Carries
    <3> QED BY <3>1, <3>2 DEF Own
  <2> QED BY <2>1 DEF ModesInvs, ProgInv, Runs, OwnModes
<1> SUFFICES ASSUME NEW l \in Line, Calm(l)' PROVE ModesInv(l)' /\ \A q \in Live(l)' : Current(q)'
  BY <1>5 DEF ModesInvs
<1>1. \A q \in Live(l)' : Current(q)'
  BY OwnCurrent
<1>2. Calm(l) /\ LineInv(l) /\ ModesInv(l)
  BY DEF Own, Calm, LinesInv, ModesInvs
<1>3. CASE p \in Live(l)
  <2>1. l = Tty[p]
    BY <1>3 DEF Live
  <2>2. ModesKind(p)
    BY <1>3, <2>1 DEF OwnModes
  <2> QED BY <1>1, <1>2, <1>3, <2>1, <2>2, KindModes
<1>4. CASE p \notin Live(l)
  <2>1. Same(l)
    BY <1>4, OwnSame
  <2>2. perm'[l] = perm[l] /\ want'[l] = want[l]
    BY <1>4 DEF OwnModes, PermOwn, Own, Live, Late, Alive, Calm
  <2> QED BY <1>1, <1>2, <2>1, <2>2, SameModes
<1> QED BY <1>3, <1>4

-----------------------------------------------------------------------------
(* The actions of a process, and the modes: set_modes() and fix_modes().   *)

\* What is known of it when its login is the present one, and stays without accident.
LEMMA Before ==
  ASSUME IInv, LinesInv, ModesInvs, NEW p \in Proc, Own(p), p \in Live(Tty[p]), Calm(Tty[p])'
  PROVE  /\ LineInv(Tty[p]) /\ Kept(p) /\ Fresh(p) /\ Runs(proc[p]) /\ ~ Late(p) /\ Tty[p] \in Line
         /\ Wrote(p) => EntryOf(Tty[p]) = file[proc[p].mypos]
         /\ proc[p].pc # "stopped" => \A o \in proc[p].above : InPlace(o)
<1>1. Tty[p] \in Line /\ Calm(Tty[p]) /\ ~ raced
  BY AliveType DEF Own, Calm
<1>2. LineInv(Tty[p]) /\ ModesInv(Tty[p]) /\ Current(p)
  BY <1>1 DEF LinesInv, ModesInvs
<1>3. Kept(p) /\ Fresh(p) /\ Opened(p)
  BY <1>2 DEF ModesInv, WaitInv, LineInv
<1>4. Runs(proc[p])
  BY DEF ModesInvs, ProgInv
<1> QED BY <1>1, <1>2, <1>3, <1>4, OwnFile DEF Live, Late, Opened

LEMMA ChmodOwn ==
  ASSUME IInv, NEW p \in Proc, NEW v, Chmod(p, v)
  PROVE  /\ \A l \in Line \ {Tty[p]} : perm'[l] = perm[l]
         /\ ~ Late(p) => perm'[Tty[p]] = v
  BY AliveType DEF Chmod, IInv, WrtTypeOK

LEMMA SetPermsOwn ==
  ASSUME IInv, NEW p \in Proc, SetPerms(p)
  PROVE  /\ \A l \in Line \ {Tty[p]} : perm'[l] = perm[l]
         /\ ~ Late(p) => perm'[Tty[p]] = TempPerm(p, perm[Tty[p]])
<1>1. CASE proc[p].cmd.tmp = "s"
  BY <1>1 DEF SetPerms, TempPerm
<1>2. CASE proc[p].cmd.tmp # "s"
  <2> DEFINE v == proc[p].cmd.tmp = "y"
  <2>1. Chmod(p, v) /\ TempPerm(p, perm[Tty[p]]) = v
    BY <1>2 DEF SetPerms, TempPerm
  <2> HIDE DEF v
  <2> QED BY <2>1, ChmodOwn
<1> QED BY <1>1, <1>2

LEMMA TempRec ==
  ASSUME IInv, NEW p \in Proc, Alive(p)
  PROVE  Temp(p).rec = IF proc[p].cmd.post THEN "a" ELSE proc[p].mywrt.rec
<1> DEFINE e == [proc[p].mywrt EXCEPT !.rec = IF proc[p].cmd.post THEN "a" ELSE @]
<1>1. proc[p].mywrt \in Entry
  BY AliveType
<1>2. e \in Entry /\ e.rec = IF proc[p].cmd.post THEN "a" ELSE proc[p].mywrt.rec
  BY <1>1 DEF Entry, Record
<1>3. /\ [e EXCEPT !.what = Command].rec = e.rec
      /\ [e EXCEPT !.what = proc[p].him, !.pid = p].rec = e.rec
  BY <1>2 DEF Entry
<1>4. Temp(p) = IF proc[p].cmd.prog = "amin" THEN [e EXCEPT !.what = Command]
                                             ELSE [e EXCEPT !.what = proc[p].him, !.pid = p]
  BY DEF Temp
<1> HIDE DEF e
<1> QED BY <1>2, <1>3, <1>4

LEMMA SetModesModes ==
  ASSUME IInv, IInv', UInv, LinesInv, ModesInvs, NEW p \in Proc, SetModes(p)
  PROVE  OwnModes(p)
<1> DEFINE r == proc[p]
           l == Tty[p]
<1>1. /\ Alive(p) /\ r \in Process /\ r.cmd.prog = "write" /\ r.pc \in {"ask", "wake"}
      /\ r.him \in User \cup {NoUser} /\ r.was \in {"talk", "shell"}
      /\ Mark(p, FALSE) /\ want' = want
      /\ SetPerms(p)
  BY PlaceOf DEF SetModes, Alive, Process
<1>2. PICK him \in IF r.pc = "wake" THEN {r.him} ELSE {owner[k] : k \in Line} \ {NoUser} :
        /\ Becomes(p, [r EXCEPT !.him = him, !.fixed = TRUE,
                                !.pc = IF @ = "wake" THEN r.was ELSE "talk", !.was = "talk"])
        /\ Put(p, [Temp(p) EXCEPT !.what = him])
  BY DEF SetModes
<1> DEFINE n == [r EXCEPT !.him = him, !.fixed = TRUE,
                          !.pc = IF @ = "wake" THEN r.was ELSE "talk", !.was = "talk"]
           e == [Temp(p) EXCEPT !.what = him]
<1>3. /\ n.mywrt = r.mywrt /\ n.mypos = r.mypos /\ n.myperm = r.myperm /\ n.keep = r.keep
      /\ n.pc = IF r.pc = "wake" THEN r.was ELSE "talk"
  BY <1>1 DEF Process
<1>4. him \in User \cup {NoUser}
  BY <1>1, <1>2 DEF IInv, WrtTypeOK
<1>5. e \in Entry /\ e.line = l /\ e.time = r.mywrt.time /\ e.rec = Temp(p).rec
  BY <1>1, <1>4, TempShows DEF Entry
<1>6. Becomes(p, n) /\ Put(p, e)
  BY <1>2
<1> HIDE DEF n, e
<1>7. Own(p) /\ OwnMoves(p) /\ Moves(p) /\ proc'[p] = n
  BY <1>6, SetModesOwn DEF OwnMoves, Becomes, IInv, WrtTypeOK
<1>8. PermOwn(p)
  BY <1>1, SetPermsOwn, MarkGrows DEF PermOwn
<1>9. Enters(p)
  BY <1>5, <1>6 DEF Enters
<1>10. ASSUME p \in Live(l), Calm(l)' PROVE GoesOn(p)
  <2>1. /\ LineInv(l) /\ Fresh(p) /\ ~ Late(p)
        /\ \A o \in r.above : InPlace(o)
    BY <1>1, <1>7, <1>10, Before
  <2>2. (EntryOf(l).rec)' = IF r.cmd.post THEN "a" ELSE r.mywrt.rec
    <3>1. EntryOf(l)' = e
      BY <1>5, <1>6, <1>7, <1>10, OwnEntry
    <3> QED BY <1>1, <1>5, <3>1, TempRec
  <2>3. r.mywrt.rec = EntryOf(l).rec /\ r.myperm = perm[l]
    BY <1>1, <2>1 DEF Fresh
  <2>4. perm'[l] = TempPerm(p, perm[l])
    BY <1>1, <2>1, SetPermsOwn
  <2>5. Alone(p) /\ ~ InPlace(p) /\ InPlace(p)'
    BY <1>1, <1>3, <1>7, <2>1 DEF Alone, InPlace, Stopped
  <2> QED BY <1>1, <1>3, <1>7, <2>2, <2>3, <2>4, <2>5 DEF GoesOn
<1>11. Runs(proc'[p])
  BY <1>1, <1>7 DEF Runs, Moves
<1> QED BY <1>3, <1>7, <1>8, <1>9, <1>10, <1>11 DEF OwnModes, ModesKind, KeepsSame

LEMMA AminModes ==
  ASSUME IInv, IInv', UInv, LinesInv, ModesInvs, NEW p \in Proc, Amin(p) \/ AminWakes(p)
  PROVE  OwnModes(p)
<1> DEFINE r == proc[p]
           l == Tty[p]
<1>1. /\ Alive(p) /\ r \in Process /\ r.cmd.prog = "amin" /\ want' = want /\ Put(p, Temp(p))
      /\ SetPerms(p)
      /\ Own(p) /\ OwnMoves(p) /\ Moves(p)
      /\ (r.pc = "ask" /\ Amin(p)) \/ (r.pc = "stopped" /\ r.sig = "cont" /\ AminWakes(p))
  BY PlaceOf, AminOwn, AminWakesOwn DEF Amin, AminWakes, Wakes, OwnMoves, Alive
<1>2. /\ proc'[p].pc = "shell" /\ proc'[p].mywrt = r.mywrt /\ proc'[p].keep = r.keep
      /\ r.cmd.tmp # "s" => proc'[p].myperm = IF r.pc = "ask" THEN r.myperm ELSE perm[l]
  <2>1. CASE Amin(p)
    BY <1>1, <2>1 DEF Amin, Becomes, Process, IInv, WrtTypeOK
  <2>2. CASE AminWakes(p)
    <3> DEFINE n == [r EXCEPT !.sig = "none", !.pc = "shell", !.was = "talk",
                              !.myperm = IF r.cmd.tmp = "s" THEN @ ELSE perm[l]]
    <3>1. proc'[p] = n
      BY <2>2 DEF AminWakes, Becomes, IInv, WrtTypeOK
    <3>2. /\ n.pc = "shell" /\ n.mywrt = r.mywrt /\ n.keep = r.keep
          /\ r.cmd.tmp # "s" => n.myperm = perm[l]
      BY <1>1 DEF Process
    <3> QED BY <1>1, <2>2, <3>1, <3>2 DEF AminWakes, Wakes
  <2> QED BY <1>1, <2>1, <2>2
<1>3. PermOwn(p)
  <2>1. Mark(p, FALSE) \/ Mark(p, \/ \E e \in r.above : ~ InPlace(e)
                                  \/ file[r.mypos].rec # r.mywrt.rec)
    BY DEF Amin, AminWakes
  <2>2. Late(p) => l \in upset'
    BY <2>1, MarkGrows
  <2> QED BY <1>1, <2>2, SetPermsOwn DEF PermOwn
<1>4. Enters(p)
  BY <1>1, TempShows DEF Enters
<1>5. ASSUME p \in Live(l), Calm(l)' PROVE GoesOn(p)
  <2>1. /\ LineInv(l) /\ Fresh(p) /\ ~ Late(p)
        /\ Wrote(p) => EntryOf(l) = file[r.mypos]
        /\ r.pc # "stopped" => \A o \in r.above : InPlace(o)
    BY <1>1, <1>5, Before
  <2>2. (EntryOf(l).rec)' = IF r.cmd.post THEN "a" ELSE r.mywrt.rec
    <3>1. EntryOf(l)' = Temp(p)
      BY <1>1, <1>5, OwnEntry, TempShows
    <3> QED BY <1>1, <3>1, TempRec
  <2>3. perm'[l] = TempPerm(p, perm[l])
    BY <1>1, <2>1, SetPermsOwn
  <2>4. /\ r.mywrt.rec = EntryOf(l).rec /\ (\A o \in r.above : InPlace(o))
        /\ r.pc = "ask" => r.myperm = perm[l]
    <3>1. CASE r.pc = "ask"
      BY <1>1, <2>1, <3>1 DEF Fresh
    <3>2. CASE r.pc = "stopped" /\ AminWakes(p)
      <4> DEFINE acc == (\E e \in r.above : ~ InPlace(e)) \/ file[r.mypos].rec # r.mywrt.rec
      <4>1. Mark(p, acc)
        BY <3>2 DEF AminWakes
      <4>2. ~ acc
        <5> HIDE DEF acc
        <5> QED BY <1>5, <4>1, MarkGrows DEF Calm
      <4> QED BY <2>1, <3>2, <4>2 DEF Wrote
    <3> QED BY <1>1, <3>1, <3>2
  <2>5. Alone(p) /\ ~ InPlace(p) /\ InPlace(p)'
    BY <1>1, <1>2, <2>4 DEF Alone, InPlace, Stopped
  <2> QED BY <1>1, <1>2, <2>2, <2>3, <2>4, <2>5 DEF GoesOn
<1>6. Runs(proc'[p])
  BY <1>1, <1>2 DEF Runs, Moves
<1> QED BY <1>1, <1>2, <1>3, <1>4, <1>5, <1>6 DEF OwnModes, ModesKind, KeepsSame

\* reset_modes(), restore_modes().
LEMMA RestoreModes ==
  ASSUME IInv, IInv', NEW p \in Proc, Own(p), Restore(p), want' = want, Late(p) => Tty[p] \in upset'
  PROVE  /\ PermOwn(p) /\ Enters(p)
         /\ p \in Live(Tty[p]) /\ Calm(Tty[p])' =>
              /\ (EntryOf(Tty[p]).rec)' = proc[p].mywrt.rec
              /\ perm'[Tty[p]] = IF proc[p].cmd.prog = "amin" /\ proc[p].cmd.tmp = "s"
                                 THEN perm[Tty[p]] ELSE proc[p].myperm
<1>1. Put(p, proc[p].mywrt) /\ proc[p].mywrt \in Entry /\ proc[p].mywrt.line = Tty[p]
  BY RestorePuts DEF Own
<1>2. /\ proc[p].cmd.prog = "amin" /\ proc[p].cmd.tmp = "s" => perm' = perm
      /\ ~ (proc[p].cmd.prog = "amin" /\ proc[p].cmd.tmp = "s") => Chmod(p, proc[p].myperm)
  BY DEF Restore, PutBack
<1>3. PermOwn(p)
  BY <1>2, ChmodOwn DEF PermOwn
<1>4. Enters(p)
  BY <1>1 DEF Enters
<1>5. ASSUME p \in Live(Tty[p]), Calm(Tty[p])'
      PROVE  /\ (EntryOf(Tty[p]).rec)' = proc[p].mywrt.rec
             /\ perm'[Tty[p]] = IF proc[p].cmd.prog = "amin" /\ proc[p].cmd.tmp = "s"
                                THEN perm[Tty[p]] ELSE proc[p].myperm
  <2>1. EntryOf(Tty[p])' = proc[p].mywrt
    BY <1>1, <1>5, OwnEntry
  <2>2. ~ Late(p)
    BY <1>5 DEF Live, Late
  <2> QED BY <1>2, <2>1, <2>2, ChmodOwn
<1> QED BY <1>3, <1>4, <1>5

\* What has been set in its shell it has seen, or Unseen is an accident.
LEMMA SeenModes ==
  ASSUME IInv, NEW p \in Proc, Alive(p), ~ Unseen(p), EntryOf(Tty[p]) = file[proc[p].mypos],
         proc[p].pc = "shell", proc[p].cmd.prog = "write", proc[p].cmd.tmp = "s"
  PROVE  /\ perm[Tty[p]] = proc[p].myperm
         /\ EntryOf(Tty[p]).rec = IF proc[p].cmd.post THEN "a" ELSE proc[p].mywrt.rec
  BY TempRec DEF Unseen, TempPerm

-----------------------------------------------------------------------------
(* The end, susp(), shell escapes, and the modes.                          *)

\* A process that has ended.
LEMMA EndedModes ==
  ASSUME NEW p \in Proc, Ends({p})
  PROVE  ~ Wrote(p)' /\ Runs(proc'[p]) /\ ~ InPlace(p)' /\ proc'[p].pc = "out"
<1>1. proc'[p] = Idle
  BY DEF Ends
<1> QED BY <1>1, IdleFields DEF Wrote, Runs, InPlace

\* It takes its modes back, and has seen what has been set in its shell.
LEMMA OffModes ==
  ASSUME IInv, IInv', UInv, LinesInv, ModesInvs, NEW p \in Proc, Own(p), Restore(p), want' = want,
         Late(p) => Tty[p] \in upset',
         p \in Live(Tty[p]) /\ Calm(Tty[p])' =>
           /\ Goes(p) /\ InPlace(p) /\ ~ InPlace(p)' /\ proc'[p].pc \notin {"ask", "wake"}
           /\ ~ Unseen(p) /\ \A q \in Below(p) : proc[q].pc = "stopped"
  PROVE  /\ PermOwn(p)
         /\ p \in Live(Tty[p]) /\ Calm(Tty[p])' => ModesKind(p)
<1> DEFINE l == Tty[p]
           r == proc[p]
<1>1. PermOwn(p)
  BY RestoreModes
<1>2. ASSUME p \in Live(l), Calm(l)' PROVE Goes(p) /\ GoesOff(p)
  <2>1. /\ Goes(p) /\ InPlace(p) /\ ~ InPlace(p)' /\ proc'[p].pc \notin {"ask", "wake"}
        /\ ~ Unseen(p) /\ \A q \in Below(p) : proc[q].pc = "stopped"
    BY <1>2
  <2>2. /\ (EntryOf(l).rec)' = r.mywrt.rec
        /\ perm'[l] = IF r.cmd.prog = "amin" /\ r.cmd.tmp = "s" THEN perm[l] ELSE r.myperm
    BY <1>2, RestoreModes
  <2>3. /\ Runs(r) /\ l \in Line /\ r.pc \in {"talk", "shell"}
        /\ EntryOf(l) = file[r.mypos] /\ \A o \in r.above : InPlace(o)
    BY <1>2, <2>1, Before DEF InPlace, Wrote
  <2>4. Alone(p)
    BY <2>1, <2>3 DEF Alone, Stopped
  <2>5. r.pc = "shell" /\ r.cmd.prog = "write" /\ r.cmd.tmp = "s" =>
          perm[l] = r.myperm /\ EntryOf(l).rec = IF r.cmd.post THEN "a" ELSE r.mywrt.rec
    BY <2>1, <2>3, SeenModes DEF Own
  <2> QED BY <2>1, <2>2, <2>3, <2>4, <2>5 DEF GoesOff, Runs
<1> QED BY <1>1, <1>2 DEF ModesKind

LEMMA ExitModes ==
  ASSUME IInv, IInv', UInv, LinesInv, ModesInvs, NEW p \in Proc, AminEnds(p) \/ Exit(p)
  PROVE  OwnModes(p)
<1>1. /\ Own(p) /\ Ends({p}) /\ Restore(p) /\ want' = want /\ Mark(p, FALSE) /\ UNCHANGED time
      /\ \/ proc[p].pc = "talk"
         \/ proc[p].pc = "shell" /\ proc[p].cmd.prog = "amin" /\ Below(p) = {}
  BY ExitOwn DEF AminEnds, Exit, utmp
<1>2. Below(p) = {} /\ InPlace(p) /\ ~ Unseen(p)
  BY <1>1, NoneBelow DEF HasShell, InPlace, Unseen
<1>3. ~ Wrote(p)' /\ Runs(proc'[p]) /\ ~ InPlace(p)' /\ proc'[p].pc = "out"
  BY <1>1, EndedModes
<1>4. Goes(p)
  BY <1>1, <1>2 DEF Goes
<1> QED BY <1>1, <1>2, <1>3, <1>4, MarkGrows, OffModes DEF OwnModes

LEMMA EndModes ==
  ASSUME IInv, IInv', UInv, LinesInv, ModesInvs, NEW p \in Proc, End(p)
  PROVE  OwnModes(p)
<1> DEFINE acc == Below(p) # {} \/ Unseen(p)
<1>1. /\ Own(p) /\ Ends({p}) /\ want' = want /\ Mark(p, acc) /\ UNCHANGED time
      /\ IF proc[p].fixed THEN Restore(p) ELSE UNCHANGED <<file, perm>>
      /\ proc[p].fixed <=> proc[p].pc \in {"talk", "shell"}
  BY PlaceOf, EndOwn DEF End, utmp, Placed
<1>2. ~ Wrote(p)' /\ Runs(proc'[p]) /\ ~ InPlace(p)' /\ proc'[p].pc = "out"
  BY <1>1, EndedModes
<1>3. ASSUME p \in Live(Tty[p]), Calm(Tty[p])' PROVE Goes(p) /\ Below(p) = {} /\ ~ Unseen(p)
  <2>1. ~ acc
    <3> HIDE DEF acc
    <3> QED BY <1>1, <1>3, MarkGrows DEF Calm
  <2> QED BY <1>1, <2>1 DEF Goes
<1>4. Late(p) => Tty[p] \in upset'
  <2> HIDE DEF acc
  <2> QED BY <1>1, MarkGrows
<1>5. CASE proc[p].fixed
  <2>1. InPlace(p)
    BY <1>1, <1>5 DEF InPlace
  <2> QED BY <1>1, <1>2, <1>3, <1>4, <1>5, <2>1, OffModes DEF OwnModes
<1>6. CASE ~ proc[p].fixed
  <2>1. PermOwn(p)
    BY <1>1, <1>6 DEF PermOwn
  <2>2. ASSUME p \in Live(Tty[p]), Calm(Tty[p])' PROVE Goes(p) /\ Quiet(p)
    <3>1. EntryOf(Tty[p])' = EntryOf(Tty[p])
      BY <1>1, <1>6, <2>2, OwnEntry
    <3> QED BY <1>1, <1>2, <1>3, <1>6, <2>2, <3>1 DEF Quiet, Fresh, InPlace
  <2> QED BY <1>2, <2>1, <2>2 DEF OwnModes, ModesKind
<1> QED BY <1>5, <1>6

LEMMA SuspModes ==
  ASSUME IInv, IInv', UInv, LinesInv, ModesInvs, NEW p \in Proc, Susp(p)
  PROVE  OwnModes(p)
<1> DEFINE r == proc[p]
           n == [r EXCEPT !.sig = "none", !.pc = "stopped", !.was = r.pc, !.fixed = FALSE]
           acc == (\E q \in Below(p) : proc[q].pc # "stopped") \/ Unseen(p) \/ ~ r.fixed
<1>1. /\ Own(p) /\ OwnMoves(p) /\ Moves(p) /\ r \in Process /\ InPlace(p) /\ want' = want
      /\ IF r.fixed THEN Restore(p) ELSE UNCHANGED <<file, perm>>
      /\ Mark(p, acc) /\ proc'[p] = n
  BY PlaceOf, SuspOwn DEF Susp, OwnMoves, Becomes, IInv, WrtTypeOK
<1>2. n.pc = "stopped" /\ n.keep = r.keep
  BY <1>1 DEF Process
<1> HIDE DEF n
<1>3. Late(p) => Tty[p] \in upset'
  <2> HIDE DEF acc
  <2> QED BY <1>1, MarkGrows
<1>4. Wrote(p) /\ Runs(proc'[p]) /\ ~ InPlace(p)' /\ Goes(p)
  BY <1>1, <1>2 DEF Wrote, Runs, InPlace, Goes, KeepsSame
<1>5. ASSUME p \in Live(Tty[p]), Calm(Tty[p])'
      PROVE  r.fixed /\ ~ Unseen(p) /\ \A q \in Below(p) : proc[q].pc = "stopped"
  <2>1. ~ acc
    <3> HIDE DEF acc
    <3> QED BY <1>1, <1>5, MarkGrows DEF Calm
  <2> QED BY <2>1
<1>6. CASE r.fixed
  BY <1>1, <1>2, <1>3, <1>4, <1>5, <1>6, OffModes DEF OwnModes
<1>7. CASE ~ r.fixed
  BY <1>1, <1>4, <1>5, <1>7 DEF OwnModes, PermOwn
<1> QED BY <1>6, <1>7

LEMMA ReturnModes ==
  ASSUME IInv, IInv', UInv, LinesInv, ModesInvs, NEW p \in Proc, Return(p)
  PROVE  OwnModes(p)
<1> DEFINE r == proc[p]
           m == IF r.cmd.tmp = "s" THEN Updated(p) ELSE r
           acc == r.cmd.post /\ m.mywrt.rec = "a" /\ r.mywrt.rec # "a"
<1>1. /\ Own(p) /\ OwnMoves(p) /\ Moves(p) /\ r \in Process
      /\ UNCHANGED <<perm, want, file>>
      /\ r.pc = "shell" /\ r.cmd.prog = "write" /\ Below(p) = {}
      /\ Mark(p, acc) /\ proc'[p] = [m EXCEPT !.pc = "talk"]
  BY PlaceOf, ReturnOwn DEF Return, OwnMoves, Becomes, IInv, WrtTypeOK
<1>2. /\ m \in Process /\ m.keep = r.keep
      /\ IF r.cmd.tmp = "s" THEN m.mywrt.rec = file[r.mypos].rec /\ m.myperm = perm[Tty[p]]
                            ELSE m.mywrt.rec = r.mywrt.rec /\ m.myperm = r.myperm
  <2>1. Wrote(p) /\ r.mywrt \in Entry
    BY <1>1, AliveType DEF Wrote
  <2>2. Updated(p) \in Process
    BY <2>1, UpdatedType
  <2>3. /\ Updated(p).keep = r.keep /\ Updated(p).mywrt.rec = file[r.mypos].rec
        /\ Updated(p).myperm = perm[Tty[p]]
    BY <1>1, <2>1 DEF Updated, Process, Entry
  <2> QED BY <1>1, <2>2, <2>3
<1> HIDE DEF m
<1>3. /\ proc'[p].pc = "talk" /\ proc'[p].keep = r.keep /\ proc'[p].mywrt = m.mywrt
      /\ proc'[p].myperm = m.myperm
  BY <1>1, <1>2 DEF Process
<1>4. Wrote(p) /\ Runs(proc'[p]) /\ PermOwn(p)
  BY <1>1, <1>3 DEF Wrote, Runs, PermOwn, Moves
<1>5. ASSUME p \in Live(Tty[p]), Calm(Tty[p])' PROVE Returns(p)
  <2>1. ~ acc
    <3> HIDE DEF acc
    <3> QED BY <1>1, <1>5, MarkGrows DEF Calm
  <2>2. EntryOf(Tty[p]) = file[r.mypos] /\ \A o \in r.above : InPlace(o)
    BY <1>1, <1>4, <1>5, Before
  <2>3. EntryOf(Tty[p])' = EntryOf(Tty[p])
    BY <1>1, <1>5, OwnEntry
  <2>4. Alone(p)
    BY <1>1, <1>3, <2>2 DEF Alone, Stopped
  <2>5. r.cmd.post /\ proc'[p].mywrt.rec = "a" => r.mywrt.rec = "a"
    BY <1>3, <2>1
  <2> QED BY <1>1, <1>2, <1>3, <2>2, <2>3, <2>4, <2>5 DEF Returns
<1> QED BY <1>1, <1>3, <1>4, <1>5 DEF OwnModes, ModesKind, KeepsSame

-----------------------------------------------------------------------------
(* mesg, and the rest of them.                                             *)

\* What mesg lets last.
LEMMA MesgWant ==
  ASSUME IInv, NEW p \in Proc, Mesg(p), ~ Late(p)
  PROVE  LET r == proc[p]
             l == Tty[p]
         IN
         /\ \A k \in Line \ {l} : want'[k] = want[k]
         /\ r.cmd.perms = {} => perm'[l] = perm[l] /\ want'[l].perm = want[l].perm
         /\ r.cmd.perms # {} => want'[l].perm = IF r.keep.perm THEN perm'[l] ELSE want[l].perm
         /\ r.cmd.recs = {} => want'[l].rec = want[l].rec
         /\ \A c \in r.cmd.recs : want'[l].rec = IF r.keep.rec THEN c ELSE want[l].rec
<1> DEFINE r == proc[p]
           l == Tty[p]
           V == CHOOSE v \in BOOLEAN : Sets(r.cmd.perms, v, want[l].perm)
           C == CHOOSE c \in {"y", "n"} : Sets(r.cmd.recs, c, want[l].rec)
           vp == IF r.keep.perm THEN V ELSE want[l].perm
           vr == IF r.keep.rec THEN C ELSE want[l].rec
<1>1. /\ r.cmd \in Commands /\ l \in Line
      /\ want \in [Line -> [perm : BOOLEAN, rec : {"y", "n"}]]
      /\ want[l].perm \in BOOLEAN /\ want[l].rec \in {"y", "n"}
  <2>1. want \in [Line -> [perm : BOOLEAN, rec : {"y", "n"}]]
    BY DEF IInv, WrtTypeOK
  <2> QED BY <2>1, AliveType
<1>2. want' = [want EXCEPT ![l].perm = vp, ![l].rec = vr]
  BY DEF Mesg
<1> HIDE DEF vp, vr
<1>3. want'[l].perm = vp /\ want'[l].rec = vr /\ \A k \in Line \ {l} : want'[k] = want[k]
  BY <1>1, <1>2
<1> USE DEF vp, vr
<1>4. /\ r.cmd.perms = {} => V = want[l].perm
      /\ \A b \in BOOLEAN : r.cmd.perms = {b} => V = b
  BY <1>1 DEF Sets
<1>5. /\ r.cmd.recs = {} => C = want[l].rec
      /\ \A c \in {"y", "n"} : r.cmd.recs = {c} => C = c
  BY <1>1 DEF Sets
<1> HIDE DEF V, C
<1>6. /\ r.cmd.perms = {} => perm' = perm
      /\ r.cmd.perms # {} => perm'[l] \in r.cmd.perms
  <2>1. r.cmd.perms # {} => \E v \in r.cmd.perms : Chmod(p, v)
    BY DEF Mesg
  <2>2. r.cmd.perms # {} => perm'[l] \in r.cmd.perms
    BY <2>1, ChmodOwn
  <2> QED BY <2>2 DEF Mesg
<1>7. /\ r.cmd.perms = {} \/ \E b \in BOOLEAN : r.cmd.perms = {b}
      /\ r.cmd.recs = {} \/ \E c \in {"y", "n"} : r.cmd.recs = {c}
  BY <1>1 DEF Commands
<1>8. r.cmd.perms # {} => V = perm'[l]
  BY <1>4, <1>6, <1>7
<1>9. \A c \in r.cmd.recs : C = c
  BY <1>5, <1>7
<1> QED BY <1>3, <1>4, <1>5, <1>6, <1>8, <1>9

LEMMA MesgModes ==
  ASSUME IInv, IInv', UInv, LinesInv, ModesInvs, NEW p \in Proc, Mesg(p)
  PROVE  OwnModes(p)
<1> DEFINE r == proc[p]
           l == Tty[p]
           n == [r EXCEPT !.pc = "scan", !.slot = 1, !.him = owner[l]]
<1>1. /\ Own(p) /\ r \in Process /\ r.pc = "ask" /\ r.cmd.prog = "mesg" /\ Mark(p, FALSE)
      /\ IF r.cmd.disconnect THEN Becomes(p, n) ELSE Ends({p})
      /\ r.mywrt \in Entry /\ r.mywrt.line = l /\ r.cmd \in Commands /\ UNCHANGED time
  BY PlaceOf, AliveType, MesgOwn DEF Mesg, Alive, utmp
<1>2. n.pc = "scan" /\ n.keep = r.keep
  BY <1>1 DEF Process
<1> HIDE DEF n
<1>3. /\ Goes(p) /\ ~ InPlace(p)' /\ ~ Wrote(p)' /\ Runs(proc'[p])
      /\ proc'[p].pc \notin {"ask", "wake"}
  <2>1. CASE r.cmd.disconnect
    <3>1. proc'[p] = n
      BY <1>1, <2>1 DEF Becomes, IInv, WrtTypeOK
    <3>2. ~ Ends({p})
      BY <1>2, <3>1, IdleFields DEF Ends
    <3>3. Moves(p)
      BY <1>1, <3>2 DEF Own
    <3> QED BY <1>2, <3>1, <3>3 DEF Goes, KeepsSame, InPlace, Wrote, Runs
  <2>2. CASE ~ r.cmd.disconnect
    <3>1. Ends({p}) /\ Below(p) = {}
      BY <1>1, <2>2, NoneBelow DEF HasShell
    <3>2. ~ Wrote(p)' /\ Runs(proc'[p]) /\ ~ InPlace(p)' /\ proc'[p].pc = "out"
      BY <3>1, EndedModes
    <3> QED BY <1>1, <3>1, <3>2 DEF Goes
  <2> QED BY <2>1, <2>2
<1>4. PermOwn(p)
  <2>1. perm' = perm \/ \E v \in r.cmd.perms : Chmod(p, v)
    BY DEF Mesg
  <2>2. \A k \in Line \ {l} : perm'[k] = perm[k]
    BY <2>1, ChmodOwn
  <2>3. Late(p) => want' = want /\ l \in upset'
    BY <1>1, MarkGrows DEF Mesg
  <2> QED BY <2>2, <2>3, MesgWant DEF PermOwn
<1>5. ASSUME p \in Live(l), Calm(l)' PROVE MesgSets(p)
  <2>1. /\ Fresh(p) /\ ~ Late(p) /\ \A o \in r.above : InPlace(o)
    BY <1>1, <1>5, Before
  <2>2. r.mywrt.rec = EntryOf(l).rec
    BY <1>1, <2>1 DEF Fresh
  <2>3. /\ r.cmd.recs = {} => (EntryOf(l).rec)' = EntryOf(l).rec
        /\ r.cmd.recs # {} => (EntryOf(l).rec)' \in r.cmd.recs
    <3>1. \/ \E c \in IF r.cmd.recs = {} THEN {r.mywrt.rec} ELSE r.cmd.recs :
               Put(p, [r.mywrt EXCEPT !.rec = c])
          \/ r.cmd.recs = {} /\ UNCHANGED file
      BY DEF Mesg
    <3>2. UNCHANGED file => EntryOf(l)' = EntryOf(l)
      BY <1>1, <1>5, OwnEntry
    <3>3. ASSUME NEW c \in IF r.cmd.recs = {} THEN {r.mywrt.rec} ELSE r.cmd.recs,
                 Put(p, [r.mywrt EXCEPT !.rec = c])
          PROVE  (EntryOf(l).rec)' = c
      <4> DEFINE e == [r.mywrt EXCEPT !.rec = c]
      <4>1. c \in Record
        BY <1>1, <3>3 DEF Entry, Record, Commands
      <4>2. e \in Entry /\ e.line = r.mywrt.line /\ e.time = r.mywrt.time /\ e.rec = c
        BY <1>1, <4>1 DEF Entry
      <4>3. Put(p, e)
        BY <3>3
      <4> HIDE DEF e
      <4> QED BY <1>1, <1>5, <4>2, <4>3, OwnEntry
    <3> QED BY <2>2, <3>1, <3>2, <3>3
  <2>4. Alone(p) /\ ~ InPlace(p)
    BY <1>1, <1>3, <2>1 DEF Alone, Stopped, InPlace
  <2> QED BY <1>3, <2>1, <2>3, <2>4, MesgWant DEF MesgSets
<1> QED BY <1>3, <1>4, <1>5 DEF OwnModes, ModesKind

\* Those that end and leave the preferences and the mode alone.
LEMMA LeaveModes ==
  ASSUME IInv, IInv', UInv, LinesInv, ModesInvs, NEW p \in Proc,
         Leave(p) \/ MesgEnds(p) \/ Tel(p) \/ Kill(p)
  PROVE  OwnModes(p)
<1>1. /\ Own(p) /\ OwnEnds(p) /\ Ends({p}) /\ UNCHANGED <<perm, want, time>>
      /\ \/ UNCHANGED file
         \/ Tel(p) /\ proc[p].pc = "ask" /\ Put(p, proc[p].mywrt)
  BY LeaveOwn, TelOwn, KillOwn DEF Leave, MesgEnds, Tel, Kill, utmp
<1>2. ~ Wrote(p)' /\ Runs(proc'[p]) /\ ~ InPlace(p)' /\ proc'[p].pc = "out"
  BY <1>1, EndedModes
<1>3. PermOwn(p)
  BY <1>1 DEF PermOwn
<1>4. ASSUME p \in Live(Tty[p]), Calm(Tty[p])' PROVE Goes(p) /\ Quiet(p)
  <2>1. Below(p) = {}
    BY <1>1, <1>4 DEF OwnEnds
  <2>2. ~ InPlace(p)
    <3>1. CASE Leave(p) \/ MesgEnds(p) \/ Tel(p)
      BY <3>1 DEF Leave, MesgEnds, Tel, InPlace
    <3>2. CASE Kill(p)
      <4>1. Mark(p, InPlace(p) \/ Below(p) # {})
        BY <3>2 DEF Kill
      <4> QED BY <1>4, <4>1, MarkGrows DEF Calm
    <3> QED BY <3>1, <3>2
  <2>3. (EntryOf(Tty[p]).rec)' = EntryOf(Tty[p]).rec
    <3>1. CASE UNCHANGED file
      BY <1>1, <1>4, <3>1, OwnEntry
    <3>2. CASE proc[p].pc = "ask" /\ Put(p, proc[p].mywrt)
      <4>1. proc[p].mywrt \in Entry /\ proc[p].mywrt.line = Tty[p]
        BY <3>2, AliveType DEF Alive
      <4>2. EntryOf(Tty[p])' = proc[p].mywrt
        BY <1>1, <1>4, <3>2, <4>1, OwnEntry
      <4>3. Fresh(p)
        BY <1>1, <1>4, Before
      <4> QED BY <3>2, <4>2, <4>3 DEF Fresh
    <3> QED BY <1>1, <3>1, <3>2
  <2> QED BY <1>1, <1>2, <2>1, <2>2, <2>3 DEF Goes, Quiet, Fresh
<1> QED BY <1>2, <1>3, <1>4 DEF OwnModes, ModesKind

\* Halfway only what comes after a login counts.
LEMMA HalfwayModes ==
  ASSUME IInv, IInv', UInv, LinesInv, ModesInvs, NEW p \in Proc, Halfway(p)
  PROVE  OwnModes(p)
<1>1. /\ Own(p) /\ Ends({p}) /\ UNCHANGED <<want, time>> /\ Mark(p, TRUE)
      /\ UNCHANGED perm \/ SetPerms(p)
  BY HalfwayOwn DEF Halfway, utmp
<1>2. ~ Wrote(p)' /\ Runs(proc'[p])
  BY <1>1, EndedModes
<1>3. Tty[p] \in upset'
  BY <1>1, MarkGrows
<1>4. PermOwn(p)
  BY <1>1, <1>3, SetPermsOwn DEF PermOwn
<1> QED BY <1>2, <1>3, <1>4 DEF OwnModes, Calm

LEMMA EscapeModes ==
  ASSUME IInv, IInv', UInv, LinesInv, ModesInvs, NEW p \in Proc, Escape(p)
  PROVE  OwnModes(p)
<1> DEFINE n == [proc[p] EXCEPT !.pc = "shell"]
<1>1. /\ Own(p) /\ Moves(p) /\ proc[p] \in Process /\ UNCHANGED <<perm, want, file>>
      /\ proc[p].pc = "talk" /\ proc[p].cmd.prog = "write" /\ proc'[p] = n
  BY PlaceOf, EscapeOwn DEF Escape, OwnMoves, Becomes, IInv, WrtTypeOK
<1>2. n.pc = "shell" /\ n.keep = proc[p].keep /\ n.mywrt = proc[p].mywrt
      /\ n.myperm = proc[p].myperm
  BY <1>1 DEF Process
<1> HIDE DEF n
<1>3. Wrote(p) /\ Runs(proc'[p]) /\ PermOwn(p) /\ Goes(p)
  BY <1>1, <1>2 DEF Wrote, Runs, PermOwn, Goes, KeepsSame, Moves
<1>4. ASSUME p \in Live(Tty[p]), Calm(Tty[p])' PROVE Quiet(p)
  <2>1. EntryOf(Tty[p])' = EntryOf(Tty[p])
    BY <1>1, <1>4, OwnEntry
  <2> QED BY <1>1, <1>2, <2>1 DEF Quiet, Fresh, InPlace
<1> QED BY <1>3, <1>4 DEF OwnModes, ModesKind

LEMMA WriteWakesModes ==
  ASSUME IInv, IInv', UInv, LinesInv, ModesInvs, NEW p \in Proc, WriteWakes(p)
  PROVE  OwnModes(p)
<1> DEFINE r == proc[p]
           n == [Updated(p) EXCEPT !.pc = "wake", !.sig = "none"]
<1>1. /\ Own(p) /\ Moves(p) /\ r \in Process /\ UNCHANGED <<perm, want, file, time>>
      /\ r.pc = "stopped" /\ r.cmd.prog = "write" /\ proc'[p] = n /\ Wrote(p)
  BY PlaceOf, WriteWakesOwn
     DEF WriteWakes, Wakes, OwnMoves, Becomes, IInv, WrtTypeOK, Wrote, utmp
<1>2. /\ n.pc = "wake" /\ n.keep = r.keep /\ n.mywrt.rec = file[r.mypos].rec
      /\ n.myperm = perm[Tty[p]]
  <2>1. Updated(p) \in Process /\ r.mywrt \in Entry
    BY <1>1, UpdatedType, AliveType
  <2>2. /\ Updated(p).keep = r.keep /\ Updated(p).mywrt.rec = file[r.mypos].rec
        /\ Updated(p).myperm = perm[Tty[p]]
    BY <1>1, <2>1 DEF Updated, Process, Entry
  <2> HIDE DEF Updated
  <2> QED BY <2>1, <2>2 DEF Process
<1> HIDE DEF n
<1>3. Runs(proc'[p]) /\ PermOwn(p) /\ Goes(p)
  BY <1>1, <1>2 DEF Runs, PermOwn, Goes, KeepsSame, Moves
<1>4. ASSUME p \in Live(Tty[p]), Calm(Tty[p])' PROVE Quiet(p)
  <2>1. EntryOf(Tty[p])' = EntryOf(Tty[p]) /\ EntryOf(Tty[p]) = file[r.mypos]
    BY <1>1, <1>4, OwnEntry, Before
  <2> QED BY <1>1, <1>2, <2>1 DEF Quiet, Fresh, InPlace
<1> QED BY <1>1, <1>3, <1>4 DEF OwnModes, ModesKind

-----------------------------------------------------------------------------
(* Signals, programs that start, and logins.                               *)

LEMMA SignalsModes ==
  ASSUME IInv, UInv, LinesInv, ModesInvs, Signals, UNCHANGED <<perm, want>>
  PROVE  ModesInvs'
<1>1. /\ \A l \in Line : Live(l)' = Live(l) /\ EntryOf(l)' = EntryOf(l) /\ On(l)' = On(l)
      /\ \A q \in Proc : /\ proc'[q].pc = proc[q].pc /\ proc'[q].above = proc[q].above
                         /\ proc'[q].cmd = proc[q].cmd /\ proc'[q].mywrt = proc[q].mywrt
                         /\ proc'[q].keep = proc[q].keep /\ proc'[q].mypos = proc[q].mypos
                         /\ proc'[q].myperm = proc[q].myperm
      /\ UNCHANGED <<owner, time, file, upset, raced>>
  BY SignalsLive DEF Signals
<1>2. ProgInv'
  BY <1>1 DEF ModesInvs, ProgInv, Runs
<1>3. ASSUME NEW l \in Line, Calm(l)' PROVE ModesInv(l)' /\ \A q \in Live(l)' : Current(q)'
  <2>1. LineInv(l) /\ ModesInv(l) /\ \A q \in Live(l) : Current(q)
    BY <1>1, <1>3 DEF LinesInv, ModesInvs, Calm
  <2>2. \A x \in On(l) : x \in Proc
    BY DEF On, Live
  <2>3. PermInv(l)' /\ RecInv(l)'
    BY <1>1, <2>1, <2>2, ModesKept DEF ModesInv
  <2>4. ASSUME NEW q \in Live(l) PROVE Kept(q)' /\ Fresh(q)' /\ Current(q)'
    <3>1. /\ q \in Proc /\ Kept(q) /\ Fresh(q) /\ Current(q) /\ Tty[q] \in Line
          /\ proc[q].above \in SUBSET Proc
      BY <2>1, AliveType DEF ModesInv, WaitInv, Live, Process
    <3>2. Kept(q)'
      <4>1. Clear(proc[q].above)' = Clear(proc[q].above)
            /\ Lasting(proc[q].above)' = Lasting(proc[q].above)
        BY <1>1, <3>1 DEF Clear, Lasting
      <4> QED BY <1>1, <3>1, <4>1 DEF Kept
    <3>3. Fresh(q)'
      BY <1>1, <3>1 DEF Fresh
    <3>4. Current(q)'
      BY <1>1, <3>1 DEF Current, Wrote
    <3> QED BY <3>2, <3>3, <3>4
  <2> QED BY <1>1, <2>3, <2>4 DEF ModesInv, WaitInv
<1> QED BY <1>2, <1>3 DEF ModesInvs

LEMMA SendsModes ==
  ASSUME IInv, UInv, LinesInv, ModesInvs, NEW p \in Proc, Disconnect(p) \/ Stop(p) \/ Fg(p)
  PROVE  ModesInvs'
<1>1. UNCHANGED <<perm, want>>
  BY DEF Disconnect, Stop, Fg
<1>2. CASE Disconnect(p)
  BY <1>1, <1>2, DisconnectSends, SignalsModes
<1>3. CASE Stop(p)
  <2>1. UNCHANGED <<owner, time, file, upset, raced>>
    BY <1>3 DEF Stop, utmp
  <2>2. PICK S \in {{p}, {p} \cup proc[p].above} :
          proc' = [q \in Proc |-> IF q \in S THEN [proc[q] EXCEPT !.sig = "stop"] ELSE proc[q]]
    BY <1>3 DEF Stop
  <2>3. S \in SUBSET Proc
    BY <2>2, AliveType DEF Process
  <2>4. Signals
    BY <2>1, <2>2, <2>3, SignalSent
  <2> QED BY <1>1, <2>4, SignalsModes
<1>4. CASE Fg(p)
  <2>1. UNCHANGED <<owner, time, file, upset, raced>>
    BY <1>4 DEF Fg, utmp
  <2>2. PICK S \in SUBSET Proc : S = {q \in Proc : q = p \/ (q \in Below(p) /\ proc[q].sig = "none")}
    OBVIOUS
  <2>3. proc' = [q \in Proc |-> IF q \in S THEN [proc[q] EXCEPT !.sig = "cont"] ELSE proc[q]]
    BY <1>4, <2>2 DEF Fg
  <2>4. Signals
    BY <2>1, <2>3, SignalSent
  <2> QED BY <1>1, <2>4, SignalsModes
<1> QED BY <1>2, <1>3, <1>4

\* What is in the slots of a line where nothing happens.
LEMMA SameCurrent ==
  ASSUME NEW l \in Line, Same(l), UNCHANGED file, time'[l] = time[l],
         \A q \in Live(l) : Current(q)
  PROVE  \A q \in Live(l)' : Current(q)'
<1> SUFFICES ASSUME NEW q \in Live(l) PROVE Current(q)'
  BY DEF Same
<1> QED BY DEF Same, Current, Live, Wrote

\* What a program finds that starts.
LEMMA StartModes ==
  ASSUME IInv, IInv', UInv, LinesInv, ModesInvs, NEW p \in Proc, Start(p)
  PROVE  ModesInvs'
<1> DEFINE l == Tty[p]
           S == proc'[p].above
<1>1. /\ ~ Alive(p) /\ (\A q \in Proc \ {p} : proc'[q] = proc[q])
      /\ proc'[p].pc = "ask" /\ S \in Prompts(l)
      /\ proc'[p].mywrt = EntryOf(l) /\ EntryOf(l).time = time[l]
      /\ proc'[p].cmd.prog \in {"write", "amin"} => proc'[p].myperm = perm[l]
      /\ proc'[p].keep.perm = (\A e \in S : proc[e].cmd.tmp = "s")
      /\ proc'[p].keep.rec = (\A e \in S : proc[e].cmd.tmp = "s" /\ proc[e].cmd.prog = "write")
      /\ UNCHANGED <<owner, time, perm, file, want, upset>> /\ l \in Line
      /\ EntryOf(l)' = EntryOf(l)
  BY StartMakes, EntryKept, AliveType DEF Start, utmp
<1>2. ProgInv'
  BY <1>1 DEF ModesInvs, ProgInv, Runs
<1>3. ASSUME NEW k \in Line, Calm(k)', k # l
      PROVE  ModesInv(k)' /\ \A q \in Live(k)' : Current(q)'
  <2>1. Calm(k) /\ Same(k)
    BY <1>3, StartSame
  <2> QED BY <1>1, <2>1, SameModes, SameCurrent DEF LinesInv, ModesInvs
<1>4. ASSUME Calm(l)' PROVE ModesInv(l)' /\ \A q \in Live(l)' : Current(q)'
  <2>1. LineInv(l) /\ ModesInv(l) /\ \A q \in Live(l) : Current(q)
    <3>1. Calm(l)
      BY <1>1, <1>4, StartSame
    <3> QED BY <1>1, <3>1 DEF LinesInv, ModesInvs
  <2>2. Live(l)' = Live(l) \cup {p} /\ p \notin Live(l) /\ Live(l) \subseteq Proc \ {p}
    BY <1>1 DEF Live, Alive
  <2>3. On(l)' = On(l) /\ On(l) \subseteq Live(l)
    BY <1>1, <2>2 DEF On, InPlace
  <2>4. S = On(l)
    BY <1>1, <2>1, PromptOn
  <2>5. PermInv(l)' /\ RecInv(l)'
    BY <1>1, <2>1, <2>2, <2>3, ModesKept DEF ModesInv
  <2>6. ASSUME NEW q \in Live(l) PROVE Kept(q)' /\ Fresh(q)' /\ Current(q)'
    <3>1. /\ Kept(q) /\ Fresh(q) /\ Current(q) /\ proc'[q] = proc[q] /\ Tty[q] = l
          /\ proc[q].above \subseteq Live(l)
      BY <1>1, <2>1, <2>2, AboveLive DEF ModesInv, WaitInv, UInv, Live
    <3>2. \A x \in proc[q].above : proc'[x] = proc[x]
      BY <1>1, <2>2, <3>1
    <3>3. Kept(q)'
      BY <3>1, <3>2 DEF Kept, Clear, Lasting
    <3> QED BY <1>1, <3>1, <3>3 DEF Fresh, Current, Wrote
  <2>7. Kept(p)' /\ Fresh(p)' /\ Current(p)'
    <3>1. \A x \in S : proc'[x] = proc[x]
      BY <1>1, <2>2, <2>3, <2>4
    <3>2. (\A e \in S : proc[e].cmd.tmp = "s") = Clear(proc[p].above)'
      BY <3>1 DEF Clear
    <3>3. (\A e \in S : proc[e].cmd.tmp = "s" /\ proc[e].cmd.prog = "write") = Lasting(proc[p].above)'
      BY <3>1 DEF Lasting
    <3>4. Kept(p)'
      BY <1>1, <3>2, <3>3 DEF Kept
    <3> QED BY <1>1, <3>4 DEF Fresh, Current, Wrote
  <2> QED BY <2>2, <2>5, <2>6, <2>7 DEF ModesInv, WaitInv
<1>5. \A k \in Line : Calm(k)' => ModesInv(k)' /\ \A q \in Live(k)' : Current(q)'
  BY <1>3, <1>4
<1> QED BY <1>2, <1>5 DEF ModesInvs

LEMMA LogoutModes ==
  ASSUME IInv, IInv', UInv, LinesInv, ModesInvs, NEW l \in Line, Logout(l)
  PROVE  ModesInvs'
<1> DEFINE D == {p \in Live(l) : proc[p].pc \in {"ask", "scan"}}
<1>1. /\ Carries(D) /\ \A p \in Proc \ D : proc'[p].pc = proc[p].pc
      /\ UNCHANGED <<time, perm, file, want>>
  BY LogoutMakes DEF Logout
<1>2. ProgInv'
  <2>1. Runs(Idle)
    BY IdleFields DEF Runs
  <2> HIDE DEF D
  <2> QED BY <1>1, <2>1 DEF ModesInvs, ProgInv, Runs, Carries
<1>3. ASSUME NEW k \in Line, Calm(k)'
      PROVE  ModesInv(k)' /\ \A q \in Live(k)' : Current(q)'
  <2>1. Calm(k) /\ Same(k)
    BY <1>3, LogoutSame
  <2> QED BY <1>1, <2>1, SameModes, SameCurrent DEF LinesInv, ModesInvs
<1> QED BY <1>2, <1>3 DEF ModesInvs

\* login makes the tty writable, and the default entry has the preference "n".
LEMMA LoginModes ==
  ASSUME IInv, IInv', UInv, LinesInv, ModesInvs, NEW l \in Line, Login(l)
  PROVE  ModesInvs'
<1>1. /\ UNCHANGED <<file, proc>> /\ perm'[l] = TRUE /\ want'[l] = [perm |-> TRUE, rec |-> "n"]
      /\ \A k \in Line \ {l} : time'[k] = time[k] /\ perm'[k] = perm[k] /\ want'[k] = want[k]
  BY DEF Login, IInv, WrtTypeOK
<1>2. ProgInv'
  BY <1>1 DEF ModesInvs, ProgInv, Runs
<1>3. ASSUME NEW k \in Line, Calm(k)', k # l
      PROVE  ModesInv(k)' /\ \A q \in Live(k)' : Current(q)'
  <2>1. Calm(k) /\ Same(k)
    BY <1>3, LoginSame
  <2> QED BY <1>1, <1>3, <2>1, SameModes, SameCurrent DEF LinesInv, ModesInvs
<1>4. ModesInv(l)' /\ \A q \in Live(l)' : Current(q)'
  <2>1. Live(l)' = {} /\ On(l)' = {} /\ EntryOf(l)' = Default(l, time'[l])
    BY LoginNew DEF On
  <2>2. (EntryOf(l).rec)' = want'[l].rec /\ perm'[l] = want'[l].perm
    <3>1. (EntryOf(l).rec)' = want'[l].rec
      BY <1>1, <2>1 DEF Default
    <3>2. want'[l].perm = TRUE /\ perm'[l] = TRUE
      BY <1>1
    <3> QED BY <3>1, <3>2
  <2>3. PermInv(l)'
    BY <2>1, <2>2 DEF PermInv
  <2>4. Behind(l, {})'
    BY <2>1, <2>2 DEF Behind, Right
  <2> QED BY <2>1, <2>3, <2>4 DEF ModesInv, WaitInv, RecInv
<1>5. \A k \in Line : Calm(k)' => ModesInv(k)' /\ \A q \in Live(k)' : Current(q)'
  BY <1>3, <1>4
<1> QED BY <1>2, <1>5 DEF ModesInvs

-----------------------------------------------------------------------------
(* The modes are put back.                                                 *)

AllInv == ShownInv /\ (raced \/ ModesInvs)

LEMMA AllInit == Init => AllInv
<1> SUFFICES ASSUME Init PROVE ModesInvs
  BY ShownInit DEF AllInv
<1>1. (\A p \in Proc : proc[p].pc = "out") /\ \A l \in Line : owner[l] = NoUser
  BY IdleFields DEF Init
<1> QED BY <1>1 DEF ModesInvs, ProgInv, Runs, Calm

LEMMA StepModes ==
  ASSUME IInv, IInv', UInv, LinesInv, ModesInvs, Step
  PROVE  ModesInvs'
<1>1. ASSUME NEW p \in Proc, Own(p), Keeps, OwnModes(p) PROVE ModesInvs'
  BY <1>1, OwnModesStep
<1>2. ASSUME NEW p \in Proc,
             Leave(p) \/ SetModes(p) \/ Tel(p) \/ Amin(p) \/ Mesg(p) \/ MesgEnds(p)
      PROVE  ModesInvs'
  <2>1. Own(p)
    BY <1>2, LeaveOwn, SetModesOwn, TelOwn, AminOwn, MesgOwn
  <2>2. Keeps
    BY <1>2, LeaveStep, SetModesStep, TelStep, AminStep, MesgStep, MesgEndsStep DEF StepFacts
  <2>3. OwnModes(p)
    BY <1>2, LeaveModes, SetModesModes, AminModes, MesgModes
  <2> QED BY <1>1, <2>1, <2>2, <2>3
<1>3. ASSUME NEW p \in Proc,
             Escape(p) \/ Return(p) \/ AminEnds(p) \/ Exit(p) \/ End(p) \/ Kill(p) \/ Halfway(p)
      PROVE  ModesInvs'
  <2>1. Own(p)
    BY <1>3, EscapeOwn, ReturnOwn, ExitOwn, EndOwn, KillOwn, HalfwayOwn
  <2>2. Keeps
    BY <1>3, EscapeStep, ReturnStep, AminEndsStep, ExitStep, EndStep, KillStep, HalfwayStep
       DEF StepFacts
  <2>3. OwnModes(p)
    BY <1>3, EscapeModes, ReturnModes, ExitModes, EndModes, LeaveModes, HalfwayModes
  <2> QED BY <1>1, <2>1, <2>2, <2>3
<1>4. ASSUME NEW p \in Proc, Susp(p) \/ WriteWakes(p) \/ AminWakes(p)
      PROVE  ModesInvs'
  <2>1. Own(p)
    BY <1>4, SuspOwn, WriteWakesOwn, AminWakesOwn
  <2>2. Keeps
    BY <1>4, SuspStep, WriteWakesStep, AminWakesStep DEF StepFacts
  <2>3. OwnModes(p)
    BY <1>4, SuspModes, WriteWakesModes, AminModes
  <2> QED BY <1>1, <2>1, <2>2, <2>3
<1>5. ASSUME NEW p \in Proc, Start(p) \/ Disconnect(p) \/ Stop(p) \/ Fg(p)
      PROVE  ModesInvs'
  BY <1>5, StartModes, SendsModes
<1>6. ASSUME NEW l \in Line, Logout(l) \/ Login(l) PROVE ModesInvs'
  BY <1>6, LogoutModes, LoginModes
<1> QED BY <1>2, <1>3, <1>4, <1>5, <1>6 DEF Step

LEMMA AllNext == AllInv /\ [Next]_vars => AllInv'
<1> SUFFICES ASSUME AllInv, [Next]_vars, ~ raced' PROVE ModesInvs'
  BY ShownNext DEF AllInv
<1>1. IInv /\ IInv' /\ UInv /\ LinesInv /\ ModesInvs
  BY NextInv DEF AllInv, ShownInv
<1>2. CASE UNCHANGED vars
  <2>1. ProgInv'
    BY <1>1, <1>2 DEF vars, ModesInvs, ProgInv, Runs
  <2>2. \A l \in Line : Same(l) /\ (Calm(l)' => Calm(l))
    BY <1>2, EntryKept DEF vars, Same, Live, Calm
  <2>3. UNCHANGED <<time, perm, file, want>>
    BY <1>2 DEF vars
  <2>4. ASSUME NEW l \in Line, Calm(l)' PROVE ModesInv(l)' /\ \A q \in Live(l)' : Current(q)'
    BY <1>1, <2>2, <2>3, <2>4, SameModes, SameCurrent DEF LinesInv, ModesInvs
  <2> QED BY <2>1, <2>4 DEF ModesInvs
<1>3. CASE Step
  BY <1>1, <1>3, StepModes
<1>4. ASSUME NEW p \in Proc, EarlyStop(p) PROVE ModesInvs'
  <2>1. Own(p) /\ Keeps
    BY <1>1, <1>4, LeaveOwn, HalfwayOwn, LeaveStep, HalfwayStep DEF EarlyStop, StepFacts
  <2>2. OwnModes(p)
    BY <1>1, <1>4, LeaveModes, HalfwayModes DEF EarlyStop
  <2> QED BY <1>1, <2>1, <2>2, OwnModesStep
<1>5. ASSUME NEW p \in Proc, Astray(p) PROVE FALSE
  BY <1>5 DEF Astray
<1> QED BY <1>2, <1>3, <1>4, <1>5 DEF Next

\* When nothing runs on a tty, or all of it is stopped, its mode and the preference
\* in its entry are those that the user has last set with mesg, at the prompt or in a
\* shell from which they are kept, however deep write, amin and mesg were nested and
\* in whatever order they were stopped and resumed, in a login without an accident
\* (set_modes(), reset_modes(), update_modes(), susp(), fix_modes(), restore_modes()).
\* A signal between fixed_modes and the chmod() is one (Halfway, in upset), and the fg
\* of an amin that was stopped early (Astray, in raced).
THEOREM PutBackRight == Spec => []ModesPutBack
<1>1. AllInv => ModesPutBack
  <2> SUFFICES ASSUME AllInv, NEW l \in Line, Calm(l),
                      \A p \in Live(l) : Stopped(p) \/ proc[p].pc = "ask"
               PROVE  perm[l] = want[l].perm /\ EntryOf(l).rec = want[l].rec
    BY DEF ModesPutBack, Calm
  <2>1. PermInv(l) /\ RecInv(l)
    BY DEF AllInv, ModesInvs, ModesInv, Calm
  <2>2. On(l) = {}
    BY DEF On, InPlace, Stopped
  <2>3. perm[l] = want[l].perm
    BY <2>1, <2>2 DEF PermInv, Clear
  <2>4. PICK B \in SUBSET On(l) : Behind(l, B)
    BY <2>1 DEF RecInv
  <2>5. Right(l, EntryOf(l).rec, {}, B)
    BY <2>2, <2>4 DEF Behind, Lasting
  <2> QED BY <2>3, <2>5 DEF Right
<1>2. Spec => []AllInv
  BY AllInit, AllNext, PTL DEF Spec
<1> QED BY <1>1, <1>2, PTL

=============================================================================
