--------------------------- MODULE PartyWhoProofs ---------------------------
(***************************************************************************)
(* Proofs about party's pwho file: for any processes, ttys and users, a    *)
(* process that has its entry to itself is shown in the channel it is in,  *)
(* and what is shown is a process in that channel or a killed one.         *)
(***************************************************************************)
EXTENDS PartyWho, FiniteSetTheorems, SequenceTheorems, TLAPS

\* A process that has found its entry has one, and one of the subentries.
PlaceInv ==
  \A p \in Proc :
    /\ pc[p] = "look" => myoff[p] >= 1
    /\ p \in Placed => myoff[p] >= 1
    /\ p \in Placed /\ pc[p] # "head" => myoff[p] <= Len(file)
    /\ pc[p] \in {"clear", "head", "body", "exitscan", "exithead"} => mysub[p] # 0
    /\ pc[p] = "in" => mybody[p].by = p /\ mybody[p].chan \in Channels

\* An entry that was never shared has one process.
SoleInv ==
  \A p \in Placed \ shared : \A q \in Placed \ {p} : myoff[q] # myoff[p]

\* Its header names the process's tty and user, and once the process is in a
\* channel its subentry says so.
EntryInv ==
  \A p \in Proc \ shared :
    /\ pc[p] \in {"body", "naming", "in"}
         => /\ file[myoff[p]].line = Line[p]
            /\ file[myoff[p]].logname = LogName[User[p]]
    /\ pc[p] = "in" /\ mysub[p] # 0 => file[myoff[p]].sub[mysub[p]] = mybody[p]

\* A subentry that is not null is where its process put it, and is up to date
\* unless that process was killed.
RecordInv ==
  \A k \in 1 .. Len(file), s \in 1 .. NSub :
    LET b == file[k].sub[s] IN
    b # NoSub =>
      /\ myoff[b.by] = k /\ mysub[b.by] = s
      /\ pc[b.by] = "killed" \/ (pc[b.by] = "in" /\ mybody[b.by] = b)

-----------------------------------------------------------------------------
(* What a write does to the file.                                          *)

SameElse(p) == \A k \in 1 .. Len(file) : k # myoff[p] => file'[k] = file[k]

SubWritten(p, b) ==
  /\ file' \in Seq(Entries) /\ Len(file') = Len(file) /\ SameElse(p)
  /\ file'[myoff[p]].line = file[myoff[p]].line
  /\ file'[myoff[p]].logname = file[myoff[p]].logname
  /\ file'[myoff[p]].sub = [file[myoff[p]].sub EXCEPT ![mysub[p]] = b]
  /\ tail' \in 0 .. NSub

HeadWritten(p, n) ==
  /\ file' \in Seq(Entries)
  /\ Len(file') = IF myoff[p] > Len(file) THEN Len(file) + 1 ELSE Len(file)
  /\ SameElse(p)
  /\ file'[myoff[p]].line = Line[p]
  /\ file'[myoff[p]].logname = n
  /\ file'[myoff[p]].sub =
       IF myoff[p] > Len(file) THEN NoSubs ELSE file[myoff[p]].sub
  /\ tail' \in 0 .. NSub

Cleared(p) ==
  /\ file' \in Seq(Entries) /\ Len(file') = Len(file) /\ SameElse(p)
  /\ file'[myoff[p]].line = Line[p]
  /\ file'[myoff[p]].sub = NoSubs
  /\ tail' \in 0 .. NSub

\* fwrite() of a subentry.
LEMMA WriteSubEffect ==
  ASSUME WhoTypeOK, NEW p \in Proc, NEW b \in Subs,
         myoff[p] \in 1 .. Len(file), mysub[p] \in 1 .. NSub, WriteSub(p, b)
  PROVE  SubWritten(p, b)
<1> DEFINE k == myoff[p]
           e == [file[k] EXCEPT !.sub[mysub[p]] = b]
<1>1. file[k] \in Entries
  BY ElementOfSeq DEF WhoTypeOK
<1>2. /\ e \in Entries /\ e.line = file[k].line /\ e.logname = file[k].logname
      /\ e.sub = [file[k].sub EXCEPT ![mysub[p]] = b]
  BY <1>1 DEF Entries
<1>3. file' = [file EXCEPT ![k] = e]
  BY DEF WriteSub
<1>4. /\ file' \in Seq(Entries) /\ Len(file') = Len(file)
      /\ \A j \in 1 .. Len(file) : file'[j] = IF j = k THEN e ELSE file[j]
  <2> HIDE DEF e
  <2> QED BY <1>2, <1>3, ExceptSeq DEF WhoTypeOK
<1>5. tail' \in 0 .. NSub
  BY DEF WriteSub, WhoTypeOK
<1> HIDE DEF e
<1> QED BY <1>2, <1>4, <1>5 DEF SubWritten, SameElse

\* fwrite() of a header.
LEMMA WriteHeadEffect ==
  ASSUME WhoTypeOK, NEW p \in Proc, NEW n \in Names \cup {None},
         myoff[p] \in 1 .. Len(file) + 1, WriteHead(p, n)
  PROVE  HeadWritten(p, n)
<1> DEFINE k == myoff[p]
           e == [line |-> Line[p], logname |-> n, sub |-> NoSubs]
           f == [file[k] EXCEPT !.line = Line[p], !.logname = n]
<1>0. Len(file) \in Nat /\ tail \in 0 .. NSub /\ 0 \in 0 .. NSub
  BY SizeAssumption, LenProperties DEF WhoTypeOK
<1>1. CASE k > Len(file)
  <2>1. e \in Entries
    BY PeopleAssumption DEF Entries, NoSubs, Subs
  <2>2. file' = Append(file, e) /\ tail' = 0
    BY <1>1, <1>0 DEF WriteHead
  <2>3. k = Len(file) + 1
    BY <1>1, <1>0
  <2> HIDE DEF e
  <2>4. /\ file' \in Seq(Entries) /\ Len(file') = Len(file) + 1
        /\ \A i \in 1 .. Len(file) : file'[i] = file[i]
        /\ file'[k] = e
    BY <2>1, <2>2, <2>3, AppendProperties DEF WhoTypeOK
  <2>5. e.line = Line[p] /\ e.logname = n /\ e.sub = NoSubs
    BY DEF e
  <2> QED BY <1>0, <1>1, <2>2, <2>4, <2>5 DEF HeadWritten, SameElse
<1>2. CASE k <= Len(file)
  <2>0. k \in 1 .. Len(file)
    BY <1>0, <1>2
  <2>1. file[k] \in Entries
    BY <2>0, ElementOfSeq DEF WhoTypeOK
  <2>2. /\ f \in Entries /\ f.line = Line[p] /\ f.logname = n
        /\ f.sub = file[k].sub
    BY <2>1, PeopleAssumption DEF Entries
  <2>3. file' = [file EXCEPT ![k] = f] /\ tail' = tail
    BY <1>2, <1>0 DEF WriteHead
  <2> HIDE DEF f
  <2>4. /\ file' \in Seq(Entries) /\ Len(file') = Len(file)
        /\ \A j \in 1 .. Len(file) : file'[j] = IF j = k THEN f ELSE file[j]
    BY <2>0, <2>2, <2>3, ExceptSeq DEF WhoTypeOK
  <2>5. ~(k > Len(file))
    BY <1>0, <2>0
  <2>6. file'[k] = f
    BY <2>0, <2>4
  <2> QED BY <1>0, <2>0, <2>2, <2>3, <2>4, <2>5, <2>6
          DEF HeadWritten, SameElse
<1> QED BY <1>0, <1>1, <1>2 DEF HeadWritten, SameElse

\* fwrite() of a whole entry by who_clear().
LEMMA ClearEffect ==
  ASSUME WhoTypeOK, NEW p \in Proc, myoff[p] \in 1 .. Len(file), Clear(p)
  PROVE  Cleared(p)
<1> DEFINE k == myoff[p]
           e == [line |-> Line[p], logname |-> None, sub |-> NoSubs]
<1>1. e \in Entries /\ e.line = Line[p] /\ e.sub = NoSubs
  BY PeopleAssumption DEF Entries, NoSubs, Subs
<1>2. file' = [file EXCEPT ![k] = e] /\ tail' \in 0 .. NSub
  BY SizeAssumption DEF Clear, WhoTypeOK
<1> HIDE DEF e
<1>3. /\ file' \in Seq(Entries) /\ Len(file') = Len(file)
      /\ \A j \in 1 .. Len(file) : file'[j] = IF j = k THEN e ELSE file[j]
  BY <1>1, <1>2, ExceptSeq DEF WhoTypeOK
<1> QED BY <1>1, <1>2, <1>3 DEF Cleared, SameElse

\* The writes of the actions; the invariant says that there is a place to write.
LEMMA Writes ==
  ASSUME WhoTypeOK, PlaceInv, NEW p \in Proc
  PROVE  /\ Clear(p) => Cleared(p)
         /\ EnterHead(p) => HeadWritten(p, LogName[User[p]])
         /\ EnterBody(p) => SubWritten(p, NoSub)
         /\ WhoChan(p) => /\ mybody'[p] \in Subs \ {NoSub} /\ mybody'[p].by = p
                          /\ mysub[p] # 0 => SubWritten(p, mybody'[p])
         /\ WhoExit(p) /\ mysub[p] # 0 => SubWritten(p, NoSub)
         /\ ExitHead(p) => HeadWritten(p, None)
<1>0. /\ Len(file) \in Nat /\ myoff[p] \in 0 .. Len(file) + 1
      /\ mysub[p] \in 0 .. NSub /\ NSub \in Nat /\ NoSub \in Subs
      /\ LogName[User[p]] \in Names /\ pc[p] \in Labels
  BY SizeAssumption, PeopleAssumption, LenProperties DEF WhoTypeOK, Subs
<1>1. p \in Placed /\ pc[p] # "head" => myoff[p] \in 1 .. Len(file)
  BY <1>0 DEF PlaceInv
<1>2. p \in Placed => myoff[p] \in 1 .. Len(file) + 1
  BY <1>0 DEF PlaceInv
<1>3. mysub[p] # 0 => mysub[p] \in 1 .. NSub
  BY <1>0
<1>4. ASSUME Clear(p) PROVE Cleared(p)
  BY <1>1, <1>4, ClearEffect DEF Clear, Placed
<1>5. ASSUME EnterHead(p) PROVE HeadWritten(p, LogName[User[p]])
  BY <1>0, <1>2, <1>5, WriteHeadEffect DEF EnterHead, Placed
<1>6. ASSUME EnterBody(p) PROVE SubWritten(p, NoSub)
  BY <1>0, <1>1, <1>3, <1>6, WriteSubEffect DEF EnterBody, Placed, PlaceInv
<1>7. ASSUME WhoChan(p)
      PROVE  /\ mybody'[p] \in Subs \ {NoSub} /\ mybody'[p].by = p
             /\ mysub[p] # 0 => SubWritten(p, mybody'[p])
  <2>1. PICK c \in Channels :
          mybody' = [mybody EXCEPT ![p].by = p, ![p].chan = c]
    BY <1>7 DEF WhoChan
  <2>2. /\ mybody'[p] = [by |-> p, chan |-> c, at |-> mybody[p].at]
        /\ mybody[p].at \in Nat
    BY <2>1 DEF WhoTypeOK
  <2>3. mybody'[p] \in Subs \ {NoSub} /\ mybody'[p].by = p
    BY <2>2, PeopleAssumption DEF Subs, NoSub
  <2>4. mysub[p] # 0 => SubWritten(p, mybody'[p])
    BY <1>1, <1>3, <1>7, <2>3, WriteSubEffect DEF WhoChan, Placed
  <2> QED BY <2>3, <2>4
<1>8. ASSUME WhoExit(p), mysub[p] # 0 PROVE SubWritten(p, NoSub)
  BY <1>0, <1>1, <1>3, <1>8, WriteSubEffect DEF WhoExit, Placed
<1>9. ASSUME ExitHead(p) PROVE HeadWritten(p, None)
  BY <1>0, <1>2, <1>9, WriteHeadEffect DEF ExitHead, Placed
<1> QED BY <1>4, <1>5, <1>6, <1>7, <1>8, <1>9

-----------------------------------------------------------------------------
(* Steps.                                                                 *)

\* Types, action by action.
LEMMA WhoTypeStep ==
  WhoTypeOK /\ PlaceInv /\ [WhoNext]_vars => WhoTypeOK'
<1> SUFFICES ASSUME WhoTypeOK, PlaceInv, [WhoNext]_vars
             PROVE WhoTypeOK'
  OBVIOUS
<1>0. Len(file) \in Nat
  BY LenProperties DEF WhoTypeOK
<1> USE <1>0 DEF WhoTypeOK, Labels
<1>1. ASSUME NEW p \in Proc, Start(p) PROVE WhoTypeOK'
  <2>1. 1 \in 0 .. Len(file) + 1 /\ login[Line[p]] \in Nat
    BY PeopleAssumption
  <2> QED BY <1>1, <2>1 DEF Start, Goto
<1>2. ASSUME NEW p \in Proc, Look(p) PROVE WhoTypeOK'
  <2>2. mysub' \in [Proc -> 0 .. NSub]
    BY <1>2, SizeAssumption DEF Look
  <2>3. myoff' \in [Proc -> 0 .. Len(file) + 1]
    <3>1. \/ myoff' = myoff
          \/ myoff' = [myoff EXCEPT ![p] = @ + 1] /\ myoff[p] <= Len(file)
      BY <1>2 DEF Look
    <3>2. myoff[p] <= Len(file) => myoff[p] + 1 \in 0 .. Len(file) + 1
      OBVIOUS
    <3> QED BY <3>1, <3>2
  <2>4. shared' \subseteq Proc
    BY <1>2 DEF Look, Together, Placed
  <2> QED BY <1>2, <2>2, <2>3, <2>4 DEF Look, Goto
<1>3. ASSUME NEW p \in Proc, Clear(p) PROVE WhoTypeOK'
  BY <1>3, Writes DEF Clear, Goto, Cleared
<1>4. ASSUME NEW p \in Proc, EnterHead(p) PROVE WhoTypeOK'
  <2>1. /\ file' \in Seq(Entries) /\ Len(file') >= Len(file)
        /\ Len(file') \in Nat /\ tail' \in 0 .. NSub
    BY <1>4, Writes DEF HeadWritten
  <2>2. myoff' \in [Proc -> 0 .. Len(file') + 1]
    BY <1>4, <2>1 DEF EnterHead
  <2> QED BY <1>4, <2>1, <2>2 DEF EnterHead, Goto
<1>5. ASSUME NEW p \in Proc, EnterBody(p) PROVE WhoTypeOK'
  BY <1>5, Writes DEF EnterBody, Goto, SubWritten
<1>6. ASSUME NEW p \in Proc, WhoChan(p) PROVE WhoTypeOK'
  <2>1. mybody'[p] \in Subs /\ Subs \subseteq
          [by : Proc \cup {None}, chan : Channels \cup {None}, at : Nat]
    BY <1>6, Writes DEF Subs, NoSub
  <2>2. mybody' \in [Proc -> [by : Proc \cup {None}, chan : Channels \cup {None},
                              at : Nat]]
    BY <1>6, <2>1 DEF WhoChan
  <2>3. file' \in Seq(Entries) /\ Len(file') = Len(file) /\ tail' \in 0 .. NSub
    BY <1>6, Writes DEF WhoChan, SubWritten
  <2> QED BY <1>6, <2>2, <2>3 DEF WhoChan, Goto
<1>7. ASSUME NEW p \in Proc, NoJoin(p) PROVE WhoTypeOK'
  BY <1>7 DEF NoJoin, Goto
<1>8. ASSUME NEW p \in Proc, WhoExit(p) PROVE WhoTypeOK'
  <2>1. file' \in Seq(Entries) /\ Len(file') = Len(file) /\ tail' \in 0 .. NSub
    BY <1>8, Writes DEF WhoExit, SubWritten
  <2> QED BY <1>8, <2>1 DEF WhoExit, Goto
<1>9. ASSUME NEW p \in Proc, ExitScan(p) PROVE WhoTypeOK'
  BY <1>9 DEF ExitScan, Goto
<1>10. ASSUME NEW p \in Proc, ExitHead(p) PROVE WhoTypeOK'
  <2>1. /\ file' \in Seq(Entries) /\ Len(file') >= Len(file)
        /\ Len(file') \in Nat /\ tail' \in 0 .. NSub
    BY <1>10, Writes DEF HeadWritten
  <2>2. myoff' \in [Proc -> 0 .. Len(file') + 1]
    BY <1>10, <2>1 DEF ExitHead
  <2> QED BY <1>10, <2>1, <2>2 DEF ExitHead, Goto
<1>11. ASSUME NEW p \in Proc, Kill(p) PROVE WhoTypeOK'
  BY <1>11 DEF Kill, Goto
<1>12. ASSUME NEW t \in Tty, Login(t) PROVE WhoTypeOK'
  BY <1>12 DEF Login, Goto
<1>13. CASE UNCHANGED vars
  BY <1>13 DEF vars
<1> QED
  BY <1>1, <1>2, <1>3, <1>4, <1>5, <1>6, <1>7, <1>8, <1>9, <1>10, <1>11,
     <1>12, <1>13 DEF WhoNext

\* The places, action by action.
LEMMA PlaceStep ==
  WhoTypeOK /\ PlaceInv /\ [WhoNext]_vars => PlaceInv'
<1> SUFFICES ASSUME WhoTypeOK, PlaceInv, [WhoNext]_vars
             PROVE PlaceInv'
  OBVIOUS
<1>0. Len(file) \in Nat /\ \A p \in Proc : myoff[p] \in Nat
  BY LenProperties DEF WhoTypeOK
<1> USE <1>0 DEF WhoTypeOK, PlaceInv, Placed
<1>1. ASSUME NEW p \in Proc, Start(p) PROVE PlaceInv'
  BY <1>1 DEF Start, Goto
<1>2. ASSUME NEW p \in Proc, Look(p) PROVE PlaceInv'
  BY <1>2 DEF Look, Goto
<1>3. ASSUME NEW p \in Proc, Clear(p) PROVE PlaceInv'
  BY <1>3, Writes DEF Clear, Goto, Cleared
<1>4. ASSUME NEW p \in Proc, EnterHead(p) PROVE PlaceInv'
  <2>1. /\ Len(file') >= Len(file) /\ Len(file') \in Nat
        /\ myoff[p] <= Len(file) + 1 => myoff[p] <= Len(file')
    BY <1>4, Writes DEF HeadWritten
  <2> QED BY <1>4, <2>1 DEF EnterHead, Goto
<1>5. ASSUME NEW p \in Proc, EnterBody(p) PROVE PlaceInv'
  <2>1. Len(file') = Len(file)
    BY <1>5, Writes DEF EnterBody, SubWritten
  <2> QED BY <1>5, <2>1 DEF EnterBody, Goto
<1>6. ASSUME NEW p \in Proc, WhoChan(p) PROVE PlaceInv'
  <2>1. Len(file') = Len(file)
    BY <1>6, Writes DEF WhoChan, SubWritten
  <2>2. PICK c \in Channels :
          mybody' = [mybody EXCEPT ![p].by = p, ![p].chan = c]
    BY <1>6 DEF WhoChan
  <2>3. \A q \in Proc \ {p} : mybody'[q] = mybody[q]
    BY <2>2
  <2>4. mybody'[p].by = p /\ mybody'[p].chan = c
    BY <2>2
  <2> HIDE DEF WhoTypeOK
  <2>5. \A q \in Proc : /\ q # p => pc'[q] = pc[q]
                        /\ pc'[p] = "in" /\ pc[p] \in {"naming", "in"}
    BY <1>6 DEF WhoChan, Goto, WhoTypeOK
  <2>6. UNCHANGED <<myoff, mysub>>
    BY <1>6 DEF WhoChan
  <2> QED BY <2>1, <2>3, <2>4, <2>5, <2>6
<1>7. ASSUME NEW p \in Proc, NoJoin(p) PROVE PlaceInv'
  BY <1>7 DEF NoJoin, Goto
<1>8. ASSUME NEW p \in Proc, WhoExit(p) PROVE PlaceInv'
  <2>1. Len(file') = Len(file)
    BY <1>8, Writes DEF WhoExit, SubWritten
  <2> QED BY <1>8, <2>1 DEF WhoExit, Goto
<1>9. ASSUME NEW p \in Proc, ExitScan(p) PROVE PlaceInv'
  BY <1>9 DEF ExitScan, Goto
<1>10. ASSUME NEW p \in Proc, ExitHead(p) PROVE PlaceInv'
  <2>1. Len(file') >= Len(file) /\ Len(file') \in Nat
    BY <1>10, Writes DEF HeadWritten
  <2> QED BY <1>10, <2>1 DEF ExitHead, Goto
<1>11. ASSUME NEW p \in Proc, Kill(p) PROVE PlaceInv'
  BY <1>11 DEF Kill, Goto
<1>12. ASSUME NEW t \in Tty, Login(t) PROVE PlaceInv'
  BY <1>12 DEF Login, Goto
<1>13. CASE UNCHANGED vars
  BY <1>13 DEF vars
<1> QED
  BY <1>1, <1>2, <1>3, <1>4, <1>5, <1>6, <1>7, <1>8, <1>9, <1>10, <1>11,
     <1>12, <1>13 DEF WhoNext

\* Who is in an entry, action by action: only Look() finds one.
LEMMA SoleStep ==
  WhoTypeOK /\ SoleInv /\ [WhoNext]_vars => SoleInv'
<1> SUFFICES ASSUME WhoTypeOK, SoleInv, [WhoNext]_vars
             PROVE SoleInv'
  OBVIOUS
<1> USE DEF WhoTypeOK, SoleInv, Placed
<1>1. ASSUME NEW p \in Proc, Start(p) PROVE SoleInv'
  BY <1>1 DEF Start, Goto
<1>2. ASSUME NEW p \in Proc, Look(p) PROVE SoleInv'
  <2>1. CASE UNCHANGED <<pc, shared>>
    <3>1. pc[p] = "look" /\ \A q \in Proc \ {p} : myoff'[q] = myoff[q]
      BY <1>2 DEF Look
    <3> QED BY <2>1, <3>1
  <2>2. CASE shared' = shared \cup Together(p) /\ UNCHANGED myoff
    BY <1>2, <2>2 DEF Look, Goto, Together
  <2> QED BY <1>2, <2>1, <2>2 DEF Look
<1>3. ASSUME NEW p \in Proc, Clear(p) PROVE SoleInv'
  BY <1>3 DEF Clear, Goto
<1>4. ASSUME NEW p \in Proc, EnterHead(p) PROVE SoleInv'
  BY <1>4 DEF EnterHead, Goto
<1>5. ASSUME NEW p \in Proc, EnterBody(p) PROVE SoleInv'
  BY <1>5 DEF EnterBody, Goto
<1>6. ASSUME NEW p \in Proc, WhoChan(p) PROVE SoleInv'
  BY <1>6 DEF WhoChan, Goto
<1>7. ASSUME NEW p \in Proc, NoJoin(p) PROVE SoleInv'
  BY <1>7 DEF NoJoin, Goto
<1>8. ASSUME NEW p \in Proc, WhoExit(p) PROVE SoleInv'
  <2>1. Placed' \subseteq Placed /\ UNCHANGED <<myoff, shared>>
    BY <1>8 DEF WhoExit, Goto
  <2> QED BY <2>1
<1>9. ASSUME NEW p \in Proc, ExitScan(p) PROVE SoleInv'
  BY <1>9 DEF ExitScan, Goto
<1>10. ASSUME NEW p \in Proc, ExitHead(p) PROVE SoleInv'
  BY <1>10 DEF ExitHead, Goto
<1>11. ASSUME NEW p \in Proc, Kill(p) PROVE SoleInv'
  BY <1>11 DEF Kill, Goto
<1>12. ASSUME NEW t \in Tty, Login(t) PROVE SoleInv'
  BY <1>12 DEF Login, Goto
<1>13. CASE UNCHANGED vars
  BY <1>13 DEF vars
<1> QED
  BY <1>1, <1>2, <1>3, <1>4, <1>5, <1>6, <1>7, <1>8, <1>9, <1>10, <1>11,
     <1>12, <1>13 DEF WhoNext

\* A write of one process is not in the entry of another, unless it is shared.
LEMMA Elsewhere ==
  ASSUME WhoTypeOK, PlaceInv, SoleInv, NEW p \in Placed, SameElse(p)
  PROVE  \A q \in Proc \ shared :
           q # p /\ pc[q] \in {"body", "naming", "in"}
             => file'[myoff[q]] = file[myoff[q]]
<1> SUFFICES ASSUME NEW q \in Proc \ shared, q # p,
                    pc[q] \in {"body", "naming", "in"}
             PROVE  file'[myoff[q]] = file[myoff[q]]
  OBVIOUS
<1>1. q \in Placed /\ myoff[p] # myoff[q]
  BY DEF SoleInv, Placed
<1>2. myoff[q] \in 1 .. Len(file)
  BY <1>1, LenProperties DEF WhoTypeOK, PlaceInv
<1> QED BY <1>1, <1>2 DEF SameElse

\* The entries, action by action: a write by another process is elsewhere.
LEMMA EntryStep ==
  WhoTypeOK /\ PlaceInv /\ SoleInv /\ EntryInv /\ [WhoNext]_vars => EntryInv'
<1> SUFFICES ASSUME WhoTypeOK, PlaceInv, SoleInv, EntryInv, [WhoNext]_vars
             PROVE EntryInv'
  OBVIOUS
<1>0. /\ Len(file) \in Nat
      /\ \A q \in Proc : pc[q] \in {"body", "naming", "in"}
                         => myoff[q] \in 1 .. Len(file)
  BY LenProperties DEF WhoTypeOK, PlaceInv, Placed
<1> USE DEF EntryInv, Placed
<1>1. ASSUME NEW p \in Proc, Start(p) PROVE EntryInv'
  BY <1>1, <1>0 DEF Start, Goto, WhoTypeOK
<1>2. ASSUME NEW p \in Proc, Look(p) PROVE EntryInv'
  <2>1. pc[p] = "look" /\ UNCHANGED <<file, mybody>> /\ shared \subseteq shared'
    BY <1>2 DEF Look
  <2>2. \A q \in Proc \ {p} :
          myoff'[q] = myoff[q] /\ mysub'[q] = mysub[q] /\ pc'[q] = pc[q]
    BY <1>2 DEF Look, Goto, WhoTypeOK
  <2>3. pc'[p] \in {"look", "head", "clear", "naming"}
    BY <1>2 DEF Look, Goto, WhoTypeOK
  <2>4. pc'[p] = "naming" =>
          /\ file[myoff'[p]].line = Line[p]
          /\ file[myoff'[p]].logname = LogName[User[p]]
    BY <1>2 DEF Look, Goto, WhoTypeOK
  <2> QED BY <2>1, <2>2, <2>3, <2>4
<1>3. ASSUME NEW p \in Proc, Clear(p) PROVE EntryInv'
  <2>1. pc[p] = "clear" /\ UNCHANGED <<myoff, mysub, mybody, shared>>
    BY <1>3 DEF Clear
  <2>2. pc'[p] = "head" /\ \A q \in Proc \ {p} : pc'[q] = pc[q]
    BY <1>3 DEF Clear, Goto, WhoTypeOK
  <2>3. SameElse(p)
    BY <1>3, Writes DEF Cleared
  <2> QED BY <2>1, <2>2, <2>3, Elsewhere
<1>4. ASSUME NEW p \in Proc, EnterHead(p) PROVE EntryInv'
  <2>1. pc[p] = "head" /\ UNCHANGED <<myoff, mysub, mybody, shared>>
    BY <1>4 DEF EnterHead
  <2>2. pc'[p] = "body" /\ \A q \in Proc \ {p} : pc'[q] = pc[q]
    BY <1>4 DEF EnterHead, Goto, WhoTypeOK
  <2>3. /\ SameElse(p) /\ file'[myoff[p]].line = Line[p]
        /\ file'[myoff[p]].logname = LogName[User[p]]
    BY <1>4, Writes DEF HeadWritten
  <2> QED BY <2>1, <2>2, <2>3, Elsewhere
<1>5. ASSUME NEW p \in Proc, EnterBody(p) PROVE EntryInv'
  <2>1. pc[p] = "body" /\ UNCHANGED <<myoff, mysub, mybody, shared>>
    BY <1>5 DEF EnterBody
  <2>2. pc'[p] = "naming" /\ \A q \in Proc \ {p} : pc'[q] = pc[q]
    BY <1>5 DEF EnterBody, Goto, WhoTypeOK
  <2>3. /\ SameElse(p) /\ file'[myoff[p]].line = file[myoff[p]].line
        /\ file'[myoff[p]].logname = file[myoff[p]].logname
    BY <1>5, Writes DEF SubWritten
  <2> QED BY <2>1, <2>2, <2>3, Elsewhere
<1>6. ASSUME NEW p \in Proc, WhoChan(p) PROVE EntryInv'
  <2>1. pc[p] \in {"naming", "in"} /\ UNCHANGED <<myoff, mysub, shared>>
    BY <1>6 DEF WhoChan
  <2>2. /\ pc'[p] = "in"
        /\ \A q \in Proc \ {p} : pc'[q] = pc[q] /\ mybody'[q] = mybody[q]
    BY <1>6 DEF WhoChan, Goto, WhoTypeOK
  <2>3. CASE mysub[p] = 0
    <3>1. UNCHANGED file
      BY <1>6, <2>3 DEF WhoChan
    <3> QED BY <2>1, <2>2, <2>3, <3>1
  <2>4. CASE mysub[p] # 0
    <3>1. /\ SameElse(p) /\ file'[myoff[p]].line = file[myoff[p]].line
          /\ file'[myoff[p]].logname = file[myoff[p]].logname
          /\ file'[myoff[p]].sub =
               [file[myoff[p]].sub EXCEPT ![mysub[p]] = mybody'[p]]
      BY <1>6, <2>4, Writes DEF SubWritten
    <3>2. file'[myoff[p]].sub[mysub[p]] = mybody'[p]
      <4>1. myoff[p] \in 1 .. Len(file) /\ mysub[p] \in 1 .. NSub
        BY <1>0, <2>1, <2>4, SizeAssumption DEF WhoTypeOK
      <4>2. file[myoff[p]] \in Entries
        BY <4>1, ElementOfSeq DEF WhoTypeOK
      <4>3. file[myoff[p]].sub \in [1 .. NSub -> Subs]
        BY <4>2 DEF Entries, WhoTypeOK
      <4> QED BY <3>1, <4>1, <4>3
    <3>3. p \in Placed
      BY <2>1
    <3>4. \A q \in Proc \ shared :
            q # p /\ pc[q] \in {"body", "naming", "in"}
              => file'[myoff[q]] = file[myoff[q]]
      BY <3>1, <3>3, Elsewhere
    <3> SUFFICES ASSUME NEW q \in Proc \ shared PROVE
               /\ pc'[q] \in {"body", "naming", "in"}
                    => /\ file'[myoff[q]].line = Line[q]
                       /\ file'[myoff[q]].logname = LogName[User[q]]
               /\ pc'[q] = "in" /\ mysub[q] # 0
                    => file'[myoff[q]].sub[mysub[q]] = mybody'[q]
      BY <2>1
    <3>5. CASE q = p
      BY <2>1, <3>1, <3>2, <3>5
    <3>6. CASE q # p
      BY <2>2, <3>4, <3>6
    <3> QED BY <3>5, <3>6
  <2> QED BY <2>3, <2>4
<1>7. ASSUME NEW p \in Proc, NoJoin(p) PROVE EntryInv'
  BY <1>7 DEF NoJoin, Goto, WhoTypeOK
<1>8. ASSUME NEW p \in Proc, WhoExit(p) PROVE EntryInv'
  <2>1. pc[p] \in {"naming", "in"} /\ UNCHANGED <<myoff, mysub, mybody, shared>>
    BY <1>8 DEF WhoExit
  <2>2. /\ pc'[p] \in {"gone", "exitscan"}
        /\ \A q \in Proc \ {p} : pc'[q] = pc[q]
    BY <1>8 DEF WhoExit, Goto, WhoTypeOK
  <2>3. UNCHANGED file \/ SameElse(p)
    BY <1>8, Writes DEF WhoExit, SubWritten
  <2> QED BY <2>1, <2>2, <2>3, Elsewhere
<1>9. ASSUME NEW p \in Proc, ExitScan(p) PROVE EntryInv'
  BY <1>9 DEF ExitScan, Goto, WhoTypeOK
<1>10. ASSUME NEW p \in Proc, ExitHead(p) PROVE EntryInv'
  <2>1. pc[p] = "exithead" /\ UNCHANGED <<myoff, mysub, mybody, shared>>
    BY <1>10 DEF ExitHead
  <2>2. pc'[p] = "gone" /\ \A q \in Proc \ {p} : pc'[q] = pc[q]
    BY <1>10 DEF ExitHead, Goto, WhoTypeOK
  <2>3. SameElse(p)
    BY <1>10, Writes DEF HeadWritten
  <2> QED BY <2>1, <2>2, <2>3, Elsewhere
<1>11. ASSUME NEW p \in Proc, Kill(p) PROVE EntryInv'
  BY <1>11 DEF Kill, Goto, WhoTypeOK
<1>12. ASSUME NEW t \in Tty, Login(t) PROVE EntryInv'
  BY <1>12 DEF Login, Goto, WhoTypeOK
<1>13. CASE UNCHANGED vars
  BY <1>13 DEF vars
<1> QED
  BY <1>1, <1>2, <1>3, <1>4, <1>5, <1>6, <1>7, <1>8, <1>9, <1>10, <1>11,
     <1>12, <1>13 DEF WhoNext

\* A subentry is null or has a process.
LEMMA SubType ==
  ASSUME WhoTypeOK, NEW k \in 1 .. Len(file), NEW s \in 1 .. NSub
  PROVE  /\ file[k].sub \in [1 .. NSub -> Subs]
         /\ file[k].sub[s] # NoSub => file[k].sub[s].by \in Proc
<1>1. file[k] \in Entries
  BY ElementOfSeq DEF WhoTypeOK
<1>2. file[k].sub \in [1 .. NSub -> Subs]
  BY <1>1 DEF Entries
<1> QED BY <1>2 DEF Subs

\* The records stay right if subentries are kept or erased, and processes in a
\* channel stay in it or are killed.
LEMMA RecordKept ==
  ASSUME WhoTypeOK, RecordInv,
         \A k \in 1 .. Len(file'), s \in 1 .. NSub :
           file'[k].sub[s] # NoSub
             => k \in 1 .. Len(file) /\ file'[k].sub[s] = file[k].sub[s],
         \A q \in Proc : pc[q] \in {"in", "killed"} =>
           /\ myoff'[q] = myoff[q] /\ mysub'[q] = mysub[q]
           /\ mybody'[q] = mybody[q]
           /\ pc'[q] = pc[q] \/ pc'[q] = "killed"
  PROVE  RecordInv'
<1> SUFFICES ASSUME NEW k \in 1 .. Len(file'), NEW s \in 1 .. NSub,
                    file'[k].sub[s] # NoSub
             PROVE  LET b == file'[k].sub[s] IN
                    /\ myoff'[b.by] = k /\ mysub'[b.by] = s
                    /\ \/ pc'[b.by] = "killed"
                       \/ pc'[b.by] = "in" /\ mybody'[b.by] = b
  BY DEF RecordInv
<1>1. k \in 1 .. Len(file) /\ file'[k].sub[s] = file[k].sub[s]
  OBVIOUS
<1>2. file[k].sub[s].by \in Proc
  BY <1>1, SubType
<1>3. LET b == file[k].sub[s] IN
      /\ myoff[b.by] = k /\ mysub[b.by] = s
      /\ pc[b.by] = "killed" \/ (pc[b.by] = "in" /\ mybody[b.by] = b)
  BY <1>1 DEF RecordInv
<1> QED BY <1>1, <1>2, <1>3

\* The records, action by action.
LEMMA RecordStep ==
  WhoTypeOK /\ PlaceInv /\ RecordInv /\ [WhoNext]_vars => RecordInv'
<1> SUFFICES ASSUME WhoTypeOK, PlaceInv, RecordInv, [WhoNext]_vars
             PROVE RecordInv'
  OBVIOUS
<1>0. /\ Len(file) \in Nat
      /\ \A q \in Placed : myoff[q] \in 1 .. Len(file) + 1
      /\ \A q \in Placed : pc[q] # "head" => myoff[q] \in 1 .. Len(file)
  BY LenProperties DEF WhoTypeOK, PlaceInv, Placed
<1>1. ASSUME NEW p \in Proc, Start(p) PROVE RecordInv'
  BY <1>1, RecordKept DEF Start, Goto, WhoTypeOK
<1>2. ASSUME NEW p \in Proc, Look(p) PROVE RecordInv'
  <2>1. pc[p] = "look" /\ UNCHANGED <<file, mybody>>
    BY <1>2 DEF Look
  <2>2. \A q \in Proc \ {p} :
          myoff'[q] = myoff[q] /\ mysub'[q] = mysub[q] /\ pc'[q] = pc[q]
    BY <1>2 DEF Look, Goto, WhoTypeOK
  <2> QED BY <2>1, <2>2, RecordKept
<1>3. ASSUME NEW p \in Proc, Clear(p) PROVE RecordInv'
  <2>1. \A k \in 1 .. Len(file'), s \in 1 .. NSub :
          file'[k].sub[s] # NoSub
            => k \in 1 .. Len(file) /\ file'[k].sub[s] = file[k].sub[s]
    <3>1. /\ Len(file') = Len(file) /\ SameElse(p)
          /\ file'[myoff[p]].sub = NoSubs
      BY <1>3, Writes DEF Cleared
    <3>2. \A s \in 1 .. NSub : NoSubs[s] = NoSub
      BY DEF NoSubs
    <3> QED BY <3>1, <3>2 DEF SameElse
  <2>2. \A q \in Proc : pc[q] \in {"in", "killed"} => pc'[q] = pc[q]
    BY <1>3 DEF Clear, Goto, WhoTypeOK
  <2> QED BY <1>3, <2>1, <2>2, RecordKept DEF Clear
<1>4. ASSUME NEW p \in Proc, EnterHead(p) PROVE RecordInv'
  <2>1. \A k \in 1 .. Len(file'), s \in 1 .. NSub :
          file'[k].sub[s] # NoSub
            => k \in 1 .. Len(file) /\ file'[k].sub[s] = file[k].sub[s]
    <3>1. myoff[p] \in 1 .. Len(file) + 1
      BY <1>0, <1>4 DEF EnterHead, Placed
    <3>2. \A s \in 1 .. NSub : NoSubs[s] = NoSub
      BY DEF NoSubs
    <3>3. HeadWritten(p, LogName[User[p]])
      BY <1>4, Writes
    <3>4. CASE myoff[p] > Len(file)
      <4>1. /\ Len(file') = Len(file) + 1 /\ SameElse(p)
            /\ file'[myoff[p]].sub = NoSubs /\ myoff[p] = Len(file) + 1
        BY <1>0, <3>1, <3>3, <3>4 DEF HeadWritten
      <4> QED BY <1>0, <3>2, <4>1 DEF SameElse
    <3>5. CASE ~(myoff[p] > Len(file))
      BY <1>0, <3>1, <3>3, <3>5 DEF HeadWritten, SameElse
    <3> QED BY <3>4, <3>5
  <2>2. \A q \in Proc : pc[q] \in {"in", "killed"} => pc'[q] = pc[q]
    BY <1>4 DEF EnterHead, Goto, WhoTypeOK
  <2> QED BY <1>4, <2>1, <2>2, RecordKept DEF EnterHead
<1>5. ASSUME NEW p \in Proc, EnterBody(p) PROVE RecordInv'
  <2>1. \A k \in 1 .. Len(file'), s \in 1 .. NSub :
          file'[k].sub[s] # NoSub
            => k \in 1 .. Len(file) /\ file'[k].sub[s] = file[k].sub[s]
    <3>1. /\ Len(file') = Len(file) /\ SameElse(p)
          /\ file'[myoff[p]].sub = [file[myoff[p]].sub EXCEPT ![mysub[p]] = NoSub]
      BY <1>5, Writes DEF SubWritten
    <3>2. myoff[p] \in 1 .. Len(file)
      BY <1>0, <1>5 DEF EnterBody, Placed
    <3>3. \A s \in 1 .. NSub : file[myoff[p]].sub \in [1 .. NSub -> Subs]
      BY <3>2, SubType
    <3> QED BY <3>1, <3>3 DEF SameElse
  <2>2. \A q \in Proc : pc[q] \in {"in", "killed"} => pc'[q] = pc[q]
    BY <1>5 DEF EnterBody, Goto, WhoTypeOK
  <2> QED BY <1>5, <2>1, <2>2, RecordKept DEF EnterBody
<1>6. ASSUME NEW p \in Proc, WhoChan(p) PROVE RecordInv'
  <2>1. pc[p] \in {"naming", "in"} /\ UNCHANGED <<myoff, mysub>>
    BY <1>6 DEF WhoChan
  <2>2. /\ pc'[p] = "in"
        /\ \A q \in Proc \ {p} : pc'[q] = pc[q] /\ mybody'[q] = mybody[q]
    BY <1>6 DEF WhoChan, Goto, WhoTypeOK
  <2>3. \A k \in 1 .. Len(file), s \in 1 .. NSub :
          file[k].sub[s] # NoSub /\ file[k].sub[s].by = p
            => k = myoff[p] /\ s = mysub[p]
    BY DEF RecordInv
  <2>4. CASE mysub[p] = 0
    <3>1. UNCHANGED file
      BY <1>6, <2>4 DEF WhoChan
    <3>2. \A k \in 1 .. Len(file), s \in 1 .. NSub :
            file[k].sub[s] # NoSub => file[k].sub[s].by \in Proc \ {p}
      BY <2>3, <2>4, SubType
    <3> QED BY <2>1, <2>2, <3>1, <3>2 DEF RecordInv
  <2>5. CASE mysub[p] # 0
    <3>1. /\ Len(file') = Len(file) /\ SameElse(p)
          /\ file'[myoff[p]].sub =
               [file[myoff[p]].sub EXCEPT ![mysub[p]] = mybody'[p]]
          /\ mybody'[p].by = p
      BY <1>6, <2>5, Writes DEF SubWritten
    <3>2. myoff[p] \in 1 .. Len(file) /\ mysub[p] \in 1 .. NSub
      BY <1>0, <2>1, <2>5, SizeAssumption DEF Placed, WhoTypeOK
    <3>3. file[myoff[p]].sub \in [1 .. NSub -> Subs]
      BY <3>2, SubType
    <3>4. /\ file'[myoff[p]].sub[mysub[p]] = mybody'[p]
          /\ \A k \in 1 .. Len(file), s \in 1 .. NSub :
               <<k, s>> # <<myoff[p], mysub[p]>>
                 => file'[k].sub[s] = file[k].sub[s]
      BY <3>1, <3>2, <3>3 DEF SameElse
    <3>5. ASSUME NEW k \in 1 .. Len(file), NEW s \in 1 .. NSub,
                 file'[k].sub[s] # NoSub
          PROVE  LET b == file'[k].sub[s] IN
                 /\ myoff[b.by] = k /\ mysub[b.by] = s
                 /\ \/ pc'[b.by] = "killed"
                    \/ pc'[b.by] = "in" /\ mybody'[b.by] = b
      <4>1. CASE k = myoff[p] /\ s = mysub[p]
        BY <2>2, <3>1, <3>4, <4>1
      <4>2. CASE ~(k = myoff[p] /\ s = mysub[p])
        <5>1. file'[k].sub[s] = file[k].sub[s]
          BY <3>4, <4>2
        <5>2. file[k].sub[s].by \in Proc \ {p}
          BY <2>3, <3>5, <4>2, <5>1, SubType
        <5> QED BY <2>2, <3>5, <5>1, <5>2 DEF RecordInv
      <4> QED BY <4>1, <4>2
    <3> QED BY <2>1, <3>1, <3>5 DEF RecordInv
  <2> QED BY <2>4, <2>5
<1>7. ASSUME NEW p \in Proc, NoJoin(p) PROVE RecordInv'
  BY <1>7, RecordKept DEF NoJoin, Goto, WhoTypeOK
<1>8. ASSUME NEW p \in Proc, WhoExit(p) PROVE RecordInv'
  <2>1. pc[p] \in {"naming", "in"} /\ UNCHANGED <<myoff, mysub, mybody>>
    BY <1>8 DEF WhoExit
  <2>2. \A q \in Proc \ {p} : pc'[q] = pc[q]
    BY <1>8 DEF WhoExit, Goto, WhoTypeOK
  <2>3. \A k \in 1 .. Len(file), s \in 1 .. NSub :
          file[k].sub[s] # NoSub /\ file[k].sub[s].by = p
            => k = myoff[p] /\ s = mysub[p]
    BY DEF RecordInv
  <2>4. /\ Len(file') = Len(file)
        /\ \A k \in 1 .. Len(file), s \in 1 .. NSub :
             file'[k].sub[s] # NoSub =>
               /\ file'[k].sub[s] = file[k].sub[s]
               /\ ~(k = myoff[p] /\ s = mysub[p])
    <3>1. CASE mysub[p] = 0
      BY <1>8, <3>1 DEF WhoExit
    <3>2. CASE mysub[p] # 0
      <4>1. /\ Len(file') = Len(file) /\ SameElse(p)
            /\ file'[myoff[p]].sub =
                 [file[myoff[p]].sub EXCEPT ![mysub[p]] = NoSub]
        BY <1>8, <3>2, Writes DEF SubWritten
      <4>2. myoff[p] \in 1 .. Len(file) /\ mysub[p] \in 1 .. NSub
        BY <1>0, <2>1, <3>2, SizeAssumption DEF Placed, WhoTypeOK
      <4>3. file[myoff[p]].sub \in [1 .. NSub -> Subs]
        BY <4>2, SubType
      <4> QED BY <4>1, <4>2, <4>3 DEF SameElse
    <3> QED BY <3>1, <3>2
  <2>5. \A k \in 1 .. Len(file), s \in 1 .. NSub :
          file'[k].sub[s] # NoSub => file[k].sub[s].by \in Proc \ {p}
    BY <2>3, <2>4, SubType
  <2> QED BY <2>1, <2>2, <2>4, <2>5 DEF RecordInv
<1>9. ASSUME NEW p \in Proc, ExitScan(p) PROVE RecordInv'
  BY <1>9, RecordKept DEF ExitScan, Goto, WhoTypeOK
<1>10. ASSUME NEW p \in Proc, ExitHead(p) PROVE RecordInv'
  <2>1. \A k \in 1 .. Len(file'), s \in 1 .. NSub :
          file'[k].sub[s] # NoSub
            => k \in 1 .. Len(file) /\ file'[k].sub[s] = file[k].sub[s]
    <3>1. myoff[p] \in 1 .. Len(file)
      BY <1>0, <1>10 DEF ExitHead, Placed
    <3> QED BY <1>0, <1>10, <3>1, Writes DEF HeadWritten, SameElse
  <2>2. \A q \in Proc : pc[q] \in {"in", "killed"} => pc'[q] = pc[q]
    BY <1>10 DEF ExitHead, Goto, WhoTypeOK
  <2> QED BY <1>10, <2>1, <2>2, RecordKept DEF ExitHead
<1>11. ASSUME NEW p \in Proc, Kill(p) PROVE RecordInv'
  BY <1>11, RecordKept DEF Kill, Goto, WhoTypeOK
<1>12. ASSUME NEW t \in Tty, Login(t) PROVE RecordInv'
  BY <1>12 DEF Login, RecordInv
<1>13. CASE UNCHANGED vars
  BY <1>13 DEF vars, RecordInv
<1> QED
  BY <1>1, <1>2, <1>3, <1>4, <1>5, <1>6, <1>7, <1>8, <1>9, <1>10, <1>11,
     <1>12, <1>13 DEF WhoNext

-----------------------------------------------------------------------------
WhoInv ==
  WhoTypeOK /\ PlaceInv /\ SoleInv /\ EntryInv /\ RecordInv

\* The conjuncts hold to begin with: the file is empty.
LEMMA WhoInvInit == WhoInit => WhoInv
<1> SUFFICES ASSUME WhoInit PROVE WhoInv
  OBVIOUS
<1>1. file = << >> /\ file \in Seq(Entries) /\ Len(file) = 0
  BY EmptySeq DEF WhoInit
<1>2. WhoTypeOK
  BY <1>1, SizeAssumption DEF WhoInit, WhoTypeOK, Labels, NoSub
<1>3. PlaceInv /\ SoleInv /\ EntryInv
  BY DEF WhoInit, PlaceInv, SoleInv, EntryInv, Placed
<1>4. RecordInv
  BY <1>1 DEF RecordInv
<1> QED BY <1>2, <1>3, <1>4 DEF WhoInv

\* And every step of a process or of a login preserves them.
LEMMA WhoInvStep == WhoInv /\ [WhoNext]_vars => WhoInv'
BY WhoTypeStep, PlaceStep, SoleStep, EntryStep, RecordStep DEF WhoInv

\* The pwho file and the variables of party's processes keep their types; each
\* process that looks for its entry stays within the file.
THEOREM WhoTypeCorrect == WhoSpec => []WhoTypeOK
<1>1. WhoInv => WhoTypeOK
  BY DEF WhoInv
<1> QED BY WhoInvInit, WhoInvStep, <1>1, PTL DEF WhoSpec

\* A process in a channel that has its entry to itself, on a tty of its user, is
\* shown by the scans of the pwho file.
LEMMA WhoInvListed == WhoInv => ListedUnlessShared
<1> SUFFICES ASSUME WhoInv, NEW p \in Proc, pc[p] = "in", p \notin shared,
                    OnOwnTty(p), ~Long(User[p]), mysub[p] # 0
             PROVE  Listed(p)
  BY DEF ListedUnlessShared, HasEntry
<1>1. myoff[p] \in 1 .. Len(file) /\ mysub[p] \in 1 .. NSub
  BY SizeAssumption, LenProperties DEF WhoInv, WhoTypeOK, PlaceInv, Placed
<1>2. /\ file[myoff[p]].line = Line[p]
      /\ file[myoff[p]].logname = LogName[User[p]]
      /\ file[myoff[p]].sub[mysub[p]] = mybody[p]
  BY DEF WhoInv, EntryInv
<1>3. mybody[p] # NoSub
  BY PeopleAssumption DEF WhoInv, PlaceInv, NoSub
<1>4. owner[Line[p]] = User[p] /\ User[p] # None
  BY PeopleAssumption DEF OnOwnTty
<1>5. DOMAIN file = 1 .. Len(file)
  BY LenProperties DEF WhoInv, WhoTypeOK
<1> QED BY <1>1, <1>2, <1>3, <1>4, <1>5 DEF Listed, Shown, Valid, Long

\* In every state of every run, whoever is in a channel with an entry to itself
\* is shown there, unless it was started after su or without a tty.
THEOREM WhoListed == WhoSpec => []ListedUnlessShared
BY WhoInvInit, WhoInvStep, WhoInvListed, PTL DEF WhoSpec

\* Whatever the scans show is a process in that channel, or was killed.
THEOREM WhoShownAreIn == WhoSpec => []ShownAreIn
<1>1. WhoInv => ShownAreIn
  <2>1. WhoInv => DOMAIN file = 1 .. Len(file)
    BY LenProperties DEF WhoInv, WhoTypeOK
  <2> QED BY <2>1 DEF WhoInv, ShownAreIn, Shown, RecordInv
<1> QED BY WhoInvInit, WhoInvStep, <1>1, PTL DEF WhoSpec

\* who_empty() is false of a channel in which two processes are shown.
LEMMA WhoInvEmpty == WhoInv => EmptyIsEmpty
<1> SUFFICES ASSUME WhoInv, NEW c \in Channels, NEW p \in Proc, NEW q \in Proc,
                    p # q,
                    \A r \in {p, q} :
                      pc[r] = "in" /\ mybody[r].chan = c /\ HasEntry(r)
             PROVE  ~WhoEmpty(c)
  BY DEF EmptyIsEmpty
<1> DEFINE a == <<myoff[p], mysub[p]>>
           b == <<myoff[q], mysub[q]>>
<1>1. Listed(p) /\ Listed(q)
  BY WhoInvListed DEF ListedUnlessShared
<1>2. a \in On(c) /\ b \in On(c)
  BY <1>1 DEF Listed, On
<1>3. a # b
  BY <1>1 DEF Listed, WhoInv, PlaceInv
<1>4. IsFiniteSet(On(c))
  <2>1. DOMAIN file = 1 .. Len(file) /\ Len(file) \in Nat /\ NSub \in Nat
    BY LenProperties, SizeAssumption DEF WhoInv, WhoTypeOK
  <2>2. IsFiniteSet(1 .. Len(file)) /\ IsFiniteSet(1 .. NSub)
    BY <2>1, FS_Interval
  <2>3. IsFiniteSet((1 .. Len(file)) \X (1 .. NSub))
    BY <2>2, FS_Product
  <2> QED BY <2>1, <2>3, FS_Subset DEF On, Shown
<1> HIDE DEF a, b
<1>5. IsFiniteSet({a, b}) /\ Cardinality({a, b}) = 2
  <2>1. IsFiniteSet({a}) /\ Cardinality({a}) = 1
    BY FS_Singleton
  <2>2. b \notin {a} /\ {a} \cup {b} = {a, b}
    BY <1>3
  <2>3. IsFiniteSet({a} \cup {b}) /\ Cardinality({a} \cup {b}) = 1 + 1
    BY <2>1, <2>2, FS_AddElement
  <2> QED BY <2>2, <2>3
<1>6. Cardinality({a, b}) <= Cardinality(On(c)) /\ Cardinality(On(c)) \in Nat
  BY <1>2, <1>4, FS_Subset, FS_CardinalityType
<1> QED BY <1>5, <1>6 DEF WhoEmpty

\* join_party() does not take a channel for empty, and delete its log file,
\* while two processes are in it that have entries and ttys of their own.
THEOREM WhoEmptyIsEmpty == WhoSpec => []EmptyIsEmpty
BY WhoInvInit, WhoInvStep, WhoInvEmpty, PTL DEF WhoSpec
=============================================================================
