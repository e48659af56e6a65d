-------------------------- MODULE PartyNamesProofs --------------------------
(***************************************************************************)
(* Proofs about the names inside party, module PartyNames: the types, what *)
(* who_uniqalias() computes, and that names are unique unless excused.     *)
(***************************************************************************)
EXTENDS PartyNames, TLAPS

\* checkname() yields a name, and leaves it alone when called again.
LEMMA CheckNameClean ==
  ASSUME NEW n \in Names
  PROVE  CheckName(n) \in Names /\ CheckName(CheckName(n)) = CheckName(n)
BY DEF CheckName, Names

\* The real name of a process is a clean name.
LEMMA RealNameClean ==
  ASSUME NEW p \in Proc
  PROVE  RealName(p) \in Names /\ CheckName(RealName(p)) = RealName(p)
<1>1. Login[Entry[p]] \in Words
  BY PlaceAssumption, NameAssumption
<1>2. RealName(p) \in Names /\ RealName(p).clean = TRUE
  BY <1>1 DEF RealName, Names
<1>3. ASSUME NEW n \in Names, n.clean = TRUE PROVE CheckName(n) = n
  BY <1>3 DEF CheckName, Names
<1> QED BY <1>2, <1>3

\* Taking a name keeps the types.
LEMMA TakeType ==
  ASSUME NamesTypeOK, NEW p \in Proc, NEW n \in Names, NEW c, NEW b,
         Take(p, CheckName(n), c, b)
  PROVE  /\ name' \in [Proc -> Names] /\ excused' \subseteq Proc
         /\ \A q \in Proc : CheckName(name'[q]) = name'[q]
<1> DEFINE a == CheckName(n)
<1>1. a \in Names /\ CheckName(a) = a
  BY CheckNameClean
<1>2. name' = [name EXCEPT ![p] = a] /\ name \in [Proc -> Names]
  BY DEF Take, NamesTypeOK
<1>3. excused' \subseteq Proc
  BY DEF Take, NamesTypeOK
<1>4. \A q \in Proc : CheckName(name[q]) = name[q]
  BY DEF NamesTypeOK
<1> HIDE DEF a
<1>5. \A q \in Proc : name'[q] = IF q = p THEN a ELSE name[q]
  BY <1>2
<1>6. ASSUME NEW q \in Proc PROVE CheckName(name'[q]) = name'[q]
  <2>1. CASE q = p
    BY <1>1, <1>5, <2>1
  <2>2. CASE q # p
    BY <1>4, <1>5, <2>2
  <2> QED BY <2>1, <2>2
<1>7. name' \in [Proc -> Names]
  BY <1>1, <1>2
<1> QED BY <1>3, <1>6, <1>7

\* The end of setname() keeps the types.
LEMMA NamedType ==
  ASSUME NamesTypeOK, NEW p \in Proc, NEW n \in Names, NEW b, Named(p, n, b)
  PROVE  NamesTypeOK'
<1>1. /\ name' \in [Proc -> Names] /\ excused' \subseteq Proc
      /\ \A q \in Proc : CheckName(name'[q]) = name'[q]
  BY TakeType DEF Named
<1>2. /\ pc' \in [Proc -> Labels]
      /\ who' = who /\ channel' = channel /\ newchan' = newchan
  BY DEF Named, NamesTypeOK, Labels
<1> QED BY <1>1, <1>2 DEF NamesTypeOK

-----------------------------------------------------------------------------
(* The invariant.                                                          *)

\* The records show what the processes in the main loop are called there.
RecordInv ==
  \A p \in Proc :
    /\ pc[p] \in {"naming", "inuse", "named"} => newchan[p] \in Channels
    /\ pc[p] \in {"in", "renaming"} =>
         channel[p] \in Channels /\ who[p] # NoRec /\ who[p].chan = channel[p]
    /\ pc[p] = "in" => who[p].alias = name[p]

\* p has a name in channel c, or has just taken one there.
Holds(p, c) ==
  \/ pc[p] = "named" /\ newchan[p] = c
  \/ pc[p] \in {"in", "renaming"} /\ channel[p] = c

\* As UniqueUnlessExcused, from the moment of the check.
DistinctInv ==
  \A p, q \in Proc, c \in Channels :
    Strangers(p, q) /\ Holds(p, c) /\ Holds(q, c) /\ name[p] = name[q]
      => p \in excused \/ q \in excused

NamesInv == NamesTypeOK /\ RecordInv /\ DistinctInv

\* Every step keeps the types.
LEMMA NamesTypeStep ==
  ASSUME NamesTypeOK, RecordInv, [NamesNext]_vars
  PROVE  NamesTypeOK'
<1> USE DEF NamesTypeOK, Labels, Records
<1>1. CASE UNCHANGED vars
  BY <1>1 DEF vars
<1>2. ASSUME NEW p \in Proc, Join(p) PROVE NamesTypeOK'
  BY <1>2 DEF Join
<1>3. ASSUME NEW p \in Proc, GivenName(p) PROVE NamesTypeOK'
  BY <1>3, NamedType, NameAssumption DEF GivenName
<1>4. ASSUME NEW p \in Proc, DefaultName(p) PROVE NamesTypeOK'
  <2>1. Alias[p] \in Names /\ RealName(p) \in Names
    BY NameAssumption, RealNameClean
  <2> QED BY <1>4, <2>1, NamedType DEF DefaultName
<1>5. ASSUME NEW p \in Proc, AskedNone(p) PROVE NamesTypeOK'
  <2>1. Alias[p] \in Names /\ RealName(p) \in Names
    BY NameAssumption, RealNameClean
  <2> QED BY <1>5, <2>1, NamedType DEF AskedNone
<1>6. ASSUME NEW p \in Proc, AskedGiven(p) PROVE NamesTypeOK'
  BY <1>6, NamedType, NameAssumption DEF AskedGiven
<1>7. ASSUME NEW p \in Proc, AskedInUse(p) PROVE NamesTypeOK'
  BY <1>7 DEF AskedInUse
<1>8. ASSUME NEW p \in Proc, WhoChan(p) PROVE NamesTypeOK'
  <2>1. newchan[p] \in Channels
    BY <1>8 DEF WhoChan, RecordInv
  <2> QED BY <1>8, <2>1 DEF WhoChan
<1>9. ASSUME NEW p \in Proc, NameCommand(p) PROVE NamesTypeOK'
  <2>1. PICK t \in Names :
          Take(p, CheckName(t), channel[p], channel[p] \in UniqueName /\ t.clean)
    BY <1>9, NameAssumption DEF NameCommand
  <2>2. /\ name' \in [Proc -> Names] /\ excused' \subseteq Proc
        /\ \A q \in Proc : CheckName(name'[q]) = name'[q]
    BY <2>1, TakeType
  <2> QED BY <1>9, <2>2 DEF NameCommand
<1>10. ASSUME NEW p \in Proc, ChangeName(p) PROVE NamesTypeOK'
  <2>1. who[p] \in [alias : Names, chan : Channels]
    BY <1>10 DEF ChangeName, RecordInv
  <2>2. [who[p] EXCEPT !.alias = name[p]] \in [alias : Names, chan : Channels]
    BY <2>1
  <2> QED BY <1>10, <2>2 DEF ChangeName
<1>11. ASSUME NEW p \in Proc, Leave(p) PROVE NamesTypeOK'
  <2>1. RealName(p) \in Names /\ CheckName(RealName(p)) = RealName(p)
    BY RealNameClean
  <2>2. \A q \in Proc : CheckName(name'[q]) = name'[q]
    BY <1>11, <2>1 DEF Leave
  <2> QED BY <1>11, <2>1, <2>2 DEF Leave
<1> QED BY <1>1, <1>2, <1>3, <1>4, <1>5, <1>6, <1>7, <1>8, <1>9, <1>10, <1>11
        DEF NamesNext

\* Every step keeps the records right.
LEMMA RecordStep ==
  ASSUME NamesTypeOK, RecordInv, [NamesNext]_vars
  PROVE  RecordInv'
<1> USE DEF NamesTypeOK, RecordInv
<1>1. CASE UNCHANGED vars
  BY <1>1 DEF vars
<1>2. ASSUME NEW p \in Proc, Join(p) PROVE RecordInv'
  BY <1>2 DEF Join
<1>3. ASSUME NEW p \in Proc, NEW n, NEW b, Named(p, n, b),
             pc[p] \in {"naming", "inuse"}
      PROVE  RecordInv'
  BY <1>3 DEF Named, Take
<1>4. ASSUME NEW p \in Proc, GivenName(p) PROVE RecordInv'
  BY <1>3, <1>4 DEF GivenName
<1>5. ASSUME NEW p \in Proc, DefaultName(p) PROVE RecordInv'
  BY <1>3, <1>5 DEF DefaultName
<1>6. ASSUME NEW p \in Proc, AskedNone(p) PROVE RecordInv'
  BY <1>3, <1>6 DEF AskedNone
<1>7. ASSUME NEW p \in Proc, AskedGiven(p) PROVE RecordInv'
  BY <1>3, <1>7 DEF AskedGiven
<1>8. ASSUME NEW p \in Proc, AskedInUse(p) PROVE RecordInv'
  BY <1>8 DEF AskedInUse
<1>9. ASSUME NEW p \in Proc, WhoChan(p) PROVE RecordInv'
  <2>1. newchan[p] \in Channels /\ newchan[p] # None
    BY <1>9, OptionAssumption DEF WhoChan
  <2>2. [alias |-> name[p], chan |-> newchan[p]] # NoRec
    BY <2>1 DEF NoRec
  <2> QED BY <1>9, <2>1, <2>2 DEF WhoChan
<1>10. ASSUME NEW p \in Proc, NameCommand(p) PROVE RecordInv'
  BY <1>10 DEF NameCommand, Take
<1>11. ASSUME NEW p \in Proc, ChangeName(p) PROVE RecordInv'
  <2>1. who[p] \in [alias : Names, chan : Channels] /\ who[p].chan = channel[p]
        /\ channel[p] \in Channels
    BY <1>11 DEF ChangeName, Records
  <2>2. who'[p] = [who[p] EXCEPT !.alias = name[p]]
    BY <1>11 DEF ChangeName
  <2>3. who'[p].chan = channel[p] /\ who'[p].alias = name[p]
    BY <2>1, <2>2
  <2>4. who'[p] # NoRec
    BY <2>1, <2>3, OptionAssumption DEF NoRec
  <2> QED BY <1>11, <2>1, <2>3, <2>4 DEF ChangeName
<1>12. ASSUME NEW p \in Proc, Leave(p) PROVE RecordInv'
  BY <1>12 DEF Leave
<1> QED BY <1>1, <1>2, <1>4, <1>5, <1>6, <1>7, <1>8, <1>9, <1>10, <1>11, <1>12
        DEF NamesNext

-----------------------------------------------------------------------------
(* What who_uniqalias() computes.                                          *)

\* If every entry with a record has a first one, the scan skips exactly the
\* entries of p's own login.
LEMMA SkipsOwn ==
  ASSUME ~Headless, NEW p \in Proc, NEW q \in Proc, who[q] # NoRec
  PROVE  Skipping(p, Entry[q]) <=> ~Strangers(p, q)
<1>1. PICK r \in Proc : Entry[r] = Entry[q] /\ Sub[r] = 1 /\ who[r] # NoRec
  BY DEF Headless
<1>2. \A s \in Proc : Entry[s] \in Int
  BY PlaceAssumption
<1>3. ASSUME Skipping(p, Entry[q]) PROVE ~Strangers(p, q)
  <2>1. PICK s \in Proc :
          /\ Sub[s] = 1 /\ Entry[s] <= Entry[q] /\ who[s] # NoRec
          /\ Login[Entry[s]] = Login[Entry[p]]
          /\ \A t \in Proc :
               Sub[t] = 1 /\ who[t] # NoRec /\ Entry[t] <= Entry[q]
                 => Entry[t] <= Entry[s]
    BY <1>3 DEF Skipping
  <2>2. Entry[r] <= Entry[s]
    BY <1>1, <1>2, <2>1
  <2>3. Entry[s] = Entry[q]
    BY <1>1, <1>2, <2>1, <2>2
  <2> QED BY <2>1, <2>3 DEF Strangers
<1>4. ASSUME ~Strangers(p, q) PROVE Skipping(p, Entry[q])
  <2>1. Login[Entry[r]] = Login[Entry[p]]
    BY <1>1, <1>4 DEF Strangers
  <2>2. Entry[r] <= Entry[q] /\ Sub[r] = 1 /\ who[r] # NoRec
    BY <1>1, <1>2
  <2>3. \A t \in Proc : Sub[t] = 1 /\ who[t] # NoRec /\ Entry[t] <= Entry[q]
                         => Entry[t] <= Entry[r]
    BY <1>1
  <2> QED BY <2>1, <2>2, <2>3 DEF Skipping
<1> QED BY <1>3, <1>4

\* So it looks at the records of all other users in the channel.
LEMMA UniqAliasMeans ==
  ASSUME ~Headless, NEW p \in Proc, NEW a, NEW c
  PROVE  UniqAlias(p, a, c) <=> ~UsedByOthers(p, a, c)
<1>1. \A q \in Proc :
        who[q] # NoRec => (Skipping(p, Entry[q]) <=> ~Strangers(p, q))
  BY SkipsOwn
<1> QED BY <1>1 DEF UniqAlias, UsedByOthers

-----------------------------------------------------------------------------
(* Unique names.                                                           *)

\* A name that p has looked up in c with success is no one else's there.
LEMMA LookedUp ==
  ASSUME NamesInv, NEW p \in Proc, NEW a, NEW c \in Channels,
         ~Headless, ~Racing(p, a, c), UniqAlias(p, a, c)
  PROVE  \A q \in Proc : Strangers(p, q) /\ Holds(q, c) => name[q] # a
<1> SUFFICES ASSUME NEW q \in Proc, Strangers(p, q), Holds(q, c), name[q] = a
             PROVE  FALSE
  OBVIOUS
<1>1. q # p
  BY DEF Strangers
<1>2. pc[q] = "in" /\ channel[q] = c
  BY <1>1 DEF Racing, Holds
<1>3. who[q] # NoRec /\ who[q].chan = c /\ who[q].alias = a
  BY <1>2 DEF NamesInv, RecordInv
<1>4. UsedByOthers(p, a, c)
  BY <1>3 DEF UsedByOthers
<1> QED BY <1>4, UniqAliasMeans

\* Taking a name in c, after looking it up or with an excuse, keeps names apart.
LEMMA TakeDistinct ==
  ASSUME NamesInv, NEW p \in Proc, NEW a, NEW c \in Channels,
         name' = [name EXCEPT ![p] = a],
         \/ /\ excused' = excused \ {p}
            /\ ~Headless /\ ~Racing(p, a, c) /\ UniqAlias(p, a, c)
         \/ excused' = excused \cup {p},
         \A q \in Proc \ {p}, d \in Channels : Holds(q, d)' <=> Holds(q, d),
         \A d \in Channels : Holds(p, d)' => d = c
  PROVE  DistinctInv'
<1>1. /\ p \in Proc /\ name \in [Proc -> Names] /\ excused \subseteq Proc
      /\ DistinctInv
  BY DEF NamesInv, NamesTypeOK
<1>2. \A q \in Proc \ {p} : name'[q] = name[q] /\ (q \in excused' <=> q \in excused)
  BY <1>1
<1>3. name'[p] = a
  BY <1>1
<1>4. ASSUME NEW q \in Proc, Strangers(p, q), Holds(q, c), name[q] = a
      PROVE  p \in excused'
  <2>1. ~(~Headless /\ ~Racing(p, a, c) /\ UniqAlias(p, a, c))
    BY <1>4, LookedUp
  <2> QED BY <2>1
<1>5. ASSUME NEW q \in Proc, NEW r \in Proc, NEW d \in Channels,
             Strangers(q, r), Holds(q, d)', Holds(r, d)', name'[q] = name'[r]
      PROVE  q \in excused' \/ r \in excused'
  <2>0. q # r
    BY <1>5 DEF Strangers
  <2>1. CASE q # p /\ r # p
    <3>1. Holds(q, d) /\ Holds(r, d) /\ name[q] = name[r]
      BY <1>2, <1>5, <2>1
    <3>2. q \in excused \/ r \in excused
      BY <1>1, <1>5, <3>1 DEF DistinctInv
    <3> QED BY <1>2, <2>1, <3>2
  <2>2. CASE q = p
    <3>1. d = c /\ Holds(r, c) /\ name[r] = a
      BY <1>2, <1>3, <1>5, <2>0, <2>2
    <3> QED BY <1>4, <1>5, <2>2, <3>1
  <2>3. CASE r = p
    <3>1. d = c /\ Holds(q, c) /\ name[q] = a
      BY <1>2, <1>3, <1>5, <2>0, <2>3
    <3>2. Strangers(p, q)
      BY <1>5, <2>3 DEF Strangers
    <3> QED BY <1>4, <2>3, <3>1, <3>2
  <2> QED BY <2>1, <2>2, <2>3
<1>6. \A q, r \in Proc : Strangers(q, r)' <=> Strangers(q, r)
  BY DEF Strangers
<1> QED BY <1>5, <1>6 DEF DistinctInv

\* A step after which nobody holds a name that he did not hold before keeps
\* names apart.
LEMMA FewerDistinct ==
  ASSUME NamesInv, NEW p \in Proc,
         \A q \in Proc, d \in Channels :
           Holds(q, d)' => Holds(q, d) /\ name'[q] = name[q]
                           /\ (q \in excused => q \in excused')
  PROVE  DistinctInv'
<1>1. DistinctInv
  BY DEF NamesInv
<1>2. ASSUME NEW q \in Proc, NEW r \in Proc, NEW d \in Channels,
             Strangers(q, r), Holds(q, d)', Holds(r, d)', name'[q] = name'[r]
      PROVE  q \in excused' \/ r \in excused'
  <2>1. Holds(q, d) /\ Holds(r, d) /\ name[q] = name[r]
    BY <1>2
  <2>2. q \in excused \/ r \in excused
    BY <1>1, <1>2, <2>1 DEF DistinctInv
  <2> QED BY <1>2, <2>2
<1>3. \A q, r \in Proc : Strangers(q, r)' <=> Strangers(q, r)
  BY DEF Strangers
<1> QED BY <1>2, <1>3 DEF DistinctInv

\* Every step keeps names apart.
LEMMA DistinctStep ==
  ASSUME NamesInv, [NamesNext]_vars
  PROVE  DistinctInv'
<1>1. NamesTypeOK /\ RecordInv /\ DistinctInv
  BY DEF NamesInv
<1>2. CASE UNCHANGED vars
  <2>1. \A q \in Proc, d \in Channels :
          Holds(q, d)' => Holds(q, d) /\ name'[q] = name[q]
                          /\ (q \in excused => q \in excused')
    BY <1>2 DEF vars, Holds
  <2> QED BY <1>1, <1>2 DEF vars, DistinctInv, Holds, Strangers
<1>3. ASSUME NEW p \in Proc, Join(p) PROVE DistinctInv'
  <2>1. \A q \in Proc, d \in Channels :
          Holds(q, d)' => Holds(q, d) /\ name'[q] = name[q]
                          /\ (q \in excused => q \in excused')
    BY <1>1, <1>3 DEF Join, Holds, NamesTypeOK
  <2> QED BY <2>1, FewerDistinct
<1>4. ASSUME NEW p \in Proc, NEW n, NEW b \in BOOLEAN, Named(p, n, b),
             pc[p] \in {"naming", "inuse"},
             b => \/ CheckName(n) = RealName(p)
                  \/ UniqAlias(p, CheckName(n), newchan[p])
      PROVE  DistinctInv'
  <2>1. newchan[p] \in Channels
    BY <1>1, <1>4 DEF RecordInv
  <2>2. PICK c \in Channels : c = newchan[p]
    BY <2>1
  <2>a. PICK a : a = CheckName(n)
    OBVIOUS
  <2>3. name' = [name EXCEPT ![p] = a]
    BY <1>4, <2>a DEF Named, Take
  <2>4. \/ /\ excused' = excused \ {p}
           /\ ~Headless /\ ~Racing(p, a, c) /\ UniqAlias(p, a, c)
        \/ excused' = excused \cup {p}
    BY <1>4, <2>2, <2>a DEF Named, Take, Racing, UniqAlias
  <2>5. \A q \in Proc \ {p}, d \in Channels : Holds(q, d)' <=> Holds(q, d)
    BY <1>1, <1>4 DEF Named, Holds, NamesTypeOK
  <2>6. \A d \in Channels : Holds(p, d)' => d = c
    BY <1>1, <1>4, <2>2 DEF Named, Holds, NamesTypeOK
  <2> QED BY <2>3, <2>4, <2>5, <2>6, TakeDistinct
<1>5. ASSUME NEW p \in Proc, GivenName(p) PROVE DistinctInv'
  BY <1>4, <1>5 DEF GivenName
<1>6. ASSUME NEW p \in Proc, DefaultName(p) PROVE DistinctInv'
  BY <1>4, <1>6 DEF DefaultName
<1>7. ASSUME NEW p \in Proc, AskedNone(p) PROVE DistinctInv'
  BY <1>4, <1>7 DEF AskedNone
<1>8. ASSUME NEW p \in Proc, AskedGiven(p) PROVE DistinctInv'
  BY <1>4, <1>8 DEF AskedGiven
<1>9. ASSUME NEW p \in Proc, AskedInUse(p) PROVE DistinctInv'
  <2>1. \A q \in Proc, d \in Channels :
          Holds(q, d)' => Holds(q, d) /\ name'[q] = name[q]
                          /\ (q \in excused => q \in excused')
    BY <1>1, <1>9 DEF AskedInUse, Holds, NamesTypeOK
  <2> QED BY <2>1, FewerDistinct
<1>10. ASSUME NEW p \in Proc, WhoChan(p) PROVE DistinctInv'
  <2>1. \A q \in Proc, d \in Channels :
          Holds(q, d)' => Holds(q, d) /\ name'[q] = name[q]
                          /\ (q \in excused => q \in excused')
    BY <1>1, <1>10 DEF WhoChan, Holds, NamesTypeOK
  <2> QED BY <2>1, FewerDistinct
<1>11. ASSUME NEW p \in Proc, NameCommand(p) PROVE DistinctInv'
  <2>1. PICK t \in Names :
          /\ MayTake(p, t)
          /\ Take(p, CheckName(t), channel[p], channel[p] \in UniqueName /\ t.clean)
    BY <1>11, NameAssumption DEF NameCommand
  <2>2. channel[p] \in Channels
    BY <1>1, <1>11 DEF NameCommand, RecordInv
  <2>3. PICK c \in Channels : c = channel[p]
    BY <2>2
  <2>a. PICK a : a = CheckName(t)
    OBVIOUS
  <2>4. t.clean => a = t
    BY <2>a DEF CheckName, Names
  <2>5. name' = [name EXCEPT ![p] = a]
    BY <2>1, <2>a DEF Take
  <2>6. \/ /\ excused' = excused \ {p}
           /\ ~Headless /\ ~Racing(p, a, c) /\ UniqAlias(p, a, c)
        \/ excused' = excused \cup {p}
    BY <2>1, <2>3, <2>4, <2>a DEF Take, MayTake, Racing, UniqAlias
  <2>7. \A q \in Proc \ {p}, d \in Channels : Holds(q, d)' <=> Holds(q, d)
    BY <1>1, <1>11 DEF NameCommand, Holds, NamesTypeOK
  <2>8. \A d \in Channels : Holds(p, d)' => d = c
    BY <1>1, <1>11, <2>3 DEF NameCommand, Holds, NamesTypeOK
  <2> QED BY <2>5, <2>6, <2>7, <2>8, TakeDistinct
<1>12. ASSUME NEW p \in Proc, ChangeName(p) PROVE DistinctInv'
  <2>1. \A q \in Proc, d \in Channels :
          Holds(q, d)' => Holds(q, d) /\ name'[q] = name[q]
                          /\ (q \in excused => q \in excused')
    BY <1>1, <1>12 DEF ChangeName, Holds, NamesTypeOK
  <2> QED BY <2>1, FewerDistinct
<1>13. ASSUME NEW p \in Proc, Leave(p) PROVE DistinctInv'
  <2>1. \A q \in Proc, d \in Channels :
          Holds(q, d)' => Holds(q, d) /\ name'[q] = name[q]
                          /\ (q \in excused => q \in excused')
    BY <1>1, <1>13 DEF Leave, Holds, NamesTypeOK
  <2> QED BY <2>1, FewerDistinct
<1> QED BY <1>2, <1>3, <1>5, <1>6, <1>7, <1>8, <1>9, <1>10, <1>11, <1>12, <1>13
        DEF NamesNext

\* The invariant holds in every reachable state.
LEMMA NamesInvariant == NamesSpec => []NamesInv
<1>1. NamesInit => NamesInv
  <2> SUFFICES ASSUME NamesInit PROVE NamesInv
    OBVIOUS
  <2>1. \A p \in Proc : RealName(p) \in Names /\ CheckName(RealName(p)) = RealName(p)
    BY RealNameClean
  <2>2. NamesTypeOK
    BY <2>1 DEF NamesInit, NamesTypeOK, Labels, Records
  <2>3. RecordInv
    BY DEF NamesInit, RecordInv
  <2>4. DistinctInv
    BY DEF NamesInit, DistinctInv, Holds
  <2> QED BY <2>2, <2>3, <2>4 DEF NamesInv
<1>2. NamesInv /\ [NamesNext]_vars => NamesInv'
  BY NamesTypeStep, RecordStep, DistinctStep DEF NamesInv
<1> QED BY <1>1, <1>2, PTL DEF NamesSpec

-----------------------------------------------------------------------------
\* The names, records and channels of all processes keep their types, and every
\* name in use is one that checkname() leaves alone.
THEOREM NamesTypeCorrect == NamesSpec => []NamesTypeOK
<1>1. NamesInv => NamesTypeOK
  BY DEF NamesInv
<1> QED BY <1>1, NamesInvariant, PTL

\* Two users in a channel have different names, unless one of them took his
\* without a check of who_uniqalias() that counts.
THEOREM NamesUnique == NamesSpec => []UniqueUnlessExcused
<1>1. NamesInv => UniqueUnlessExcused
  <2> SUFFICES ASSUME NamesInv, NEW p \in Proc, NEW q \in Proc,
                      Strangers(p, q), Same(p, q)
               PROVE  p \in excused \/ q \in excused
    BY DEF UniqueUnlessExcused
  <2>1. channel[p] \in Channels /\ Holds(p, channel[p]) /\ Holds(q, channel[p])
    BY DEF NamesInv, RecordInv, Same, Holds
  <2> QED BY <2>1 DEF NamesInv, DistinctInv, Same
<1> QED BY <1>1, NamesInvariant, PTL

\* who_uniqalias() computes what it promises, in every state in which each entry
\* with a record has a first one.
THEOREM NamesUniqAgrees == NamesSpec => []UniqAgrees
<1>1. UniqAgrees
  BY UniqAliasMeans DEF UniqAgrees
<1> QED BY <1>1, PTL
=============================================================================
