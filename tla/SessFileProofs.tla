--------------------------- MODULE SessFileProofs ---------------------------
(***************************************************************************)
(* Proofs about SessFile: its invariants, and that it implements Sessions. *)
(***************************************************************************)
EXTENDS SessFile, TLAPS

USE DEF Cookies, Miss

\* Whoever is in new_session()'s or session_delete()'s loop has the lock.
LockInv == \A p \in Proc : lock = p <=> pc[p] \in {"scan", "delete", "erase"}

\* What the calls have in their local variables.
CallInv ==
  \A p \in Proc :
    /\ pc[p] \in {"wantnew", "scan"} => sid[p] \in Sids
    /\ pc[p] \in {"touch", "wantnew", "scan"} => user[p] \in Users
    /\ pc[p] \in {"idle", "script", "wantnew", "wantdel"} => pos[p] = 1 /\ seek[p] = 0
    /\ pc[p] \in InCall => now[p] <= clock /\ clock <= now[p] + Lifetime

\* All entries have a user, erased ones too, and there is nothing behind the end.
FileInv ==
  \A i \in 1 .. Slots :
    /\ i <= size => file[i].user \in Users
    /\ file[i].id # NoSid => i <= size

\* What a locked scan has passed is not the id it looks for.
ScanInv ==
  \A p \in Proc :
    /\ pc[p] \in {"scan", "delete"} =>
         \A i \in 1 .. size : i < pos[p] => file[i].id # sid[p]
    /\ pc[p] = "erase" => pos[p] <= size /\ file[pos[p]].id = sid[p]
    /\ pc[p] = "scan" => seek[p] < pos[p] /\ seek[p] <= size

\* A lookup has its session before it, or the session has been missing; the
\* entry it is going to write still holds its session, or a younger one.
LookOK(p) ==
  /\ pc[p] = "look" =>
       sid[p] = NoSid \/ p \in missing \/ \E i \in 1 .. size : pos[p] <= i /\ file[i].id = sid[p]
  /\ pc[p] = "touch" =>
       /\ sid[p] = NoSid \/ p \in missing \/ file[pos[p]].id = sid[p]
       /\ \/ file[pos[p]].id \in {NoSid, sid[p]}
          \/ now[p] <= used[file[pos[p]].id]

LookInv == \A p \in Proc : LookOK(p)

UsedInv == \A s \in Sids : used[s] <= clock

MissInv == \A p \in missing : Asking(p)

\* The inductive invariant.
SessInv ==
  /\ SessTypeOK /\ LockInv /\ CallInv /\ FileInv /\ ScanInv /\ LookInv
  /\ UsedInv /\ MissInv /\ UniqueIds /\ TimeHonest

-----------------------------------------------------------------------------
(* The invariant is inductive: one lemma per action.                       *)

\* An entry without its id, and with a time of its own.
Erased(e, t) == [e EXCEPT !.id = NoSid, !.time = t]

\* What is written back is an entry.
LEMMA EntryTypes ==
  \A e \in Entries : \A t \in 0 .. MaxClock :
    [e EXCEPT !.time = t] \in Entries /\ Erased(e, t) \in Entries
  BY DEF Entries, Erased

LEMMA AnonymousInv ==
  ASSUME SessInv, NEW p \in Proc, NEW s \in Cookies \cup {NoCookie}, Anonymous(p, s)
  PROVE  SessInv'
<1>1. SessTypeOK'
  BY SessAssumption DEF Anonymous, CallInv, Entries, LookInv, NoEntry, PCs, ScanInv, SessInv, SessTypeOK
<1>2. LockInv'
  BY SessAssumption DEF Anonymous, LockInv, SessInv, SessTypeOK
<1>3. CallInv'
  BY SessAssumption DEF Anonymous, CallInv, Entries, FileInv, InCall, SessInv, SessTypeOK
<1>4. FileInv'
  BY SessAssumption DEF Anonymous, CallInv, FileInv, NoEntry, ScanInv, SessInv, SessTypeOK
<1>5. ScanInv'
  BY SessAssumption DEF Anonymous, CallInv, LockInv, ScanInv, SessInv, SessTypeOK
<1>6. LookInv'
  BY SessAssumption DEF Anonymous, CallInv, FileInv, LockInv, LookInv, LookOK, ScanInv, SessInv, SessTypeOK, UsedInv
<1>7. UsedInv'
  BY SessAssumption DEF Anonymous, SessInv, SessTypeOK, UsedInv
<1>8. UniqueIds'
  BY SessAssumption DEF Anonymous, CallInv, FileInv, LockInv, ScanInv, SessInv, SessTypeOK, UniqueIds
<1>9. TimeHonest'
  BY SessAssumption DEF Anonymous, CallInv, FileInv, LookInv, ScanInv, SessInv, SessTypeOK, TimeHonest, UniqueIds, UsedInv
<1>10. MissInv'
  BY SessAssumption DEF Anonymous, Asking, LockInv, MissInv, SessInv, SessTypeOK
<1> QED
  BY <1>1, <1>2, <1>3, <1>4, <1>5, <1>6, <1>7, <1>8, <1>9, <1>10 DEF SessInv

LEMMA LookupInv ==
  ASSUME SessInv, NEW p \in Proc, NEW s \in Cookies, Lookup(p, s)
  PROVE  SessInv'
<1>1. SessTypeOK'
  <2>1. file' \in [1 .. Slots -> Entries]
    BY SessAssumption DEF CallInv, Entries, Lookup, NoEntry, Present, ScanInv, SessInv, SessTypeOK
  <2>2. size' \in 0 .. Slots
    BY SessAssumption DEF CallInv, Lookup, Present, ScanInv, SessInv, SessTypeOK
  <2>3. lock' \in Proc \cup {NoProc} /\ clock' \in 0 .. MaxClock
    BY SessAssumption DEF CallInv, Lookup, Present, SessInv, SessTypeOK
  <2>4. pc' \in [Proc -> PCs]
    BY SessAssumption DEF CallInv, Lookup, PCs, Present, SessInv, SessTypeOK
  <2>5. mysid' \in [Proc -> Cookies \cup {NoCookie}] /\ sid' \in [Proc -> Cookies]
    BY SessAssumption DEF CallInv, Lookup, Present, SessInv, SessTypeOK
  <2>6. user' \in [Proc -> Users \cup {NoUser}]
    BY SessAssumption DEF CallInv, Entries, FileInv, Lookup, Present, SessInv, SessTypeOK
  <2>7. now' \in [Proc -> 0 .. MaxClock]
    BY SessAssumption DEF CallInv, Lookup, Present, SessInv, SessTypeOK
  <2>8. pos' \in [Proc -> 1 .. Slots + 1]
    BY SessAssumption DEF CallInv, Lookup, Present, SessInv, SessTypeOK
  <2>9. seek' \in [Proc -> 0 .. Slots]
    BY SessAssumption DEF CallInv, Lookup, Present, ScanInv, SessInv, SessTypeOK
  <2>10. retry' \in [Proc -> 0 .. MaxRetry]
    BY SessAssumption DEF CallInv, Lookup, Present, SessInv, SessTypeOK
  <2>11. used' \in [Sids -> 0 .. MaxClock] /\ missing' \subseteq Proc
    BY SessAssumption DEF CallInv, Lookup, Present, SessInv, SessTypeOK
  <2>12. \A q \in Proc : pc'[q] = "touch" => pos'[q] <= size'
    BY SessAssumption DEF CallInv, Lookup, Present, ScanInv, SessInv, SessTypeOK
  <2> QED
    BY <2>1, <2>2, <2>3, <2>4, <2>5, <2>6, <2>7, <2>8, <2>9, <2>10, <2>11, <2>12 DEF SessTypeOK
<1>2. LockInv'
  BY SessAssumption DEF LockInv, Lookup, Present, SessInv, SessTypeOK
<1>3. CallInv'
  BY SessAssumption DEF CallInv, Entries, FileInv, InCall, Lookup, Present, SessInv, SessTypeOK
<1>4. FileInv'
  BY SessAssumption DEF CallInv, FileInv, Lookup, NoEntry, Present, ScanInv, SessInv, SessTypeOK
<1>5. ScanInv'
  BY SessAssumption DEF CallInv, LockInv, Lookup, Present, ScanInv, SessInv, SessTypeOK
<1>6. LookInv'
  <2> SUFFICES ASSUME NEW q \in Proc
               PROVE  LookOK(q)'
    BY DEF LookInv
  <2>1. LookOK(q)
    BY DEF SessInv, LookInv
  <2>2. CASE q = p
    <3>1. pos[p] = 1
      BY DEF SessInv, CallInv, Lookup
    <3> QED
      BY <2>2, <3>1 DEF SessInv, SessTypeOK, LookOK, Lookup, Present
  <2>3. CASE q # p
    BY <2>1, <2>3 DEF SessInv, SessTypeOK, LookOK, Lookup
  <2> QED
    BY <2>2, <2>3
<1>7. UsedInv'
  BY SessAssumption DEF Lookup, Present, SessInv, SessTypeOK, UsedInv
<1>8. UniqueIds'
  BY SessAssumption DEF CallInv, FileInv, LockInv, Lookup, Present, ScanInv, SessInv, SessTypeOK, UniqueIds
<1>9. TimeHonest'
  BY SessAssumption DEF CallInv, FileInv, LookInv, Lookup, Present, ScanInv, SessInv, SessTypeOK, TimeHonest, UniqueIds, UsedInv
<1>10. MissInv'
  BY SessAssumption DEF Asking, LockInv, Lookup, MissInv, Present, SessInv, SessTypeOK
<1> QED
  BY <1>1, <1>2, <1>3, <1>4, <1>5, <1>6, <1>7, <1>8, <1>9, <1>10 DEF SessInv

LEMMA LookNextInv ==
  ASSUME SessInv, NEW p \in Proc, LookNext(p)
  PROVE  SessInv'
<1>1. SessTypeOK'
  <2>1. file' \in [1 .. Slots -> Entries]
    BY SessAssumption DEF CallInv, Entries, LookNext, NoEntry, ScanInv, SessInv, SessTypeOK
  <2>2. size' \in 0 .. Slots
    BY SessAssumption DEF CallInv, LookNext, ScanInv, SessInv, SessTypeOK
  <2>3. lock' \in Proc \cup {NoProc} /\ clock' \in 0 .. MaxClock
    BY SessAssumption DEF CallInv, LookNext, SessInv, SessTypeOK
  <2>4. pc' \in [Proc -> PCs]
    BY SessAssumption DEF CallInv, LookNext, PCs, SessInv, SessTypeOK
  <2>5. mysid' \in [Proc -> Cookies \cup {NoCookie}] /\ sid' \in [Proc -> Cookies]
    BY SessAssumption DEF CallInv, LookNext, SessInv, SessTypeOK
  <2>6. user' \in [Proc -> Users \cup {NoUser}]
    BY SessAssumption DEF CallInv, Entries, FileInv, LookNext, SessInv, SessTypeOK
  <2>7. now' \in [Proc -> 0 .. MaxClock]
    BY SessAssumption DEF CallInv, LookNext, SessInv, SessTypeOK
  <2>8. pos' \in [Proc -> 1 .. Slots + 1]
    BY SessAssumption DEF CallInv, LookNext, SessInv, SessTypeOK
  <2>9. seek' \in [Proc -> 0 .. Slots]
    BY SessAssumption DEF CallInv, LookNext, ScanInv, SessInv, SessTypeOK
  <2>10. retry' \in [Proc -> 0 .. MaxRetry]
    BY SessAssumption DEF CallInv, LookNext, SessInv, SessTypeOK
  <2>11. used' \in [Sids -> 0 .. MaxClock] /\ missing' \subseteq Proc
    BY SessAssumption DEF CallInv, LookNext, SessInv, SessTypeOK
  <2>12. \A q \in Proc : pc'[q] = "touch" => pos'[q] <= size'
    BY SessAssumption DEF CallInv, LookNext, ScanInv, SessInv, SessTypeOK
  <2> QED
    BY <2>1, <2>2, <2>3, <2>4, <2>5, <2>6, <2>7, <2>8, <2>9, <2>10, <2>11, <2>12 DEF SessTypeOK
<1>2. LockInv'
  BY SessAssumption DEF LockInv, LookNext, SessInv, SessTypeOK
<1>3. CallInv'
  BY SessAssumption DEF CallInv, Entries, FileInv, InCall, LookNext, SessInv, SessTypeOK
<1>4. FileInv'
  BY SessAssumption DEF CallInv, FileInv, LookNext, NoEntry, ScanInv, SessInv, SessTypeOK
<1>5. ScanInv'
  BY SessAssumption DEF CallInv, LockInv, LookNext, ScanInv, SessInv, SessTypeOK
<1>6. LookInv'
  <2> SUFFICES ASSUME NEW q \in Proc
               PROVE  LookOK(q)'
    BY DEF LookInv
  <2>1. LookOK(q) /\ pos[p] \in Int /\ size \in Nat
    BY DEF SessInv, LookInv, SessTypeOK
  <2>2. CASE q = p
    BY <2>1, <2>2 DEF SessInv, SessTypeOK, LookOK, LookNext
  <2>3. CASE q # p
    BY <2>1, <2>3 DEF SessInv, SessTypeOK, LookOK, LookNext
  <2> QED
    BY <2>2, <2>3
<1>7. UsedInv'
  BY SessAssumption DEF LookNext, SessInv, SessTypeOK, UsedInv
<1>8. UniqueIds'
  BY SessAssumption DEF CallInv, FileInv, LockInv, LookNext, ScanInv, SessInv, SessTypeOK, UniqueIds
<1>9. TimeHonest'
  BY SessAssumption DEF CallInv, FileInv, LookInv, LookNext, ScanInv, SessInv, SessTypeOK, TimeHonest, UniqueIds, UsedInv
<1>10. MissInv'
  BY SessAssumption DEF Asking, LockInv, LookNext, MissInv, SessInv, SessTypeOK
<1> QED
  BY <1>1, <1>2, <1>3, <1>4, <1>5, <1>6, <1>7, <1>8, <1>9, <1>10 DEF SessInv

LEMMA LookFoundInv ==
  ASSUME SessInv, NEW p \in Proc, LookFound(p)
  PROVE  SessInv'
<1>1. SessTypeOK'
  <2>1. file' \in [1 .. Slots -> Entries]
    BY SessAssumption DEF CallInv, Entries, LookFound, NoEntry, ScanInv, SessInv, SessTypeOK
  <2>2. size' \in 0 .. Slots
    BY SessAssumption DEF CallInv, LookFound, ScanInv, SessInv, SessTypeOK
  <2>3. lock' \in Proc \cup {NoProc} /\ clock' \in 0 .. MaxClock
    BY SessAssumption DEF CallInv, LookFound, SessInv, SessTypeOK
  <2>4. pc' \in [Proc -> PCs]
    BY SessAssumption DEF CallInv, LookFound, PCs, SessInv, SessTypeOK
  <2>5. mysid' \in [Proc -> Cookies \cup {NoCookie}] /\ sid' \in [Proc -> Cookies]
    BY SessAssumption DEF CallInv, LookFound, SessInv, SessTypeOK
  <2>6. user' \in [Proc -> Users \cup {NoUser}]
    BY SMTT(30), SessAssumption DEF CallInv, Entries, FileInv, LookFound, SessInv, SessTypeOK
  <2>7. now' \in [Proc -> 0 .. MaxClock]
    BY SessAssumption DEF CallInv, LookFound, SessInv, SessTypeOK
  <2>8. pos' \in [Proc -> 1 .. Slots + 1]
    BY SessAssumption DEF CallInv, LookFound, SessInv, SessTypeOK
  <2>9. seek' \in [Proc -> 0 .. Slots]
    BY SessAssumption DEF CallInv, LookFound, ScanInv, SessInv, SessTypeOK
  <2>10. retry' \in [Proc -> 0 .. MaxRetry]
    BY SessAssumption DEF CallInv, LookFound, SessInv, SessTypeOK
  <2>11. used' \in [Sids -> 0 .. MaxClock] /\ missing' \subseteq Proc
    BY SessAssumption DEF CallInv, LookFound, SessInv, SessTypeOK
  <2>12. \A q \in Proc : pc'[q] = "touch" => pos'[q] <= size'
    BY SessAssumption DEF CallInv, LookFound, ScanInv, SessInv, SessTypeOK
  <2> QED
    BY <2>1, <2>2, <2>3, <2>4, <2>5, <2>6, <2>7, <2>8, <2>9, <2>10, <2>11, <2>12 DEF SessTypeOK
<1>2. LockInv'
  BY SessAssumption DEF LockInv, LookFound, SessInv, SessTypeOK
<1>3. CallInv'
  BY SMTT(30), SessAssumption DEF CallInv, Entries, FileInv, InCall, LookFound, SessInv, SessTypeOK
<1>4. FileInv'
  BY SessAssumption DEF CallInv, FileInv, LookFound, NoEntry, ScanInv, SessInv, SessTypeOK
<1>5. ScanInv'
  BY SessAssumption DEF CallInv, LockInv, LookFound, ScanInv, SessInv, SessTypeOK
<1>6. LookInv'
  BY SessAssumption DEF CallInv, FileInv, LockInv, LookFound, LookInv, LookOK, ScanInv, SessInv, SessTypeOK, UsedInv
<1>7. UsedInv'
  BY SessAssumption DEF LookFound, SessInv, SessTypeOK, UsedInv
<1>8. UniqueIds'
  BY SessAssumption DEF CallInv, FileInv, LockInv, LookFound, ScanInv, SessInv, SessTypeOK, UniqueIds
<1>9. TimeHonest'
  BY SessAssumption DEF CallInv, FileInv, LookFound, LookInv, ScanInv, SessInv, SessTypeOK, TimeHonest, UniqueIds, UsedInv
<1>10. MissInv'
  BY SessAssumption DEF Asking, LockInv, LookFound, MissInv, SessInv, SessTypeOK
<1> QED
  BY <1>1, <1>2, <1>3, <1>4, <1>5, <1>6, <1>7, <1>8, <1>9, <1>10 DEF SessInv

LEMMA LookFailsInv ==
  ASSUME SessInv, NEW p \in Proc, LookFails(p)
  PROVE  SessInv'
<1>1. SessTypeOK'
  BY SessAssumption DEF CallInv, Entries, Expired, LookFails, LookInv, NoEntry, PCs, ScanInv, SessInv, SessTypeOK
<1>2. LockInv'
  BY SessAssumption DEF Expired, LockInv, LookFails, SessInv, SessTypeOK
<1>3. CallInv'
  BY SessAssumption DEF CallInv, Entries, Expired, FileInv, InCall, LookFails, SessInv, SessTypeOK
<1>4. FileInv'
  BY SessAssumption DEF CallInv, Expired, FileInv, LookFails, NoEntry, ScanInv, SessInv, SessTypeOK
<1>5. ScanInv'
  BY SessAssumption DEF CallInv, Expired, LockInv, LookFails, ScanInv, SessInv, SessTypeOK
<1>6. LookInv'
  BY SessAssumption DEF CallInv, Expired, FileInv, LockInv, LookFails, LookInv, LookOK, ScanInv, SessInv, SessTypeOK, UsedInv
<1>7. UsedInv'
  BY SessAssumption DEF Expired, LookFails, SessInv, SessTypeOK, UsedInv
<1>8. UniqueIds'
  BY SessAssumption DEF CallInv, Expired, FileInv, LockInv, LookFails, ScanInv, SessInv, SessTypeOK, UniqueIds
<1>9. TimeHonest'
  BY SessAssumption DEF CallInv, Expired, FileInv, LookFails, LookInv, ScanInv, SessInv, SessTypeOK, TimeHonest, UniqueIds, UsedInv
<1>10. MissInv'
  BY SessAssumption DEF Asking, Expired, LockInv, LookFails, MissInv, SessInv, SessTypeOK
<1> QED
  BY <1>1, <1>2, <1>3, <1>4, <1>5, <1>6, <1>7, <1>8, <1>9, <1>10 DEF SessInv

LEMMA LookTouchInv ==
  ASSUME SessInv, NEW p \in Proc, LookTouch(p)
  PROVE  SessInv'
<1>1. SessTypeOK'
  <2>1. file' \in [1 .. Slots -> Entries]
    <3>1. TouchedEntry(p) \in Entries
      <4>1. pos[p] \in 1 .. Slots /\ now[p] \in 0 .. MaxClock
        BY SessAssumption DEF SessInv, SessTypeOK, LookTouch
      <4>2. file[pos[p]] \in Entries
        BY <4>1 DEF SessInv, SessTypeOK
      <4> QED
        BY ZenonT(30), <4>1, <4>2, EntryTypes DEF TouchedEntry
    <3>2. file' = [file EXCEPT ![pos[p]] = TouchedEntry(p)]
      BY DEF LookTouch
    <3> QED
      BY <3>1, <3>2 DEF SessInv, SessTypeOK
  <2>2. size' \in 0 .. Slots
    BY SessAssumption DEF CallInv, LookTouch, Return, ScanInv, SessInv, SessTypeOK, TouchedEntry
  <2>3. lock' \in Proc \cup {NoProc} /\ clock' \in 0 .. MaxClock
    BY SessAssumption DEF CallInv, LookTouch, Return, SessInv, SessTypeOK, TouchedEntry
  <2>4. pc' \in [Proc -> PCs]
    BY SessAssumption DEF CallInv, LookTouch, PCs, Return, SessInv, SessTypeOK, TouchedEntry
  <2>5. mysid' \in [Proc -> Cookies \cup {NoCookie}] /\ sid' \in [Proc -> Cookies]
    BY SessAssumption DEF CallInv, LookTouch, Return, SessInv, SessTypeOK, TouchedEntry
  <2>6. user' \in [Proc -> Users \cup {NoUser}]
    BY SessAssumption DEF CallInv, Entries, FileInv, LookTouch, Return, SessInv, SessTypeOK, TouchedEntry
  <2>7. now' \in [Proc -> 0 .. MaxClock]
    BY SessAssumption DEF CallInv, LookTouch, Return, SessInv, SessTypeOK, TouchedEntry
  <2>8. pos' \in [Proc -> 1 .. Slots + 1]
    BY SessAssumption DEF CallInv, LookTouch, Return, SessInv, SessTypeOK, TouchedEntry
  <2>9. seek' \in [Proc -> 0 .. Slots]
    BY SessAssumption DEF CallInv, LookTouch, Return, ScanInv, SessInv, SessTypeOK, TouchedEntry
  <2>10. retry' \in [Proc -> 0 .. MaxRetry]
    BY SessAssumption DEF CallInv, LookTouch, Return, SessInv, SessTypeOK, TouchedEntry
  <2>11. used' \in [Sids -> 0 .. MaxClock] /\ missing' \subseteq Proc
    BY SessAssumption DEF CallInv, LookTouch, Return, SessInv, SessTypeOK, TouchedEntry
  <2>12. \A q \in Proc : pc'[q] = "touch" => pos'[q] <= size'
    BY SessAssumption DEF CallInv, LookTouch, Return, ScanInv, SessInv, SessTypeOK, TouchedEntry
  <2> QED
    BY <2>1, <2>2, <2>3, <2>4, <2>5, <2>6, <2>7, <2>8, <2>9, <2>10, <2>11, <2>12 DEF SessTypeOK
<1>2. LockInv'
  BY SessAssumption DEF LockInv, LookTouch, Return, SessInv, SessTypeOK, TouchedEntry
<1>3. CallInv'
  BY SessAssumption DEF CallInv, Entries, FileInv, InCall, LookTouch, Return, SessInv, SessTypeOK, TouchedEntry
<1>4. FileInv'
  BY SessAssumption DEF CallInv, FileInv, LookTouch, NoEntry, Return, ScanInv, SessInv, SessTypeOK, TouchedEntry
<1>5. ScanInv'
  BY SMTT(30), SessAssumption DEF CallInv, LockInv, LookTouch, Return, ScanInv, SessInv, SessTypeOK, TouchedEntry
<1>6. LookInv'
  <2> SUFFICES ASSUME NEW q \in Proc
               PROVE  LookOK(q)'
    BY DEF LookInv
  <2>1. /\ size' = size /\ pos[p] \in 1 .. size /\ LookOK(q)
        /\ UNCHANGED used \/ used' = [used EXCEPT ![sid[p]] = clock]
    BY SessAssumption DEF SessInv, SessTypeOK, CallInv, LookInv, LookTouch
  <2>2. \A i \in 1 .. size : file'[i].id = file[i].id
    BY <2>1 DEF SessInv, SessTypeOK, LookTouch, TouchedEntry, Entries
  <2>3. \A x \in Sids : used[x] <= used'[x]
    BY SessAssumption DEF SessInv, SessTypeOK, CallInv, UsedInv, LookTouch
  <2>4. CASE q = p
    BY <2>4 DEF LookOK, LookTouch, Return, SessInv, SessTypeOK
  <2>5. CASE q # p
    <3>1. /\ pc'[q] = pc[q] /\ pos'[q] = pos[q] /\ sid'[q] = sid[q] /\ now'[q] = now[q]
          /\ q \in missing => q \in missing'
      BY <2>5 DEF LookTouch, Return, SessInv, SessTypeOK
    <3>2. LookOK(q)
      BY DEF SessInv, LookInv
    <3>3. pc[q] = "look" => LookOK(q)'
      BY <2>1, <2>2, <3>1, <3>2 DEF LookOK, LookTouch
    <3>4. pc[q] = "touch" => LookOK(q)'
      <4> SUFFICES ASSUME pc[q] = "touch" PROVE LookOK(q)'
        OBVIOUS
      <4>1. pos[q] \in 1 .. size /\ file[pos[q]].id \in Sids \cup {NoSid} /\ now[q] \in Int
        BY SMTT(30), SessAssumption DEF SessInv, SessTypeOK, Entries
      <4>2. file'[pos[q]].id = file[pos[q]].id
        BY <2>2, <4>1
      <4>3. \A x \in Sids : used[x] \in Int /\ used'[x] \in Int
        BY SessAssumption DEF SessInv, SessTypeOK, CallInv, LookTouch
      <4> QED
        BY <2>3, <3>1, <3>2, <4>1, <4>2, <4>3 DEF LookOK
    <3> QED
      BY <3>1, <3>3, <3>4 DEF LookOK
  <2> QED
    BY <2>4, <2>5
<1>7. UsedInv'
  BY SessAssumption DEF LookTouch, Return, SessInv, SessTypeOK, TouchedEntry, UsedInv
<1>8. UniqueIds'
  BY SMTT(30), SessAssumption DEF CallInv, FileInv, LockInv, LookTouch, Return, ScanInv, SessInv, SessTypeOK, TouchedEntry, UniqueIds
<1>9. TimeHonest'
  <2> SUFFICES ASSUME NEW i \in 1 .. size', file'[i].id # NoSid
               PROVE  /\ file'[i].time <= used'[file'[i].id]
                      /\ used'[file'[i].id] <= file'[i].time + Lifetime
    BY DEF TimeHonest
  <2>1. size' = size /\ pos[p] \in 1 .. size /\ i \in 1 .. Slots
    BY SessAssumption DEF SessInv, SessTypeOK, LookTouch
  <2>2. CASE i = pos[p]
    <3>1. file'[i].id = file[i].id /\ file'[i].time = now[p] /\ file[i].id \in Sids
      BY <2>1, <2>2, SessAssumption DEF SessInv, SessTypeOK, Entries, LookTouch, TouchedEntry
    <3>2. now[p] <= clock /\ clock <= now[p] + Lifetime /\ used[file[i].id] <= clock
      BY <3>1 DEF SessInv, CallInv, UsedInv, InCall, LookTouch
    <3>3. file[i].id = sid[p] \/ now[p] <= used[file[i].id]
      BY <2>2, <3>1, SessAssumption DEF SessInv, LookInv, LookOK, LookTouch
    <3> QED
      BY SMTT(30), <2>1, <2>2, <3>1, <3>2, <3>3, SessAssumption
         DEF SessInv, SessTypeOK, LookTouch
  <2>3. CASE i # pos[p]
    <3>1. file'[i] = file[i]
      BY <2>1, <2>3 DEF SessInv, SessTypeOK, LookTouch
    <3>2. used'[file[i].id] = used[file[i].id]
      BY <2>1, <2>3, <3>1, SessAssumption DEF SessInv, SessTypeOK, UniqueIds, LookTouch
    <3> QED
      BY <2>1, <3>1, <3>2 DEF SessInv, TimeHonest
  <2> QED
    BY <2>2, <2>3
<1>10. MissInv'
  BY SessAssumption DEF Asking, LockInv, LookTouch, MissInv, Return, SessInv, SessTypeOK, TouchedEntry
<1> QED
  BY <1>1, <1>2, <1>3, <1>4, <1>5, <1>6, <1>7, <1>8, <1>9, <1>10 DEF SessInv

LEMMA LookRefusedInv ==
  ASSUME SessInv, NEW p \in Proc, LookRefused(p)
  PROVE  SessInv'
<1>1. SessTypeOK'
  <2>1. file' \in [1 .. Slots -> Entries]
    BY SessAssumption DEF CallInv, Entries, LookRefused, NoEntry, Return, ScanInv, SessInv, SessTypeOK
  <2>2. size' \in 0 .. Slots
    BY SessAssumption DEF CallInv, LookRefused, Return, ScanInv, SessInv, SessTypeOK
  <2>3. lock' \in Proc \cup {NoProc} /\ clock' \in 0 .. MaxClock
    BY SessAssumption DEF CallInv, LookRefused, Return, SessInv, SessTypeOK
  <2>4. pc' \in [Proc -> PCs]
    BY SessAssumption DEF CallInv, LookRefused, PCs, Return, SessInv, SessTypeOK
  <2>5. mysid' \in [Proc -> Cookies \cup {NoCookie}] /\ sid' \in [Proc -> Cookies]
    BY SessAssumption DEF CallInv, LookRefused, Return, SessInv, SessTypeOK
  <2>6. user' \in [Proc -> Users \cup {NoUser}]
    BY SessAssumption DEF CallInv, Entries, FileInv, LookRefused, Return, SessInv, SessTypeOK
  <2>7. now' \in [Proc -> 0 .. MaxClock]
    BY SessAssumption DEF CallInv, LookRefused, Return, SessInv, SessTypeOK
  <2>8. pos' \in [Proc -> 1 .. Slots + 1]
    BY SessAssumption DEF CallInv, LookRefused, Return, SessInv, SessTypeOK
  <2>9. seek' \in [Proc -> 0 .. Slots]
    BY SessAssumption DEF CallInv, LookRefused, Return, ScanInv, SessInv, SessTypeOK
  <2>10. retry' \in [Proc -> 0 .. MaxRetry]
    BY SessAssumption DEF CallInv, LookRefused, Return, SessInv, SessTypeOK
  <2>11. used' \in [Sids -> 0 .. MaxClock] /\ missing' \subseteq Proc
    BY SessAssumption DEF CallInv, LookRefused, Return, SessInv, SessTypeOK
  <2>12. \A q \in Proc : pc'[q] = "touch" => pos'[q] <= size'
    BY SessAssumption DEF CallInv, LookRefused, Return, ScanInv, SessInv, SessTypeOK
  <2> QED
    BY <2>1, <2>2, <2>3, <2>4, <2>5, <2>6, <2>7, <2>8, <2>9, <2>10, <2>11, <2>12 DEF SessTypeOK
<1>2. LockInv'
  BY SessAssumption DEF LockInv, LookRefused, Return, SessInv, SessTypeOK
<1>3. CallInv'
  BY SessAssumption DEF CallInv, Entries, FileInv, InCall, LookRefused, Return, SessInv, SessTypeOK
<1>4. FileInv'
  BY SessAssumption DEF CallInv, FileInv, LookRefused, NoEntry, Return, ScanInv, SessInv, SessTypeOK
<1>5. ScanInv'
  BY SessAssumption DEF CallInv, LockInv, LookRefused, Return, ScanInv, SessInv, SessTypeOK
<1>6. LookInv'
  BY SessAssumption DEF CallInv, FileInv, LockInv, LookInv, LookOK, LookRefused, Return, ScanInv, SessInv, SessTypeOK, UsedInv
<1>7. UsedInv'
  BY SessAssumption DEF LookRefused, Return, SessInv, SessTypeOK, UsedInv
<1>8. UniqueIds'
  BY SessAssumption DEF CallInv, FileInv, LockInv, LookRefused, Return, ScanInv, SessInv, SessTypeOK, UniqueIds
<1>9. TimeHonest'
  BY SessAssumption DEF CallInv, FileInv, LookInv, LookRefused, Return, ScanInv, SessInv, SessTypeOK, TimeHonest, UniqueIds, UsedInv
<1>10. MissInv'
  BY SessAssumption DEF Asking, LockInv, LookRefused, MissInv, Return, SessInv, SessTypeOK
<1> QED
  BY <1>1, <1>2, <1>3, <1>4, <1>5, <1>6, <1>7, <1>8, <1>9, <1>10 DEF SessInv

LEMMA NewSessionInv ==
  ASSUME SessInv, NEW p \in Proc, NEW u \in Users, NEW s \in Sids, NewSession(p, u, s)
  PROVE  SessInv'
<1>1. SessTypeOK'
  BY SessAssumption DEF CallInv, Entries, LookInv, NewSession, NoEntry, PCs, ScanInv, SessInv, SessTypeOK
<1>2. LockInv'
  BY SessAssumption DEF LockInv, NewSession, SessInv, SessTypeOK
<1>3. CallInv'
  BY SessAssumption DEF CallInv, Entries, FileInv, InCall, NewSession, SessInv, SessTypeOK
<1>4. FileInv'
  BY SessAssumption DEF CallInv, FileInv, NewSession, NoEntry, ScanInv, SessInv, SessTypeOK
<1>5. ScanInv'
  BY SessAssumption DEF CallInv, LockInv, NewSession, ScanInv, SessInv, SessTypeOK
<1>6. LookInv'
  BY SessAssumption DEF CallInv, FileInv, LockInv, LookInv, LookOK, NewSession, ScanInv, SessInv, SessTypeOK, UsedInv
<1>7. UsedInv'
  BY SessAssumption DEF NewSession, SessInv, SessTypeOK, UsedInv
<1>8. UniqueIds'
  BY SessAssumption DEF CallInv, FileInv, LockInv, NewSession, ScanInv, SessInv, SessTypeOK, UniqueIds
<1>9. TimeHonest'
  BY SessAssumption DEF CallInv, FileInv, LookInv, NewSession, ScanInv, SessInv, SessTypeOK, TimeHonest, UniqueIds, UsedInv
<1>10. MissInv'
  BY SessAssumption DEF Asking, LockInv, MissInv, NewSession, SessInv, SessTypeOK
<1> QED
  BY <1>1, <1>2, <1>3, <1>4, <1>5, <1>6, <1>7, <1>8, <1>9, <1>10 DEF SessInv

LEMMA NewLockInv ==
  ASSUME SessInv, NEW p \in Proc, NewLock(p)
  PROVE  SessInv'
<1>1. SessTypeOK'
  BY SessAssumption DEF CallInv, Entries, Lock, LookInv, NewLock, NoEntry, PCs, ScanInv, SessInv, SessTypeOK
<1>2. LockInv'
  BY SessAssumption DEF Lock, LockInv, NewLock, SessInv, SessTypeOK
<1>3. CallInv'
  BY SessAssumption DEF CallInv, Entries, FileInv, InCall, Lock, NewLock, SessInv, SessTypeOK
<1>4. FileInv'
  BY SessAssumption DEF CallInv, FileInv, Lock, NewLock, NoEntry, ScanInv, SessInv, SessTypeOK
<1>5. ScanInv'
  BY SessAssumption DEF CallInv, Lock, LockInv, NewLock, ScanInv, SessInv, SessTypeOK
<1>6. LookInv'
  BY SessAssumption DEF CallInv, FileInv, Lock, LockInv, LookInv, LookOK, NewLock, ScanInv, SessInv, SessTypeOK, UsedInv
<1>7. UsedInv'
  BY SessAssumption DEF Lock, NewLock, SessInv, SessTypeOK, UsedInv
<1>8. UniqueIds'
  BY SessAssumption DEF CallInv, FileInv, Lock, LockInv, NewLock, ScanInv, SessInv, SessTypeOK, UniqueIds
<1>9. TimeHonest'
  BY SessAssumption DEF CallInv, FileInv, Lock, LookInv, NewLock, ScanInv, SessInv, SessTypeOK, TimeHonest, UniqueIds, UsedInv
<1>10. MissInv'
  BY SessAssumption DEF Asking, Lock, LockInv, MissInv, NewLock, SessInv, SessTypeOK
<1> QED
  BY <1>1, <1>2, <1>3, <1>4, <1>5, <1>6, <1>7, <1>8, <1>9, <1>10 DEF SessInv

LEMMA ScanReadInv ==
  ASSUME SessInv, NEW p \in Proc, ScanRead(p)
  PROVE  SessInv'
<1>1. SessTypeOK'
  <2>1. file' \in [1 .. Slots -> Entries]
    BY SessAssumption DEF CallInv, Entries, NoEntry, Reusable, ScanInv, ScanRead, SessInv, SessTypeOK
  <2>2. size' \in 0 .. Slots
    BY SessAssumption DEF CallInv, Reusable, ScanInv, ScanRead, SessInv, SessTypeOK
  <2>3. lock' \in Proc \cup {NoProc} /\ clock' \in 0 .. MaxClock
    BY SessAssumption DEF CallInv, Reusable, ScanRead, SessInv, SessTypeOK
  <2>4. pc' \in [Proc -> PCs]
    BY SessAssumption DEF CallInv, PCs, Reusable, ScanRead, SessInv, SessTypeOK
  <2>5. mysid' \in [Proc -> Cookies \cup {NoCookie}] /\ sid' \in [Proc -> Cookies]
    BY SessAssumption DEF CallInv, Reusable, ScanRead, SessInv, SessTypeOK
  <2>6. user' \in [Proc -> Users \cup {NoUser}]
    BY SessAssumption DEF CallInv, Entries, FileInv, Reusable, ScanRead, SessInv, SessTypeOK
  <2>7. now' \in [Proc -> 0 .. MaxClock]
    BY SessAssumption DEF CallInv, Reusable, ScanRead, SessInv, SessTypeOK
  <2>8. pos' \in [Proc -> 1 .. Slots + 1]
    BY SessAssumption DEF CallInv, Reusable, ScanRead, SessInv, SessTypeOK
  <2>9. seek' \in [Proc -> 0 .. Slots]
    BY SessAssumption DEF CallInv, Reusable, ScanInv, ScanRead, SessInv, SessTypeOK
  <2>10. retry' \in [Proc -> 0 .. MaxRetry]
    BY SessAssumption DEF CallInv, Reusable, ScanRead, SessInv, SessTypeOK
  <2>11. used' \in [Sids -> 0 .. MaxClock] /\ missing' \subseteq Proc
    BY SessAssumption DEF CallInv, Reusable, ScanRead, SessInv, SessTypeOK
  <2>12. \A q \in Proc : pc'[q] = "touch" => pos'[q] <= size'
    BY SessAssumption DEF CallInv, Reusable, ScanInv, ScanRead, SessInv, SessTypeOK
  <2> QED
    BY <2>1, <2>2, <2>3, <2>4, <2>5, <2>6, <2>7, <2>8, <2>9, <2>10, <2>11, <2>12 DEF SessTypeOK
<1>2. LockInv'
  BY SessAssumption DEF LockInv, Reusable, ScanRead, SessInv, SessTypeOK
<1>3. CallInv'
  BY SessAssumption DEF CallInv, Entries, FileInv, InCall, Reusable, ScanRead, SessInv, SessTypeOK
<1>4. FileInv'
  BY SessAssumption DEF CallInv, FileInv, NoEntry, Reusable, ScanInv, ScanRead, SessInv, SessTypeOK
<1>5. ScanInv'
  BY SMTT(30), SessAssumption DEF CallInv, LockInv, Reusable, ScanInv, ScanRead, SessInv, SessTypeOK
<1>6. LookInv'
  BY SessAssumption DEF CallInv, FileInv, LockInv, LookInv, LookOK, Reusable, ScanInv, ScanRead, SessInv, SessTypeOK, UsedInv
<1>7. UsedInv'
  BY SessAssumption DEF Reusable, ScanRead, SessInv, SessTypeOK, UsedInv
<1>8. UniqueIds'
  BY SessAssumption DEF CallInv, FileInv, LockInv, Reusable, ScanInv, ScanRead, SessInv, SessTypeOK, UniqueIds
<1>9. TimeHonest'
  BY SessAssumption DEF CallInv, FileInv, LookInv, Reusable, ScanInv, ScanRead, SessInv, SessTypeOK, TimeHonest, UniqueIds, UsedInv
<1>10. MissInv'
  BY SessAssumption DEF Asking, LockInv, MissInv, Reusable, ScanRead, SessInv, SessTypeOK
<1> QED
  BY <1>1, <1>2, <1>3, <1>4, <1>5, <1>6, <1>7, <1>8, <1>9, <1>10 DEF SessInv

LEMMA ScanDuplicateInv ==
  ASSUME SessInv, NEW p \in Proc, NEW s \in Sids, ScanDuplicate(p, s)
  PROVE  SessInv'
<1>1. SessTypeOK'
  <2>1. file' \in [1 .. Slots -> Entries]
    BY SessAssumption DEF CallInv, Entries, MayRetry, NoEntry, ScanDuplicate, ScanInv, SessInv, SessTypeOK
  <2>2. size' \in 0 .. Slots
    BY SessAssumption DEF CallInv, MayRetry, ScanDuplicate, ScanInv, SessInv, SessTypeOK
  <2>3. lock' \in Proc \cup {NoProc} /\ clock' \in 0 .. MaxClock
    BY SessAssumption DEF CallInv, MayRetry, ScanDuplicate, SessInv, SessTypeOK
  <2>4. pc' \in [Proc -> PCs]
    BY SessAssumption DEF CallInv, MayRetry, PCs, ScanDuplicate, SessInv, SessTypeOK
  <2>5. mysid' \in [Proc -> Cookies \cup {NoCookie}] /\ sid' \in [Proc -> Cookies]
    BY SessAssumption DEF CallInv, MayRetry, ScanDuplicate, SessInv, SessTypeOK
  <2>6. user' \in [Proc -> Users \cup {NoUser}]
    BY SessAssumption DEF CallInv, Entries, FileInv, MayRetry, ScanDuplicate, SessInv, SessTypeOK
  <2>7. now' \in [Proc -> 0 .. MaxClock]
    BY SessAssumption DEF CallInv, MayRetry, ScanDuplicate, SessInv, SessTypeOK
  <2>8. pos' \in [Proc -> 1 .. Slots + 1]
    BY SessAssumption DEF CallInv, MayRetry, ScanDuplicate, SessInv, SessTypeOK
  <2>9. seek' \in [Proc -> 0 .. Slots]
    BY SessAssumption DEF CallInv, MayRetry, ScanDuplicate, ScanInv, SessInv, SessTypeOK
  <2>10. retry' \in [Proc -> 0 .. MaxRetry]
    BY SessAssumption DEF CallInv, MayRetry, ScanDuplicate, SessInv, SessTypeOK
  <2>11. used' \in [Sids -> 0 .. MaxClock] /\ missing' \subseteq Proc
    BY SessAssumption DEF CallInv, MayRetry, ScanDuplicate, SessInv, SessTypeOK
  <2>12. \A q \in Proc : pc'[q] = "touch" => pos'[q] <= size'
    BY SessAssumption DEF CallInv, MayRetry, ScanDuplicate, ScanInv, SessInv, SessTypeOK
  <2> QED
    BY <2>1, <2>2, <2>3, <2>4, <2>5, <2>6, <2>7, <2>8, <2>9, <2>10, <2>11, <2>12 DEF SessTypeOK
<1>2. LockInv'
  BY SessAssumption DEF LockInv, MayRetry, ScanDuplicate, SessInv, SessTypeOK
<1>3. CallInv'
  BY SessAssumption DEF CallInv, Entries, FileInv, InCall, MayRetry, ScanDuplicate, SessInv, SessTypeOK
<1>4. FileInv'
  BY SessAssumption DEF CallInv, FileInv, MayRetry, NoEntry, ScanDuplicate, ScanInv, SessInv, SessTypeOK
<1>5. ScanInv'
  BY SMTT(30), SessAssumption DEF CallInv, LockInv, MayRetry, ScanDuplicate, ScanInv, SessInv, SessTypeOK
<1>6. LookInv'
  BY SMTT(30), SessAssumption DEF CallInv, FileInv, LockInv, LookInv, LookOK, MayRetry, ScanDuplicate, ScanInv, SessInv, SessTypeOK, UsedInv
<1>7. UsedInv'
  BY SessAssumption DEF MayRetry, ScanDuplicate, SessInv, SessTypeOK, UsedInv
<1>8. UniqueIds'
  BY SessAssumption DEF CallInv, FileInv, LockInv, MayRetry, ScanDuplicate, ScanInv, SessInv, SessTypeOK, UniqueIds
<1>9. TimeHonest'
  BY SessAssumption DEF CallInv, FileInv, LookInv, MayRetry, ScanDuplicate, ScanInv, SessInv, SessTypeOK, TimeHonest, UniqueIds, UsedInv
<1>10. MissInv'
  BY SessAssumption DEF Asking, LockInv, MayRetry, MissInv, ScanDuplicate, SessInv, SessTypeOK
<1> QED
  BY <1>1, <1>2, <1>3, <1>4, <1>5, <1>6, <1>7, <1>8, <1>9, <1>10 DEF SessInv

LEMMA NewWriteInv ==
  ASSUME SessInv, NEW p \in Proc, NewWrite(p)
  PROVE  SessInv'
<1>1. SessTypeOK'
  <2>1. file' \in [1 .. Slots -> Entries]
    BY SessAssumption DEF Asking, CallInv, Entries, NewWrite, NoEntry, Return, ScanInv, SessInv, SessTypeOK, Unlock
  <2>2. size' \in 0 .. Slots
    BY SessAssumption DEF Asking, CallInv, NewWrite, Return, ScanInv, SessInv, SessTypeOK, Unlock
  <2>3. lock' \in Proc \cup {NoProc} /\ clock' \in 0 .. MaxClock
    BY SessAssumption DEF Asking, CallInv, NewWrite, Return, SessInv, SessTypeOK, Unlock
  <2>4. pc' \in [Proc -> PCs]
    BY SessAssumption DEF Asking, CallInv, NewWrite, PCs, Return, SessInv, SessTypeOK, Unlock
  <2>5. mysid' \in [Proc -> Cookies \cup {NoCookie}] /\ sid' \in [Proc -> Cookies]
    BY SessAssumption DEF Asking, CallInv, NewWrite, Return, SessInv, SessTypeOK, Unlock
  <2>6. user' \in [Proc -> Users \cup {NoUser}]
    BY SessAssumption DEF Asking, CallInv, Entries, FileInv, NewWrite, Return, SessInv, SessTypeOK, Unlock
  <2>7. now' \in [Proc -> 0 .. MaxClock]
    BY SessAssumption DEF Asking, CallInv, NewWrite, Return, SessInv, SessTypeOK, Unlock
  <2>8. pos' \in [Proc -> 1 .. Slots + 1]
    BY SessAssumption DEF Asking, CallInv, NewWrite, Return, SessInv, SessTypeOK, Unlock
  <2>9. seek' \in [Proc -> 0 .. Slots]
    BY SessAssumption DEF Asking, CallInv, NewWrite, Return, ScanInv, SessInv, SessTypeOK, Unlock
  <2>10. retry' \in [Proc -> 0 .. MaxRetry]
    BY SessAssumption DEF Asking, CallInv, NewWrite, Return, SessInv, SessTypeOK, Unlock
  <2>11. used' \in [Sids -> 0 .. MaxClock] /\ missing' \subseteq Proc
    BY SMTT(30), SessAssumption DEF Asking, CallInv, NewWrite, Return, SessInv, SessTypeOK, Unlock
  <2>12. \A q \in Proc : pc'[q] = "touch" => pos'[q] <= size'
    BY SMTT(30), SessAssumption DEF Asking, CallInv, NewWrite, Return, ScanInv, SessInv, SessTypeOK, Unlock
  <2> QED
    BY <2>1, <2>2, <2>3, <2>4, <2>5, <2>6, <2>7, <2>8, <2>9, <2>10, <2>11, <2>12 DEF SessTypeOK
<1>2. LockInv'
  BY SessAssumption DEF Asking, LockInv, NewWrite, Return, SessInv, SessTypeOK, Unlock
<1>3. CallInv'
  BY SessAssumption DEF Asking, CallInv, Entries, FileInv, InCall, NewWrite, Return, SessInv, SessTypeOK, Unlock
<1>4. FileInv'
  BY SessAssumption DEF Asking, CallInv, FileInv, NewWrite, NoEntry, Return, ScanInv, SessInv, SessTypeOK, Unlock
<1>5. ScanInv'
  BY SessAssumption DEF Asking, CallInv, LockInv, NewWrite, Return, ScanInv, SessInv, SessTypeOK, Unlock
<1>6. LookInv'
  <2> SUFFICES ASSUME NEW q \in Proc
               PROVE  LookOK(q)'
    BY DEF LookInv
  <2> DEFINE k == IF seek[p] = 0 THEN size + 1 ELSE seek[p]
  <2>1. /\ k \in 1 .. Slots /\ sid[p] \in Sids /\ size \in Nat /\ size' \in Nat
        /\ size <= size' /\ k <= size'
    BY SMTT(30), SessAssumption DEF SessInv, SessTypeOK, CallInv, ScanInv, NewWrite
  <2>2. \A i \in 1 .. size : i # k => file'[i] = file[i]
    BY <2>1, SessAssumption DEF SessInv, SessTypeOK, NewWrite
  <2>3. file'[k].id = sid[p] /\ used'[sid[p]] = clock
    BY <2>1 DEF SessInv, SessTypeOK, NewWrite
  <2>4. CASE q = p
    BY <2>4 DEF LookOK, NewWrite, Return, SessInv, SessTypeOK
  <2>5. CASE q # p
    <3>1. /\ pc'[q] = pc[q] /\ pos'[q] = pos[q] /\ sid'[q] = sid[q] /\ now'[q] = now[q]
          /\ q \in missing => q \in missing'
          /\ Asking(q) /\ sid[q] # NoSid /\ sid[q] = file[k].id => q \in missing'
      BY <2>5 DEF NewWrite, Return, SessInv, SessTypeOK
    <3>2. LookOK(q)
      BY DEF SessInv, LookInv
    <3>3. pc[q] = "look" => LookOK(q)'
      BY <2>1, <2>2, <3>1, <3>2 DEF LookOK, Asking
    <3>4. pc[q] = "touch" => LookOK(q)'
      <4> SUFFICES ASSUME pc[q] = "touch" PROVE LookOK(q)'
        OBVIOUS
      <4>1. pos[q] \in 1 .. size /\ file[pos[q]].id \in Sids \cup {NoSid}
        BY SMTT(30), SessAssumption DEF SessInv, SessTypeOK, Entries
      <4>2. CASE pos[q] = k
        <5>1. now[q] <= clock
          BY DEF SessInv, CallInv, InCall
        <5> QED
          BY <2>3, <3>1, <3>2, <4>2, <5>1 DEF LookOK, Asking
      <4>3. CASE pos[q] # k
        <5>1. file[pos[q]].id # NoSid => file[pos[q]].id # file[k].id
          BY <2>1, <4>1, <4>3, SessAssumption DEF SessInv, UniqueIds, FileInv
        <5>2. file[pos[q]].id # sid[p]
          BY <4>1 DEF SessInv, SessTypeOK, ScanInv, NewWrite
        <5>3. file[pos[q]].id \in Sids => used'[file[pos[q]].id] = used[file[pos[q]].id]
          BY <5>1, <5>2, SessAssumption DEF SessInv, SessTypeOK, NewWrite
        <5> QED
          BY <2>2, <3>1, <3>2, <4>1, <4>3, <5>3 DEF LookOK
      <4> QED
        BY <4>2, <4>3
    <3> QED
      BY <3>1, <3>3, <3>4 DEF LookOK
  <2> QED
    BY <2>4, <2>5
<1>7. UsedInv'
  BY SessAssumption DEF Asking, NewWrite, Return, SessInv, SessTypeOK, Unlock, UsedInv
<1>8. UniqueIds'
  BY SMTT(30), SessAssumption DEF Asking, CallInv, FileInv, LockInv, NewWrite, Return, ScanInv, SessInv, SessTypeOK, UniqueIds, Unlock
<1>9. TimeHonest'
  <2> SUFFICES ASSUME NEW i \in 1 .. size', file'[i].id # NoSid
               PROVE  /\ file'[i].time <= used'[file'[i].id]
                      /\ used'[file'[i].id] <= file'[i].time + Lifetime
    BY DEF TimeHonest
  <2> DEFINE k == IF seek[p] = 0 THEN size + 1 ELSE seek[p]
  <2>1. k \in 1 .. Slots /\ sid[p] \in Sids /\ i \in 1 .. Slots /\ size \in Nat
    BY SessAssumption DEF SessInv, SessTypeOK, CallInv, ScanInv, NewWrite
  <2>2. CASE i = k
    <3>1. file'[i].id = sid[p] /\ file'[i].time = now[p] /\ used'[sid[p]] = clock
      BY <2>1, <2>2 DEF SessInv, SessTypeOK, NewWrite
    <3>2. now[p] <= clock /\ clock <= now[p] + Lifetime
      BY DEF SessInv, CallInv, InCall, NewWrite
    <3> QED
      BY <3>1, <3>2
  <2>3. CASE i # k
    <3>1. file'[i] = file[i]
      BY <2>1, <2>3 DEF SessInv, SessTypeOK, NewWrite
    <3>5. i \in 1 .. size
      <4>1. size' = (IF k > size THEN k ELSE size) /\ (k <= size \/ k = size + 1)
        BY DEF NewWrite, SessInv, SessTypeOK, ScanInv
      <4> QED
        BY <2>1, <2>3, <4>1, SessAssumption
    <3>2. file[i].id # sid[p]
      BY <3>1, <3>5 DEF SessInv, SessTypeOK, ScanInv, NewWrite
    <3>3. file[i].id # file[k].id
      BY <2>1, <2>3, <3>1, <3>5, SessAssumption DEF SessInv, UniqueIds, FileInv
    <3>4. used'[file[i].id] = used[file[i].id]
      BY <2>1, <3>1, <3>2, <3>3, SessAssumption DEF SessInv, SessTypeOK, Entries, NewWrite
    <3> QED
      BY <3>1, <3>4, <3>5 DEF SessInv, TimeHonest
  <2> QED
    BY <2>2, <2>3
<1>10. MissInv'
  BY SessAssumption DEF Asking, LockInv, MissInv, NewWrite, Return, SessInv, SessTypeOK, Unlock
<1> QED
  BY <1>1, <1>2, <1>3, <1>4, <1>5, <1>6, <1>7, <1>8, <1>9, <1>10 DEF SessInv

LEMMA NewWriteFailsInv ==
  ASSUME SessInv, NEW p \in Proc, NewWriteFails(p)
  PROVE  SessInv'
<1>1. SessTypeOK'
  <2>1. file' \in [1 .. Slots -> Entries]
    BY SessAssumption DEF CallInv, Entries, NewWriteFails, NoEntry, Return, ScanInv, SessInv, SessTypeOK, Unlock
  <2>2. size' \in 0 .. Slots
    BY SessAssumption DEF CallInv, NewWriteFails, Return, ScanInv, SessInv, SessTypeOK, Unlock
  <2>3. lock' \in Proc \cup {NoProc} /\ clock' \in 0 .. MaxClock
    BY SessAssumption DEF CallInv, NewWriteFails, Return, SessInv, SessTypeOK, Unlock
  <2>4. pc' \in [Proc -> PCs]
    BY SessAssumption DEF CallInv, NewWriteFails, PCs, Return, SessInv, SessTypeOK, Unlock
  <2>5. mysid' \in [Proc -> Cookies \cup {NoCookie}] /\ sid' \in [Proc -> Cookies]
    BY SessAssumption DEF CallInv, NewWriteFails, Return, SessInv, SessTypeOK, Unlock
  <2>6. user' \in [Proc -> Users \cup {NoUser}]
    BY SessAssumption DEF CallInv, Entries, FileInv, NewWriteFails, Return, SessInv, SessTypeOK, Unlock
  <2>7. now' \in [Proc -> 0 .. MaxClock]
    BY SessAssumption DEF CallInv, NewWriteFails, Return, SessInv, SessTypeOK, Unlock
  <2>8. pos' \in [Proc -> 1 .. Slots + 1]
    BY SessAssumption DEF CallInv, NewWriteFails, Return, SessInv, SessTypeOK, Unlock
  <2>9. seek' \in [Proc -> 0 .. Slots]
    BY SessAssumption DEF CallInv, NewWriteFails, Return, ScanInv, SessInv, SessTypeOK, Unlock
  <2>10. retry' \in [Proc -> 0 .. MaxRetry]
    BY SessAssumption DEF CallInv, NewWriteFails, Return, SessInv, SessTypeOK, Unlock
  <2>11. used' \in [Sids -> 0 .. MaxClock] /\ missing' \subseteq Proc
    BY SessAssumption DEF CallInv, NewWriteFails, Return, SessInv, SessTypeOK, Unlock
  <2>12. \A q \in Proc : pc'[q] = "touch" => pos'[q] <= size'
    BY SessAssumption DEF CallInv, NewWriteFails, Return, ScanInv, SessInv, SessTypeOK, Unlock
  <2> QED
    BY <2>1, <2>2, <2>3, <2>4, <2>5, <2>6, <2>7, <2>8, <2>9, <2>10, <2>11, <2>12 DEF SessTypeOK
<1>2. LockInv'
  BY SessAssumption DEF LockInv, NewWriteFails, Return, SessInv, SessTypeOK, Unlock
<1>3. CallInv'
  BY SessAssumption DEF CallInv, Entries, FileInv, InCall, NewWriteFails, Return, SessInv, SessTypeOK, Unlock
<1>4. FileInv'
  BY SessAssumption DEF CallInv, FileInv, NewWriteFails, NoEntry, Return, ScanInv, SessInv, SessTypeOK, Unlock
<1>5. ScanInv'
  BY SessAssumption DEF CallInv, LockInv, NewWriteFails, Return, ScanInv, SessInv, SessTypeOK, Unlock
<1>6. LookInv'
  BY SessAssumption DEF CallInv, FileInv, LockInv, LookInv, LookOK, NewWriteFails, Return, ScanInv, SessInv, SessTypeOK, Unlock, UsedInv
<1>7. UsedInv'
  BY SessAssumption DEF NewWriteFails, Return, SessInv, SessTypeOK, Unlock, UsedInv
<1>8. UniqueIds'
  BY SessAssumption DEF CallInv, FileInv, LockInv, NewWriteFails, Return, ScanInv, SessInv, SessTypeOK, UniqueIds, Unlock
<1>9. TimeHonest'
  BY SessAssumption DEF CallInv, FileInv, LookInv, NewWriteFails, Return, ScanInv, SessInv, SessTypeOK, TimeHonest, UniqueIds, Unlock, UsedInv
<1>10. MissInv'
  BY SessAssumption DEF Asking, LockInv, MissInv, NewWriteFails, Return, SessInv, SessTypeOK, Unlock
<1> QED
  BY <1>1, <1>2, <1>3, <1>4, <1>5, <1>6, <1>7, <1>8, <1>9, <1>10 DEF SessInv

LEMMA KillSessionInv ==
  ASSUME SessInv, NEW p \in Proc, KillSession(p)
  PROVE  SessInv'
<1>1. SessTypeOK'
  BY SessAssumption DEF CallInv, Entries, KillSession, LookInv, NoEntry, PCs, ScanInv, SessInv, SessTypeOK
<1>2. LockInv'
  BY SessAssumption DEF KillSession, LockInv, SessInv, SessTypeOK
<1>3. CallInv'
  BY SessAssumption DEF CallInv, Entries, FileInv, InCall, KillSession, SessInv, SessTypeOK
<1>4. FileInv'
  BY SessAssumption DEF CallInv, FileInv, KillSession, NoEntry, ScanInv, SessInv, SessTypeOK
<1>5. ScanInv'
  BY SessAssumption DEF CallInv, KillSession, LockInv, ScanInv, SessInv, SessTypeOK
<1>6. LookInv'
  BY SessAssumption DEF CallInv, FileInv, KillSession, LockInv, LookInv, LookOK, ScanInv, SessInv, SessTypeOK, UsedInv
<1>7. UsedInv'
  BY SessAssumption DEF KillSession, SessInv, SessTypeOK, UsedInv
<1>8. UniqueIds'
  BY SessAssumption DEF CallInv, FileInv, KillSession, LockInv, ScanInv, SessInv, SessTypeOK, UniqueIds
<1>9. TimeHonest'
  BY SessAssumption DEF CallInv, FileInv, KillSession, LookInv, ScanInv, SessInv, SessTypeOK, TimeHonest, UniqueIds, UsedInv
<1>10. MissInv'
  BY SessAssumption DEF Asking, KillSession, LockInv, MissInv, SessInv, SessTypeOK
<1> QED
  BY <1>1, <1>2, <1>3, <1>4, <1>5, <1>6, <1>7, <1>8, <1>9, <1>10 DEF SessInv

LEMMA DelLockInv ==
  ASSUME SessInv, NEW p \in Proc, DelLock(p)
  PROVE  SessInv'
<1>1. SessTypeOK'
  BY SessAssumption DEF CallInv, DelLock, Entries, Lock, LookInv, NoEntry, PCs, ScanInv, SessInv, SessTypeOK
<1>2. LockInv'
  BY SessAssumption DEF DelLock, Lock, LockInv, SessInv, SessTypeOK
<1>3. CallInv'
  BY SessAssumption DEF CallInv, DelLock, Entries, FileInv, InCall, Lock, SessInv, SessTypeOK
<1>4. FileInv'
  BY SessAssumption DEF CallInv, DelLock, FileInv, Lock, NoEntry, ScanInv, SessInv, SessTypeOK
<1>5. ScanInv'
  BY SessAssumption DEF CallInv, DelLock, Lock, LockInv, ScanInv, SessInv, SessTypeOK
<1>6. LookInv'
  BY SessAssumption DEF CallInv, DelLock, FileInv, Lock, LockInv, LookInv, LookOK, ScanInv, SessInv, SessTypeOK, UsedInv
<1>7. UsedInv'
  BY SessAssumption DEF DelLock, Lock, SessInv, SessTypeOK, UsedInv
<1>8. UniqueIds'
  BY SessAssumption DEF CallInv, DelLock, FileInv, Lock, LockInv, ScanInv, SessInv, SessTypeOK, UniqueIds
<1>9. TimeHonest'
  BY SessAssumption DEF CallInv, DelLock, FileInv, Lock, LookInv, ScanInv, SessInv, SessTypeOK, TimeHonest, UniqueIds, UsedInv
<1>10. MissInv'
  BY SessAssumption DEF Asking, DelLock, Lock, LockInv, MissInv, SessInv, SessTypeOK
<1> QED
  BY <1>1, <1>2, <1>3, <1>4, <1>5, <1>6, <1>7, <1>8, <1>9, <1>10 DEF SessInv

LEMMA DelReadInv ==
  ASSUME SessInv, NEW p \in Proc, DelRead(p)
  PROVE  SessInv'
<1>1. SessTypeOK'
  <2>1. file' \in [1 .. Slots -> Entries]
    BY SessAssumption DEF CallInv, DelRead, Entries, NoEntry, ScanInv, SessInv, SessTypeOK
  <2>2. size' \in 0 .. Slots
    BY SessAssumption DEF CallInv, DelRead, ScanInv, SessInv, SessTypeOK
  <2>3. lock' \in Proc \cup {NoProc} /\ clock' \in 0 .. MaxClock
    BY SessAssumption DEF CallInv, DelRead, SessInv, SessTypeOK
  <2>4. pc' \in [Proc -> PCs]
    BY SessAssumption DEF CallInv, DelRead, PCs, SessInv, SessTypeOK
  <2>5. mysid' \in [Proc -> Cookies \cup {NoCookie}] /\ sid' \in [Proc -> Cookies]
    BY SessAssumption DEF CallInv, DelRead, SessInv, SessTypeOK
  <2>6. user' \in [Proc -> Users \cup {NoUser}]
    BY SessAssumption DEF CallInv, DelRead, Entries, FileInv, SessInv, SessTypeOK
  <2>7. now' \in [Proc -> 0 .. MaxClock]
    BY SessAssumption DEF CallInv, DelRead, SessInv, SessTypeOK
  <2>8. pos' \in [Proc -> 1 .. Slots + 1]
    BY SessAssumption DEF CallInv, DelRead, SessInv, SessTypeOK
  <2>9. seek' \in [Proc -> 0 .. Slots]
    BY SessAssumption DEF CallInv, DelRead, ScanInv, SessInv, SessTypeOK
  <2>10. retry' \in [Proc -> 0 .. MaxRetry]
    BY SessAssumption DEF CallInv, DelRead, SessInv, SessTypeOK
  <2>11. used' \in [Sids -> 0 .. MaxClock] /\ missing' \subseteq Proc
    BY SessAssumption DEF CallInv, DelRead, SessInv, SessTypeOK
  <2>12. \A q \in Proc : pc'[q] = "touch" => pos'[q] <= size'
    BY SessAssumption DEF CallInv, DelRead, ScanInv, SessInv, SessTypeOK
  <2> QED
    BY <2>1, <2>2, <2>3, <2>4, <2>5, <2>6, <2>7, <2>8, <2>9, <2>10, <2>11, <2>12 DEF SessTypeOK
<1>2. LockInv'
  BY SessAssumption DEF DelRead, LockInv, SessInv, SessTypeOK
<1>3. CallInv'
  BY SessAssumption DEF CallInv, DelRead, Entries, FileInv, InCall, SessInv, SessTypeOK
<1>4. FileInv'
  BY SessAssumption DEF CallInv, DelRead, FileInv, NoEntry, ScanInv, SessInv, SessTypeOK
<1>5. ScanInv'
  BY SMTT(30), SessAssumption DEF CallInv, DelRead, LockInv, ScanInv, SessInv, SessTypeOK
<1>6. LookInv'
  BY SessAssumption DEF CallInv, DelRead, FileInv, LockInv, LookInv, LookOK, ScanInv, SessInv, SessTypeOK, UsedInv
<1>7. UsedInv'
  BY SessAssumption DEF DelRead, SessInv, SessTypeOK, UsedInv
<1>8. UniqueIds'
  BY SessAssumption DEF CallInv, DelRead, FileInv, LockInv, ScanInv, SessInv, SessTypeOK, UniqueIds
<1>9. TimeHonest'
  BY SessAssumption DEF CallInv, DelRead, FileInv, LookInv, ScanInv, SessInv, SessTypeOK, TimeHonest, UniqueIds, UsedInv
<1>10. MissInv'
  BY SessAssumption DEF Asking, DelRead, LockInv, MissInv, SessInv, SessTypeOK
<1> QED
  BY <1>1, <1>2, <1>3, <1>4, <1>5, <1>6, <1>7, <1>8, <1>9, <1>10 DEF SessInv

LEMMA DelFoundInv ==
  ASSUME SessInv, NEW p \in Proc, DelFound(p)
  PROVE  SessInv'
<1>1. SessTypeOK'
  <2>1. file' \in [1 .. Slots -> Entries]
    BY SessAssumption DEF CallInv, DelFound, Entries, NoEntry, ScanInv, SessInv, SessTypeOK
  <2>2. size' \in 0 .. Slots
    BY SessAssumption DEF CallInv, DelFound, ScanInv, SessInv, SessTypeOK
  <2>3. lock' \in Proc \cup {NoProc} /\ clock' \in 0 .. MaxClock
    BY SessAssumption DEF CallInv, DelFound, SessInv, SessTypeOK
  <2>4. pc' \in [Proc -> PCs]
    BY SessAssumption DEF CallInv, DelFound, PCs, SessInv, SessTypeOK
  <2>5. mysid' \in [Proc -> Cookies \cup {NoCookie}] /\ sid' \in [Proc -> Cookies]
    BY SessAssumption DEF CallInv, DelFound, SessInv, SessTypeOK
  <2>6. user' \in [Proc -> Users \cup {NoUser}]
    BY SessAssumption DEF CallInv, DelFound, Entries, FileInv, SessInv, SessTypeOK
  <2>7. now' \in [Proc -> 0 .. MaxClock]
    <3>1. pos[p] \in 1 .. Slots
      BY SessAssumption DEF SessInv, SessTypeOK, DelFound
    <3>2. file[pos[p]].time \in 0 .. MaxClock
      BY <3>1 DEF SessInv, SessTypeOK, Entries
    <3> QED
      BY <3>2 DEF DelFound, SessInv, SessTypeOK
  <2>8. pos' \in [Proc -> 1 .. Slots + 1]
    BY SessAssumption DEF CallInv, DelFound, SessInv, SessTypeOK
  <2>9. seek' \in [Proc -> 0 .. Slots]
    BY SessAssumption DEF CallInv, DelFound, ScanInv, SessInv, SessTypeOK
  <2>10. retry' \in [Proc -> 0 .. MaxRetry]
    BY SessAssumption DEF CallInv, DelFound, SessInv, SessTypeOK
  <2>11. used' \in [Sids -> 0 .. MaxClock] /\ missing' \subseteq Proc
    BY SessAssumption DEF CallInv, DelFound, SessInv, SessTypeOK
  <2>12. \A q \in Proc : pc'[q] = "touch" => pos'[q] <= size'
    BY SessAssumption DEF CallInv, DelFound, ScanInv, SessInv, SessTypeOK
  <2> QED
    BY <2>1, <2>2, <2>3, <2>4, <2>5, <2>6, <2>7, <2>8, <2>9, <2>10, <2>11, <2>12 DEF SessTypeOK
<1>2. LockInv'
  BY SessAssumption DEF DelFound, LockInv, SessInv, SessTypeOK
<1>3. CallInv'
  BY SessAssumption DEF CallInv, DelFound, Entries, FileInv, InCall, SessInv, SessTypeOK
<1>4. FileInv'
  BY SessAssumption DEF CallInv, DelFound, FileInv, NoEntry, ScanInv, SessInv, SessTypeOK
<1>5. ScanInv'
  BY SMTT(30), SessAssumption DEF CallInv, DelFound, LockInv, ScanInv, SessInv, SessTypeOK
<1>6. LookInv'
  BY SessAssumption DEF CallInv, DelFound, FileInv, LockInv, LookInv, LookOK, ScanInv, SessInv, SessTypeOK, UsedInv
<1>7. UsedInv'
  BY SessAssumption DEF DelFound, SessInv, SessTypeOK, UsedInv
<1>8. UniqueIds'
  BY SessAssumption DEF CallInv, DelFound, FileInv, LockInv, ScanInv, SessInv, SessTypeOK, UniqueIds
<1>9. TimeHonest'
  BY SessAssumption DEF CallInv, DelFound, FileInv, LookInv, ScanInv, SessInv, SessTypeOK, TimeHonest, UniqueIds, UsedInv
<1>10. MissInv'
  BY SessAssumption DEF Asking, DelFound, LockInv, MissInv, SessInv, SessTypeOK
<1> QED
  BY <1>1, <1>2, <1>3, <1>4, <1>5, <1>6, <1>7, <1>8, <1>9, <1>10 DEF SessInv

LEMMA DelEraseInv ==
  ASSUME SessInv, NEW p \in Proc, DelErase(p)
  PROVE  SessInv'
<1>1. SessTypeOK'
  <2>1. file' \in [1 .. Slots -> Entries]
    <3> DEFINE e == Erased(file[pos[p]], now[p])
    <3>1. e \in Entries
      <4>1. pos[p] \in 1 .. Slots /\ now[p] \in 0 .. MaxClock
        BY SessAssumption DEF SessInv, SessTypeOK, ScanInv, DelErase
      <4>2. file[pos[p]] \in Entries
        BY <4>1 DEF SessInv, SessTypeOK
      <4> QED
        BY <4>1, <4>2, EntryTypes
    <3>2. file' = [file EXCEPT ![pos[p]] = e]
      BY DEF DelErase, Erased
    <3> HIDE DEF e
    <3> QED
      BY <3>1, <3>2 DEF SessInv, SessTypeOK
  <2>2. size' \in 0 .. Slots
    BY SessAssumption DEF Asking, CallInv, DelErase, NoEntry, Return, ScanInv, SessInv, SessTypeOK, Unlock
  <2>3. lock' \in Proc \cup {NoProc} /\ clock' \in 0 .. MaxClock
    BY SessAssumption DEF Asking, CallInv, DelErase, NoEntry, Return, SessInv, SessTypeOK, Unlock
  <2>4. pc' \in [Proc -> PCs]
    BY SessAssumption DEF Asking, CallInv, DelErase, NoEntry, PCs, Return, SessInv, SessTypeOK, Unlock
  <2>5. mysid' \in [Proc -> Cookies \cup {NoCookie}] /\ sid' \in [Proc -> Cookies]
    BY SessAssumption DEF Asking, CallInv, DelErase, NoEntry, Return, SessInv, SessTypeOK, Unlock
  <2>6. user' \in [Proc -> Users \cup {NoUser}]
    BY SessAssumption DEF Asking, CallInv, DelErase, Entries, FileInv, NoEntry, Return, SessInv, SessTypeOK, Unlock
  <2>7. now' \in [Proc -> 0 .. MaxClock]
    BY SessAssumption DEF Asking, CallInv, DelErase, NoEntry, Return, SessInv, SessTypeOK, Unlock
  <2>8. pos' \in [Proc -> 1 .. Slots + 1]
    BY SessAssumption DEF Asking, CallInv, DelErase, NoEntry, Return, SessInv, SessTypeOK, Unlock
  <2>9. seek' \in [Proc -> 0 .. Slots]
    BY SessAssumption DEF Asking, CallInv, DelErase, NoEntry, Return, ScanInv, SessInv, SessTypeOK, Unlock
  <2>10. retry' \in [Proc -> 0 .. MaxRetry]
    BY SessAssumption DEF Asking, CallInv, DelErase, NoEntry, Return, SessInv, SessTypeOK, Unlock
  <2>11. used' \in [Sids -> 0 .. MaxClock] /\ missing' \subseteq Proc
    BY SessAssumption DEF Asking, CallInv, DelErase, NoEntry, Return, SessInv, SessTypeOK, Unlock
  <2>12. \A q \in Proc : pc'[q] = "touch" => pos'[q] <= size'
    BY SessAssumption DEF Asking, CallInv, DelErase, NoEntry, Return, ScanInv, SessInv, SessTypeOK, Unlock
  <2> QED
    BY <2>1, <2>2, <2>3, <2>4, <2>5, <2>6, <2>7, <2>8, <2>9, <2>10, <2>11, <2>12 DEF SessTypeOK
<1>2. LockInv'
  BY SessAssumption DEF Asking, DelErase, LockInv, NoEntry, Return, SessInv, SessTypeOK, Unlock
<1>3. CallInv'
  BY SessAssumption DEF Asking, CallInv, DelErase, Entries, FileInv, InCall, NoEntry, Return, SessInv, SessTypeOK, Unlock
<1>4. FileInv'
  BY SessAssumption DEF Asking, CallInv, DelErase, FileInv, NoEntry, Return, ScanInv, SessInv, SessTypeOK, Unlock
<1>5. ScanInv'
  BY SessAssumption DEF Asking, CallInv, DelErase, LockInv, NoEntry, Return, ScanInv, SessInv, SessTypeOK, Unlock
<1>6. LookInv'
  <2> SUFFICES ASSUME NEW q \in Proc
               PROVE  LookOK(q)'
    BY DEF LookInv
  <2>1. size' = size /\ pos[p] \in 1 .. size /\ file[pos[p]].id = sid[p]
    BY SessAssumption DEF SessInv, SessTypeOK, ScanInv, DelErase
  <2>2. \A i \in 1 .. size : i # pos[p] => file'[i] = file[i]
    BY <2>1 DEF SessInv, SessTypeOK, DelErase
  <2>3. file'[pos[p]].id = NoSid
    BY <2>1, SessAssumption DEF SessInv, SessTypeOK, DelErase, NoEntry
  <2>4. CASE q = p
    BY <2>4 DEF LookOK, DelErase, Return, SessInv, SessTypeOK
  <2>5. CASE q # p
    <3>1. /\ pc'[q] = pc[q] /\ pos'[q] = pos[q] /\ sid'[q] = sid[q] /\ now'[q] = now[q]
          /\ q \in missing => q \in missing'
          /\ Asking(q) /\ sid[q] # NoSid /\ sid[q] = sid[p] => q \in missing'
      BY <2>5 DEF DelErase, Return, SessInv, SessTypeOK
    <3>2. LookOK(q)
      BY DEF SessInv, LookInv
    <3>3. pc[q] = "look" => LookOK(q)'
      BY <2>1, <2>2, <3>1, <3>2 DEF LookOK, DelErase, Asking
    <3>4. pc[q] = "touch" => LookOK(q)'
      <4> SUFFICES ASSUME pc[q] = "touch" PROVE LookOK(q)'
        OBVIOUS
      <4>1. pos[q] \in 1 .. size /\ file[pos[q]].id \in Sids \cup {NoSid}
        BY SMTT(30), SessAssumption DEF SessInv, SessTypeOK, Entries
      <4>2. CASE pos[q] = pos[p]
        BY <2>1, <2>3, <3>1, <3>2, <4>2 DEF LookOK, Asking, DelErase
      <4>3. CASE pos[q] # pos[p]
        <5>1. file[pos[q]].id # NoSid => file[pos[q]].id # sid[p]
          BY <2>1, <4>1, <4>3, SessAssumption DEF SessInv, UniqueIds
        <5>2. file[pos[q]].id \in Sids => used'[file[pos[q]].id] = used[file[pos[q]].id]
          BY <5>1, SessAssumption DEF SessInv, SessTypeOK, DelErase
        <5> QED
          BY <2>2, <3>1, <3>2, <4>1, <4>3, <5>2 DEF LookOK
      <4> QED
        BY <4>2, <4>3
    <3> QED
      BY <3>1, <3>3, <3>4 DEF LookOK
  <2> QED
    BY <2>4, <2>5
<1>7. UsedInv'
  BY SessAssumption DEF Asking, DelErase, NoEntry, Return, SessInv, SessTypeOK, Unlock, UsedInv
<1>8. UniqueIds'
  BY SessAssumption DEF Asking, CallInv, DelErase, FileInv, LockInv, NoEntry, Return, ScanInv, SessInv, SessTypeOK, UniqueIds, Unlock
<1>9. TimeHonest'
  <2> SUFFICES ASSUME NEW i \in 1 .. size', file'[i].id # NoSid
               PROVE  /\ file'[i].time <= used'[file'[i].id]
                      /\ used'[file'[i].id] <= file'[i].time + Lifetime
    BY DEF TimeHonest
  <2>1. size' = size /\ pos[p] \in 1 .. size /\ i \in 1 .. Slots /\ file[pos[p]].id = sid[p]
    BY SessAssumption DEF SessInv, SessTypeOK, ScanInv, DelErase
  <2>2. i # pos[p] /\ file'[i] = file[i]
    BY <2>1 DEF SessInv, SessTypeOK, DelErase, NoEntry
  <2>3. file[i].id # sid[p]
    BY <2>1, <2>2, SessAssumption DEF SessInv, UniqueIds, DelErase
  <2>4. used'[file[i].id] = used[file[i].id]
    BY <2>1, <2>2, <2>3, SessAssumption DEF SessInv, SessTypeOK, Entries, DelErase
  <2> QED
    BY <2>1, <2>2, <2>4 DEF SessInv, TimeHonest
<1>10. MissInv'
  BY SessAssumption DEF Asking, DelErase, LockInv, MissInv, NoEntry, Return, SessInv, SessTypeOK, Unlock
<1> QED
  BY <1>1, <1>2, <1>3, <1>4, <1>5, <1>6, <1>7, <1>8, <1>9, <1>10 DEF SessInv

LEMMA DelNoneInv ==
  ASSUME SessInv, NEW p \in Proc, DelNone(p)
  PROVE  SessInv'
<1>1. SessTypeOK'
  <2>1. file' \in [1 .. Slots -> Entries]
    BY SessAssumption DEF CallInv, DelNone, Entries, NoEntry, Return, ScanInv, SessInv, SessTypeOK, Unlock
  <2>2. size' \in 0 .. Slots
    BY SessAssumption DEF CallInv, DelNone, Return, ScanInv, SessInv, SessTypeOK, Unlock
  <2>3. lock' \in Proc \cup {NoProc} /\ clock' \in 0 .. MaxClock
    BY SessAssumption DEF CallInv, DelNone, Return, SessInv, SessTypeOK, Unlock
  <2>4. pc' \in [Proc -> PCs]
    BY SessAssumption DEF CallInv, DelNone, PCs, Return, SessInv, SessTypeOK, Unlock
  <2>5. mysid' \in [Proc -> Cookies \cup {NoCookie}] /\ sid' \in [Proc -> Cookies]
    BY SessAssumption DEF CallInv, DelNone, Return, SessInv, SessTypeOK, Unlock
  <2>6. user' \in [Proc -> Users \cup {NoUser}]
    BY SessAssumption DEF CallInv, DelNone, Entries, FileInv, Return, SessInv, SessTypeOK, Unlock
  <2>7. now' \in [Proc -> 0 .. MaxClock]
    BY SessAssumption DEF CallInv, DelNone, Return, SessInv, SessTypeOK, Unlock
  <2>8. pos' \in [Proc -> 1 .. Slots + 1]
    BY SessAssumption DEF CallInv, DelNone, Return, SessInv, SessTypeOK, Unlock
  <2>9. seek' \in [Proc -> 0 .. Slots]
    BY SessAssumption DEF CallInv, DelNone, Return, ScanInv, SessInv, SessTypeOK, Unlock
  <2>10. retry' \in [Proc -> 0 .. MaxRetry]
    BY SessAssumption DEF CallInv, DelNone, Return, SessInv, SessTypeOK, Unlock
  <2>11. used' \in [Sids -> 0 .. MaxClock] /\ missing' \subseteq Proc
    BY SessAssumption DEF CallInv, DelNone, Return, SessInv, SessTypeOK, Unlock
  <2>12. \A q \in Proc : pc'[q] = "touch" => pos'[q] <= size'
    BY SessAssumption DEF CallInv, DelNone, Return, ScanInv, SessInv, SessTypeOK, Unlock
  <2> QED
    BY <2>1, <2>2, <2>3, <2>4, <2>5, <2>6, <2>7, <2>8, <2>9, <2>10, <2>11, <2>12 DEF SessTypeOK
<1>2. LockInv'
  BY SessAssumption DEF DelNone, LockInv, Return, SessInv, SessTypeOK, Unlock
<1>3. CallInv'
  BY SessAssumption DEF CallInv, DelNone, Entries, FileInv, InCall, Return, SessInv, SessTypeOK, Unlock
<1>4. FileInv'
  BY SessAssumption DEF CallInv, DelNone, FileInv, NoEntry, Return, ScanInv, SessInv, SessTypeOK, Unlock
<1>5. ScanInv'
  BY SessAssumption DEF CallInv, DelNone, LockInv, Return, ScanInv, SessInv, SessTypeOK, Unlock
<1>6. LookInv'
  BY ZenonT(30), SessAssumption DEF CallInv, DelNone, FileInv, LockInv, LookInv, LookOK, Return, ScanInv, SessInv, SessTypeOK, Unlock, UsedInv
<1>7. UsedInv'
  BY SessAssumption DEF DelNone, Return, SessInv, SessTypeOK, Unlock, UsedInv
<1>8. UniqueIds'
  BY SessAssumption DEF CallInv, DelNone, FileInv, LockInv, Return, ScanInv, SessInv, SessTypeOK, UniqueIds, Unlock
<1>9. TimeHonest'
  BY SessAssumption DEF CallInv, DelNone, FileInv, LookInv, Return, ScanInv, SessInv, SessTypeOK, TimeHonest, UniqueIds, Unlock, UsedInv
<1>10. MissInv'
  BY SessAssumption DEF Asking, DelNone, LockInv, MissInv, Return, SessInv, SessTypeOK, Unlock
<1> QED
  BY <1>1, <1>2, <1>3, <1>4, <1>5, <1>6, <1>7, <1>8, <1>9, <1>10 DEF SessInv

LEMMA GoneInv ==
  ASSUME SessInv, NEW p \in Proc, Gone(p)
  PROVE  SessInv'
<1>1. SessTypeOK'
  <2>1. file' \in [1 .. Slots -> Entries]
    BY SessAssumption DEF CallInv, Entries, Gone, NoEntry, ScanInv, SessInv, SessTypeOK
  <2>2. size' \in 0 .. Slots
    BY SessAssumption DEF CallInv, Gone, ScanInv, SessInv, SessTypeOK
  <2>3. lock' \in Proc \cup {NoProc} /\ clock' \in 0 .. MaxClock
    BY SessAssumption DEF CallInv, Gone, SessInv, SessTypeOK
  <2>4. pc' \in [Proc -> PCs]
    BY SessAssumption DEF CallInv, Gone, PCs, SessInv, SessTypeOK
  <2>5. mysid' \in [Proc -> Cookies \cup {NoCookie}] /\ sid' \in [Proc -> Cookies]
    BY SessAssumption DEF CallInv, Gone, SessInv, SessTypeOK
  <2>6. user' \in [Proc -> Users \cup {NoUser}]
    BY SessAssumption DEF CallInv, Entries, FileInv, Gone, SessInv, SessTypeOK
  <2>7. now' \in [Proc -> 0 .. MaxClock]
    BY SessAssumption DEF CallInv, Gone, SessInv, SessTypeOK
  <2>8. pos' \in [Proc -> 1 .. Slots + 1]
    BY SessAssumption DEF CallInv, Gone, SessInv, SessTypeOK
  <2>9. seek' \in [Proc -> 0 .. Slots]
    BY SessAssumption DEF CallInv, Gone, ScanInv, SessInv, SessTypeOK
  <2>10. retry' \in [Proc -> 0 .. MaxRetry]
    BY SessAssumption DEF CallInv, Gone, SessInv, SessTypeOK
  <2>11. used' \in [Sids -> 0 .. MaxClock] /\ missing' \subseteq Proc
    BY SessAssumption DEF CallInv, Gone, SessInv, SessTypeOK
  <2>12. \A q \in Proc : pc'[q] = "touch" => pos'[q] <= size'
    BY SessAssumption DEF CallInv, Gone, ScanInv, SessInv, SessTypeOK
  <2> QED
    BY <2>1, <2>2, <2>3, <2>4, <2>5, <2>6, <2>7, <2>8, <2>9, <2>10, <2>11, <2>12 DEF SessTypeOK
<1>2. LockInv'
  BY SessAssumption DEF Gone, LockInv, SessInv, SessTypeOK
<1>3. CallInv'
  BY SessAssumption DEF CallInv, Entries, FileInv, Gone, InCall, SessInv, SessTypeOK
<1>4. FileInv'
  BY SessAssumption DEF CallInv, FileInv, Gone, NoEntry, ScanInv, SessInv, SessTypeOK
<1>5. ScanInv'
  BY SessAssumption DEF CallInv, Gone, LockInv, ScanInv, SessInv, SessTypeOK
<1>6. LookInv'
  BY SessAssumption DEF CallInv, FileInv, Gone, LockInv, LookInv, LookOK, ScanInv, SessInv, SessTypeOK, UsedInv
<1>7. UsedInv'
  BY SessAssumption DEF Gone, SessInv, SessTypeOK, UsedInv
<1>8. UniqueIds'
  BY SessAssumption DEF CallInv, FileInv, Gone, LockInv, ScanInv, SessInv, SessTypeOK, UniqueIds
<1>9. TimeHonest'
  BY SessAssumption DEF CallInv, FileInv, Gone, LookInv, ScanInv, SessInv, SessTypeOK, TimeHonest, UniqueIds, UsedInv
<1>10. MissInv'
  BY SessAssumption DEF Asking, Gone, LockInv, MissInv, SessInv, SessTypeOK
<1> QED
  BY <1>1, <1>2, <1>3, <1>4, <1>5, <1>6, <1>7, <1>8, <1>9, <1>10 DEF SessInv

LEMMA TickInv ==
  ASSUME SessInv, Tick
  PROVE  SessInv'
<1>1. SessTypeOK'
  <2>1. file' \in [1 .. Slots -> Entries]
    BY SessAssumption DEF CallInv, Entries, NoEntry, ScanInv, SessInv, SessTypeOK, Tick, procvars
  <2>2. size' \in 0 .. Slots
    BY SessAssumption DEF CallInv, ScanInv, SessInv, SessTypeOK, Tick, procvars
  <2>3. lock' \in Proc \cup {NoProc} /\ clock' \in 0 .. MaxClock
    BY SessAssumption DEF CallInv, SessInv, SessTypeOK, Tick, procvars
  <2>4. pc' \in [Proc -> PCs]
    BY SessAssumption DEF CallInv, PCs, SessInv, SessTypeOK, Tick, procvars
  <2>5. mysid' \in [Proc -> Cookies \cup {NoCookie}] /\ sid' \in [Proc -> Cookies]
    BY SessAssumption DEF CallInv, SessInv, SessTypeOK, Tick, procvars
  <2>6. user' \in [Proc -> Users \cup {NoUser}]
    BY SessAssumption DEF CallInv, Entries, FileInv, SessInv, SessTypeOK, Tick, procvars
  <2>7. now' \in [Proc -> 0 .. MaxClock]
    BY SessAssumption DEF CallInv, SessInv, SessTypeOK, Tick, procvars
  <2>8. pos' \in [Proc -> 1 .. Slots + 1]
    BY SessAssumption DEF CallInv, SessInv, SessTypeOK, Tick, procvars
  <2>9. seek' \in [Proc -> 0 .. Slots]
    BY SessAssumption DEF CallInv, ScanInv, SessInv, SessTypeOK, Tick, procvars
  <2>10. retry' \in [Proc -> 0 .. MaxRetry]
    BY SessAssumption DEF CallInv, SessInv, SessTypeOK, Tick, procvars
  <2>11. used' \in [Sids -> 0 .. MaxClock] /\ missing' \subseteq Proc
    BY SessAssumption DEF CallInv, SessInv, SessTypeOK, Tick, procvars
  <2>12. \A q \in Proc : pc'[q] = "touch" => pos'[q] <= size'
    BY SessAssumption DEF CallInv, ScanInv, SessInv, SessTypeOK, Tick, procvars
  <2> QED
    BY <2>1, <2>2, <2>3, <2>4, <2>5, <2>6, <2>7, <2>8, <2>9, <2>10, <2>11, <2>12 DEF SessTypeOK
<1>2. LockInv'
  BY SessAssumption DEF LockInv, SessInv, SessTypeOK, Tick, procvars
<1>3. CallInv'
  BY SessAssumption DEF CallInv, Entries, FileInv, InCall, SessInv, SessTypeOK, Tick, procvars
<1>4. FileInv'
  BY SessAssumption DEF CallInv, FileInv, NoEntry, ScanInv, SessInv, SessTypeOK, Tick, procvars
<1>5. ScanInv'
  BY SessAssumption DEF CallInv, LockInv, ScanInv, SessInv, SessTypeOK, Tick, procvars
<1>6. LookInv'
  BY SessAssumption DEF CallInv, FileInv, LockInv, LookInv, LookOK, ScanInv, SessInv, SessTypeOK, Tick, UsedInv, procvars
<1>7. UsedInv'
  BY SessAssumption DEF SessInv, SessTypeOK, Tick, UsedInv, procvars
<1>8. UniqueIds'
  BY SessAssumption DEF CallInv, FileInv, LockInv, ScanInv, SessInv, SessTypeOK, Tick, UniqueIds, procvars
<1>9. TimeHonest'
  BY SessAssumption DEF CallInv, FileInv, LookInv, ScanInv, SessInv, SessTypeOK, Tick, TimeHonest, UniqueIds, UsedInv, procvars
<1>10. MissInv'
  BY SessAssumption DEF Asking, LockInv, MissInv, SessInv, SessTypeOK, Tick, procvars
<1> QED
  BY <1>1, <1>2, <1>3, <1>4, <1>5, <1>6, <1>7, <1>8, <1>9, <1>10 DEF SessInv

-----------------------------------------------------------------------------
(* The theorems.                                                           *)

LEMMA SessInitInv == Init => SessInv
  BY SessAssumption
     DEF Init, SessInv, SessTypeOK, PCs, Entries, NoEntry, LockInv, CallInv, InCall, FileInv,
         ScanInv, LookInv, LookOK, UsedInv, MissInv, Asking, UniqueIds, TimeHonest

LEMMA SessNextInv == SessInv /\ [Next]_vars => SessInv'
<1> SUFFICES ASSUME SessInv, [Next]_vars PROVE SessInv'
  OBVIOUS
<1>1. ASSUME NEW p \in Proc, CallStep(p) PROVE SessInv'
  BY <1>1, LookNextInv, LookFoundInv, LookFailsInv, LookTouchInv, LookRefusedInv, NewLockInv,
     ScanReadInv, ScanDuplicateInv, GoneInv, NewWriteInv, NewWriteFailsInv, DelLockInv,
     DelReadInv, DelFoundInv, DelEraseInv, DelNoneInv
     DEF CallStep, ScanDie
<1>2. ASSUME NEW p \in Proc, Script(p) PROVE SessInv'
  BY <1>2, AnonymousInv, LookupInv, NewSessionInv, KillSessionInv, GoneInv
     DEF Script, Exit, Crash
<1>3. CASE Tick
  BY <1>3, TickInv
<1>4. CASE UNCHANGED vars
  BY <1>4 DEF vars, SessInv, SessTypeOK, PCs, Entries, LockInv, CallInv, InCall, FileInv,
              ScanInv, LookInv, LookOK, UsedInv, MissInv, Asking, UniqueIds, TimeHonest
<1> QED
  BY <1>1, <1>2, <1>3, <1>4 DEF Next

\* The inductive invariant holds in every reachable state.
THEOREM SessInvariant == Spec => []SessInv
  BY SessInitInv, SessNextInv, PTL DEF Spec

\* The variables keep their types, and what a lookup or a login is about to
\* write is an entry of the file.
THEOREM SessTypes == Spec => []SessTypeOK
<1>1. SessInv => SessTypeOK
  BY DEF SessInv
<1> QED
  BY <1>1, SessInvariant, PTL

\* No session id is in the file twice.
THEOREM IdsAreUnique == Spec => []UniqueIds
<1>1. SessInv => UniqueIds
  BY DEF SessInv
<1> QED
  BY <1>1, SessInvariant, PTL

\* The time in an entry is that of the last use, up to the length of a call.
THEOREM TimesAreHonest == Spec => []TimeHonest
<1>1. SessInv => TimeHonest
  BY DEF SessInv
<1> QED
  BY <1>1, SessInvariant, PTL

\* A session that session_delete() was called for is gone when it returns.
THEOREM KilledAreGone == Spec => KilledIsGone
<1>1. SessInv /\ [Next]_vars =>
        [\A p \in Proc :
           pc[p] \in {"delete", "erase"} /\ pc'[p] = "script" /\ sid[p] # NoSid =>
             ~ \E i \in 1 .. size' : file'[i].id = sid[p]]_vars
  <2> SUFFICES ASSUME SessInv, Next, NEW p \in Proc, pc[p] \in {"delete", "erase"},
                      pc'[p] = "script", sid[p] # NoSid
               PROVE  ~ \E i \in 1 .. size' : file'[i].id = sid[p]
    OBVIOUS
  <2>1. DelErase(p) \/ DelNone(p)
    <3>1. ASSUME NEW q \in Proc, CallStep(q) PROVE DelErase(p) \/ DelNone(p)
      <4>1. q # p => pc'[p] = pc[p]
        BY <3>1 DEF SessInv, SessTypeOK, CallStep, LookNext, LookFound, LookFails, LookTouch,
                    LookRefused, NewLock, ScanRead, ScanDuplicate, ScanDie, NewWrite,
                    NewWriteFails, DelLock, DelRead, DelFound, DelErase, DelNone, Return, Gone
      <4>2. q = p
        BY <4>1
      <4>3. DelRead(p) \/ DelFound(p) \/ DelErase(p) \/ DelNone(p)
        BY <3>1, <4>2 DEF CallStep, LookNext, LookFound, LookFails, LookTouch, LookRefused,
                          NewLock, ScanRead, ScanDuplicate, ScanDie, NewWrite, NewWriteFails,
                          DelLock
      <4>4. ~DelRead(p) /\ ~DelFound(p)
        BY DEF DelRead, DelFound, SessInv, SessTypeOK
      <4> QED
        BY <4>3, <4>4
    <3>2. ASSUME NEW q \in Proc, Script(q) PROVE FALSE
      BY <3>2 DEF SessInv, SessTypeOK, Script, Anonymous, Lookup, NewSession, KillSession, Exit,
                  Crash, Gone
    <3>3. ~Tick
      BY DEF Tick, procvars
    <3> QED
      BY <3>1, <3>2, <3>3 DEF Next
  <2>2. CASE DelErase(p)
    <3>1. /\ pos[p] \in 1 .. size /\ pos[p] \in 1 .. Slots /\ size' = size
          /\ file[pos[p]].id = sid[p]
      BY <2>2, SessAssumption DEF SessInv, SessTypeOK, ScanInv, DelErase
    <3>2. \A i \in 1 .. size : file'[i].id = IF i = pos[p] THEN NoSid ELSE file[i].id
      BY SMTT(30), <2>2, <3>1, SessAssumption DEF SessInv, SessTypeOK, Entries, DelErase
    <3> QED
      BY <3>1, <3>2, SessAssumption DEF SessInv, UniqueIds
  <2>3. CASE DelNone(p)
    BY <2>3 DEF SessInv, SessTypeOK, ScanInv, DelNone
  <2> QED
    BY <2>1, <2>2, <2>3
<1> QED
  BY <1>1, SessInvariant, PTL DEF Spec, KilledIsGone

-----------------------------------------------------------------------------
(* The refinement: lemmas about the owners in a file, then one lemma per   *)
(* action that changes what Sessions sees.                                 *)

LEMMA OwnerPresent ==
  ASSUME NEW f, NEW n \in Nat, NEW s, NEW i \in 1 .. n, f[i].id = s,
         \A j \in 1 .. n : f[j].id = s => j = i
  PROVE  OwnerIn(f, n, s) = f[i].user
<1>1. (CHOOSE j \in 1 .. n : f[j].id = s) = i
  OBVIOUS
<1> QED
  BY <1>1 DEF OwnerIn

LEMMA OwnerAbsent ==
  ASSUME NEW f, NEW n \in Nat, NEW s, \A j \in 1 .. n : f[j].id # s
  PROVE  OwnerIn(f, n, s) = NoUser
  BY DEF OwnerIn

\* The owner of a session is in its entry.
LEMMA OwnerFound ==
  ASSUME SessInv, NEW i \in 1 .. size, file[i].id # NoSid
  PROVE  /\ file[i].id \in Sids /\ OwnerMap[file[i].id] = file[i].user
         /\ OwnerMap[file[i].id] # NoUser /\ OwnerMap[file[i].id] \in Users
<1>1. file[i].id \in Sids /\ size \in Nat /\ file[i].user \in Users
  BY SessAssumption DEF SessInv, SessTypeOK, Entries, FileInv
<1>2. OwnerIn(file, size, file[i].id) = file[i].user
  BY <1>1, OwnerPresent DEF SessInv, UniqueIds
<1> QED
  BY <1>1, <1>2, SessAssumption DEF OwnerMap

\* What is not in the file has no owner.
LEMMA OwnerMissing ==
  ASSUME SessInv, NEW s \in Sids, ~Present(s)
  PROVE  OwnerMap[s] = NoUser
<1>1. size \in Nat
  BY DEF SessInv, SessTypeOK
<1> QED
  BY <1>1, OwnerAbsent, SessAssumption DEF OwnerMap, Present

\* The owners do not change with the times of entries.
LEMMA OwnersKept ==
  ASSUME SessInv, size' = size,
         \A i \in 1 .. Slots : file'[i].id = file[i].id /\ file'[i].user = file[i].user
  PROVE  OwnerMap' = OwnerMap
<1> SUFFICES ASSUME NEW s \in Sids PROVE OwnerIn(file', size', s) = OwnerIn(file, size, s)
  BY DEF OwnerMap
<1>1. size \in Nat /\ \A i \in 1 .. size : i \in 1 .. Slots
  BY SessAssumption DEF SessInv, SessTypeOK
<1>2. CASE \E i \in 1 .. size : file[i].id = s
  <2>1. PICK i \in 1 .. size : file[i].id = s
    BY <1>2
  <2>2. \A j \in 1 .. size : file[j].id = s => j = i
    BY <2>1, SessAssumption DEF SessInv, UniqueIds
  <2>3. OwnerIn(file, size, s) = file[i].user
    BY <1>1, <2>1, <2>2, OwnerPresent
  <2>4. OwnerIn(file', size', s) = file'[i].user
    <3>1. file'[i].id = s /\ \A j \in 1 .. size : file'[j].id = s => j = i
      BY <1>1, <2>1, <2>2
    <3> QED
      BY <1>1, <3>1, OwnerPresent
  <2> QED
    BY <1>1, <2>3, <2>4
<1>3. CASE ~ \E i \in 1 .. size : file[i].id = s
  BY <1>1, <1>3, OwnerAbsent
<1> QED
  BY <1>2, <1>3

\* What session_delete() writes.
LEMMA DelErased ==
  ASSUME SessInv, NEW p \in Proc, DelErase(p)
  PROVE  /\ \A i \in 1 .. Slots : i # pos[p] => file'[i] = file[i]
         /\ \A i \in 1 .. Slots : file'[i].user = file[i].user
         /\ file'[pos[p]].id = NoSid
<1>1. pos[p] \in 1 .. Slots
  BY SessAssumption DEF SessInv, SessTypeOK, ScanInv, DelErase
<1>2. file' = [file EXCEPT ![pos[p]] = Erased(file[pos[p]], now[p])]
  BY DEF DelErase, Erased
<1>3. file[pos[p]] \in Entries
  BY <1>1 DEF SessInv, SessTypeOK
<1>4. /\ Erased(file[pos[p]], now[p]).user = file[pos[p]].user
      /\ Erased(file[pos[p]], now[p]).id = NoSid
  BY <1>3 DEF Entries, Erased
<1> QED
  BY <1>1, <1>2, <1>4 DEF SessInv, SessTypeOK

LEMMA LookupRefines ==
  ASSUME SessInv, NEW p \in Proc, NEW s \in Cookies, Lookup(p, s)
  PROVE  Store!Ask(p, s)
<1>1. AskedMap[p] = NoCookie /\ AskedMap' = [AskedMap EXCEPT ![p] = s]
  BY DEF AskedMap, Asking, Lookup, SessInv, SessTypeOK
<1>2. BegunMap' = [BegunMap EXCEPT ![p] = clock]
  BY DEF BegunMap, Asking, Lookup, SessInv, SessTypeOK
<1>3. AnswerMap' = AnswerMap
  BY DEF AnswerMap, Lookup, SessInv, SessTypeOK
<1>4. OwnerMap' = OwnerMap /\ DoomedMap' = DoomedMap /\ LeftMap' = LeftMap
  BY DEF OwnerMap, DoomedMap, LeftMap, Lookup, SessInv, SessTypeOK
<1>5. Present(s) <=> ~(s = NoSid \/ OwnerMap[s] = NoUser)
  <2>1. ASSUME NEW i \in 1 .. size, file[i].id = s, s # NoSid PROVE OwnerMap[s] # NoUser
    BY <2>1, OwnerFound, SessAssumption
  <2> QED
    BY <2>1, OwnerMissing DEF Present
<1> QED
  BY <1>1, <1>2, <1>3, <1>4, <1>5 DEF Store!Ask, Lookup

LEMMA LookFoundRefines ==
  ASSUME SessInv, NEW p \in Proc, LookFound(p)
  PROVE  Store!Accept(p) \/ Store!AcceptEmpty(p)
<1>1. sid[p] \in Cookies /\ pos[p] \in 1 .. size
  BY SessAssumption DEF SessInv, SessTypeOK, LookFound
<1>2. AskedMap[p] = sid[p] /\ AskedMap' = AskedMap /\ BegunMap[p] = now[p] /\ BegunMap' = BegunMap
  BY DEF AskedMap, BegunMap, Asking, LookFound, SessInv, SessTypeOK
<1>4. AnswerMap[p] = Pending /\ AnswerMap' = [AnswerMap EXCEPT ![p] = file[pos[p]].user]
  BY DEF AnswerMap, LookFound, SessInv, SessTypeOK
<1>5. OwnerMap' = OwnerMap /\ DoomedMap' = DoomedMap /\ LeftMap' = LeftMap
  BY DEF OwnerMap, DoomedMap, LeftMap, LookFound, SessInv, SessTypeOK
<1>6. CASE sid[p] \in Sids
  <2>1. OwnerMap[sid[p]] = file[pos[p]].user /\ OwnerMap[sid[p]] # NoUser
    BY <1>1, <1>6, OwnerFound, SessAssumption DEF LookFound
  <2>2. used[sid[p]] + Expire >= now[p]
    <3>1. file[pos[p]].time \in Int /\ used[sid[p]] \in Int /\ now[p] \in Int
      BY <1>1, <1>6, SessAssumption DEF SessInv, SessTypeOK, Entries
    <3>2. file[pos[p]].time <= used[sid[p]] /\ ~(file[pos[p]].time + Expire < now[p])
      BY <1>1, <1>6, SessAssumption DEF SessInv, TimeHonest, LookFound, Expired
    <3> QED
      BY <3>1, <3>2, SessAssumption
  <2> QED
    BY <1>1, <1>2, <1>4, <1>5, <1>6, <2>1, <2>2, SessAssumption DEF Store!Accept, LookFound
<1>7. CASE sid[p] = NoSid
  <2>1. file[pos[p]].user \in LeftMap
    BY <1>1, <1>7 DEF LeftMap, LookFound
  <2> QED
    BY <1>1, <1>2, <1>4, <1>5, <1>7, <2>1 DEF Store!AcceptEmpty, LookFound
<1> QED
  BY <1>1, <1>6, <1>7

LEMMA LookFailsRefines ==
  ASSUME SessInv, NEW p \in Proc, LookFails(p)
  PROVE  Store!Refuse(p)
<1>1. sid[p] \in Cookies
  BY DEF SessInv, SessTypeOK, LookFails
<1>2. AskedMap[p] = sid[p] /\ AskedMap' = AskedMap /\ BegunMap' = BegunMap
  BY DEF AskedMap, BegunMap, Asking, LookFails, SessInv, SessTypeOK
<1>3. AnswerMap[p] = Pending /\ AnswerMap' = [AnswerMap EXCEPT ![p] = NoUser]
  BY DEF AnswerMap, LookFails, SessInv, SessTypeOK
<1>4. OwnerMap' = OwnerMap /\ DoomedMap' = DoomedMap /\ LeftMap' = LeftMap
  BY DEF OwnerMap, DoomedMap, LeftMap, LookFails, SessInv, SessTypeOK
<1>5. sid[p] = NoSid \/ p \in missing \/ Store!Overdue(sid[p])
  <2> SUFFICES ASSUME sid[p] \in Sids PROVE p \in missing \/ Store!Overdue(sid[p])
    BY <1>1
  <2>1. CASE pos[p] > size
    <3>1. LookOK(p) /\ pc[p] = "look" /\ sid[p] # NoSid
      BY SessAssumption DEF SessInv, LookInv, LookFails
    <3>2. pos[p] \in Int /\ size \in Int
      BY SessAssumption DEF SessInv, SessTypeOK
    <3> QED
      BY <2>1, <3>1, <3>2 DEF LookOK
  <2>2. CASE pos[p] <= size /\ file[pos[p]].id = sid[p] /\ Expired(file[pos[p]], now[p])
    <3>1. pos[p] \in 1 .. size /\ pos[p] \in 1 .. Slots
      BY <2>2, SessAssumption DEF SessInv, SessTypeOK
    <3>2. /\ file[pos[p]].time \in Int /\ used[sid[p]] \in Int /\ now[p] \in Int
          /\ clock \in Int
      BY <1>1, <3>1, SessAssumption DEF SessInv, SessTypeOK, Entries
    <3>3. /\ used[sid[p]] <= file[pos[p]].time + Lifetime /\ now[p] <= clock
          /\ file[pos[p]].time + Expire < now[p]
      BY <1>1, <2>2, <3>1, SessAssumption
         DEF SessInv, TimeHonest, CallInv, InCall, LookFails, Expired
    <3>4. used[sid[p]] - Lifetime + Expire < clock
      BY <3>2, <3>3, SessAssumption
    <3>5. OwnerMap[sid[p]] # NoUser
      BY <1>1, <2>2, <3>1, OwnerFound, SessAssumption
    <3> QED
      BY <3>4, <3>5 DEF Store!Overdue
  <2> QED
    BY <2>1, <2>2 DEF LookFails, SessInv, SessTypeOK
<1> QED
  BY <1>1, <1>2, <1>3, <1>4, <1>5, SessAssumption DEF Store!Refuse, LookFails

LEMMA LookTouchRefines ==
  ASSUME SessInv, NEW p \in Proc, LookTouch(p)
  PROVE  Store!Record(p)
<1>1. sid[p] \in Cookies /\ user[p] \in Users /\ pos[p] \in 1 .. size /\ pos[p] \in 1 .. Slots
  BY SessAssumption DEF SessInv, SessTypeOK, CallInv, LookTouch
<1>2. AskedMap[p] = sid[p] /\ AskedMap' = [AskedMap EXCEPT ![p] = NoCookie]
  BY DEF AskedMap, Asking, LookTouch, Return, SessInv, SessTypeOK
<1>3. BegunMap' = [BegunMap EXCEPT ![p] = 0]
  BY DEF BegunMap, Asking, LookTouch, Return, SessInv, SessTypeOK
<1>4. AnswerMap[p] = user[p] /\ AnswerMap' = [AnswerMap EXCEPT ![p] = Pending]
  BY DEF AnswerMap, LookTouch, Return, SessInv, SessTypeOK
<1>5. \A i \in 1 .. Slots : file'[i].id = file[i].id /\ file'[i].user = file[i].user
  BY <1>1 DEF LookTouch, TouchedEntry, SessInv, SessTypeOK, Entries
<1>6. OwnerMap' = OwnerMap
  <2>1. size' = size
    BY DEF LookTouch
  <2> QED
    BY <1>5, <2>1, OwnersKept
<1>7. DoomedMap' = DoomedMap
  <2>1. \A q \in Proc : pc[q] = "scan" /\ seek[q] # 0 => seek[q] \in 1 .. Slots
    BY SessAssumption DEF SessInv, SessTypeOK
  <2>2. \A q \in Proc : /\ pc'[q] = "scan" <=> pc[q] = "scan"
                        /\ pc[q] = "scan" => seek'[q] = seek[q]
    BY DEF LookTouch, Return, SessInv, SessTypeOK
  <2> QED
    BY <1>5, <2>1, <2>2 DEF DoomedMap
<1>8. \/ sid[p] \in Sids /\ used' = [used EXCEPT ![sid[p]] = clock]
      \/ sid[p] = NoSid /\ used' = used
      \/ p \in missing /\ used' = used
  BY <1>1 DEF LookTouch, SessInv, LookInv, LookOK
<1>9. LeftMap' = LeftMap
  <2>1. size' = size /\ size \in Nat /\ \A i \in 1 .. size : i \in 1 .. Slots
    BY SessAssumption DEF LookTouch, SessInv, SessTypeOK
  <2> QED
    BY <1>5, <2>1 DEF LeftMap
<1> QED
  BY <1>1, <1>2, <1>3, <1>4, <1>6, <1>7, <1>8, <1>9, SessAssumption DEF Store!Record, LookTouch

LEMMA LookRefusedRefines ==
  ASSUME SessInv, NEW p \in Proc, LookRefused(p)
  PROVE  Store!End(p)
<1>1. sid[p] \in Cookies
  BY DEF SessInv, SessTypeOK, LookRefused
<1>2. AskedMap[p] = sid[p] /\ AskedMap' = [AskedMap EXCEPT ![p] = NoCookie]
  BY DEF AskedMap, Asking, LookRefused, Return, SessInv, SessTypeOK
<1>3. BegunMap' = [BegunMap EXCEPT ![p] = 0]
  BY DEF BegunMap, Asking, LookRefused, Return, SessInv, SessTypeOK
<1>4. AnswerMap' = [AnswerMap EXCEPT ![p] = Pending]
  BY DEF AnswerMap, LookRefused, Return, SessInv, SessTypeOK
<1>5. OwnerMap' = OwnerMap /\ DoomedMap' = DoomedMap /\ LeftMap' = LeftMap
  BY DEF OwnerMap, DoomedMap, LeftMap, LookRefused, Return, SessInv, SessTypeOK
<1> QED
  BY <1>1, <1>2, <1>3, <1>4, <1>5, SessAssumption DEF Store!End, LookRefused

\* While somebody scans, nobody else does.
LEMMA OneScan ==
  ASSUME SessInv, NEW p \in Proc, pc[p] = "scan"
  PROVE  \A q \in Proc : pc[q] = "scan" => q = p
  BY DEF SessInv, LockInv

LEMMA ScanReadRefines ==
  ASSUME SessInv, NEW p \in Proc, ScanRead(p)
  PROVE  (\E s \in Sids : Store!Doom(s)) \/ UNCHANGED Store!svars
<1>1. pos[p] \in 1 .. size /\ pos[p] \in 1 .. Slots
  BY SessAssumption DEF SessInv, SessTypeOK, ScanRead
<1>2. /\ AskedMap' = AskedMap /\ BegunMap' = BegunMap /\ AnswerMap' = AnswerMap
      /\ OwnerMap' = OwnerMap /\ LeftMap' = LeftMap /\ UNCHANGED <<used, clock, missing>>
  BY DEF AskedMap, BegunMap, AnswerMap, OwnerMap, LeftMap, Asking, ScanRead, SessInv, SessTypeOK
<1>3. CASE seek[p] = 0 /\ Reusable(file[pos[p]], now[p]) /\ file[pos[p]].id # NoSid
  <2> DEFINE s == file[pos[p]].id
  <2>1. s \in Sids /\ OwnerMap[s] # NoUser
    BY <1>1, <1>3, OwnerFound
  <2>2. DoomedMap = {} /\ DoomedMap' = {s}
    <3>1. \A q \in Proc : pc[q] = "scan" => q = p
      BY OneScan DEF ScanRead
    <3>2. DoomedMap = {}
      BY <1>3, <3>1 DEF DoomedMap
    <3>3. /\ pc' = pc /\ file' = file /\ seek'[p] = pos[p] /\ pos[p] # 0 /\ pc[p] = "scan"
      BY <1>1, <1>3 DEF ScanRead, SessInv, SessTypeOK
    <3>4. DoomedMap' = {s}
      BY <2>1, <3>1, <3>3 DEF DoomedMap
    <3> QED
      BY <3>2, <3>4
  <2>3. used[s] - Lifetime + Expire < clock
    <3>1. /\ file[pos[p]].time \in Int /\ used[s] \in Int /\ now[p] \in Int
          /\ clock \in Int
      BY <1>1, <2>1, SessAssumption DEF SessInv, SessTypeOK, Entries
    <3>2. /\ used[s] <= file[pos[p]].time + Lifetime /\ now[p] <= clock
          /\ now[p] - file[pos[p]].time > Expire
      BY <1>1, <1>3 DEF SessInv, TimeHonest, CallInv, InCall, ScanRead, Reusable
    <3> QED
      BY <3>1, <3>2, SessAssumption
  <2>4. Store!Doom(s)
    BY <1>2, <2>1, <2>2, <2>3 DEF Store!Doom, Store!Overdue
  <2> QED
    BY <2>1, <2>4
<1>4. CASE ~(seek[p] = 0 /\ Reusable(file[pos[p]], now[p]) /\ file[pos[p]].id # NoSid)
  <2>1. DoomedMap' = DoomedMap
    <3>1. CASE seek' = seek
      BY <3>1 DEF DoomedMap, ScanRead
    <3>2. CASE seek' = [seek EXCEPT ![p] = pos[p]] /\ seek[p] = 0 /\ file[pos[p]].id = NoSid
      BY ZenonT(30), <3>2, SessAssumption DEF DoomedMap, ScanRead, SessInv, SessTypeOK
    <3> QED
      BY <1>4, <3>1, <3>2 DEF ScanRead
  <2> QED
    BY <1>2, <2>1 DEF Store!svars
<1> QED
  BY <1>3, <1>4

LEMMA ScanDuplicateRefines ==
  ASSUME SessInv, NEW p \in Proc, NEW s \in Sids, ScanDuplicate(p, s)
  PROVE  Store!Spare
<1>1. /\ AskedMap' = AskedMap /\ BegunMap' = BegunMap /\ AnswerMap' = AnswerMap
      /\ OwnerMap' = OwnerMap /\ LeftMap' = LeftMap /\ UNCHANGED <<used, clock, missing>>
  BY DEF AskedMap, BegunMap, AnswerMap, OwnerMap, LeftMap, Asking, ScanDuplicate, SessInv, SessTypeOK
<1>2. \A q \in Proc : pc[q] = "scan" => q = p
  BY OneScan DEF ScanDuplicate
<1>3. DoomedMap' = {}
  BY <1>2 DEF DoomedMap, ScanDuplicate, SessInv, SessTypeOK
<1> QED
  BY <1>1, <1>3 DEF Store!Spare

LEMMA NewWriteRefines ==
  ASSUME SessInv, SessInv', NEW p \in Proc, NewWrite(p)
  PROVE  \E s \in Sids : \E u \in Users : \E d \in SUBSET DoomedMap : Store!Issue(s, u, d)
<1> DEFINE k == IF seek[p] = 0 THEN size + 1 ELSE seek[p]
           d == {file[k].id} \ {NoSid}
<1>0. /\ sid[p] \in Sids /\ user[p] \in Users /\ size \in 0 .. Slots /\ Slots \in Nat
      /\ pc[p] = "scan" /\ seek[p] \in 0 .. size /\ pos[p] > size /\ pos[p] \in Nat
      /\ k <= Slots /\ size' = IF k > size THEN k ELSE size
  BY SessAssumption DEF SessInv, SessTypeOK, CallInv, ScanInv, NewWrite
<1>1. /\ k \in 1 .. Slots /\ size \in Nat /\ size' \in Nat /\ k \in 1 .. size'
      /\ k <= size \/ (k = size + 1 /\ size' = k)
      /\ k <= size => size' = size
      /\ \A i \in 1 .. size : i \in 1 .. Slots /\ i \in 1 .. size'
      /\ \A i \in 1 .. size' : i \in 1 .. Slots /\ (i \in 1 .. size \/ i = k)
  BY <1>0
<1> HIDE DEF k
<1>2. /\ \A i \in 1 .. Slots : i # k => file'[i] = file[i]
      /\ file'[k].id = sid[p] /\ file'[k].user = user[p]
  BY <1>1 DEF SessInv, SessTypeOK, NewWrite, k
<1>3. \A i \in 1 .. size : file[i].id # sid[p]
  BY <1>0 DEF SessInv, ScanInv
<1>4. ~(k \in 1 .. size) => file[k].id = NoSid
  BY <1>1 DEF SessInv, FileInv
<1>5. d \in SUBSET Sids /\ sid[p] \notin d
  BY ZenonT(30), <1>1, <1>3, <1>4, SessAssumption DEF SessInv, SessTypeOK, Entries
<1>6. OwnerMap[sid[p]] = NoUser
  BY <1>0, <1>3, OwnerMissing DEF Present
<1>7. d \subseteq DoomedMap
  <2>1. d # {} => k = seek[p] /\ seek[p] # 0
    BY <1>0, <1>1, <1>4 DEF k
  <2> QED
    BY <1>0, <1>5, <2>1 DEF DoomedMap
<1>8. DoomedMap' = {}
  <2>1. \A q \in Proc : pc[q] = "scan" => q = p
    BY <1>0, OneScan
  <2> QED
    BY <2>1 DEF DoomedMap, NewWrite, Return, SessInv, SessTypeOK
<1>9. OwnerMap' = [t \in Sids |-> IF t = sid[p] THEN user[p]
                                 ELSE IF t \in d THEN NoUser ELSE OwnerMap[t]]
  <2> SUFFICES ASSUME NEW t \in Sids
               PROVE  OwnerIn(file', size', t) =
                        IF t = sid[p] THEN user[p]
                        ELSE IF t \in d THEN NoUser ELSE OwnerIn(file, size, t)
    BY DEF OwnerMap
  <2>1. CASE t = sid[p]
    <3>1. \A j \in 1 .. size' : file'[j].id = t => j = k
      BY <1>1, <1>2, <1>3, <2>1
    <3>2. OwnerIn(file', size', t) = file'[k].user
      <4>1. size' \in Nat /\ k \in 1 .. size' /\ file'[k].id = t
        BY <1>1, <1>2, <2>1
      <4> QED
        BY <3>1, <4>1, OwnerPresent
    <3> QED
      BY <1>2, <2>1, <3>2
  <2>2. CASE t # sid[p] /\ t \in d
    <3>1. k \in 1 .. size
      BY <1>1, <1>4, <2>2
    <3>2. \A j \in 1 .. size : file[j].id = t => j = k
      BY <1>1, <2>2, <3>1, SessAssumption DEF SessInv, UniqueIds
    <3>3. \A j \in 1 .. size' : file'[j].id # t
      BY <1>1, <1>2, <2>2, <3>1, <3>2
    <3> QED
      BY <1>1, <2>2, <3>3, OwnerAbsent
  <2>3. CASE t # sid[p] /\ t \notin d
    <3>1. file[k].id # t
      BY <2>3, SessAssumption
    <3>2. CASE \E i \in 1 .. size : file[i].id = t
      <4>1. PICK i \in 1 .. size : file[i].id = t
        BY <3>2
      <4>2. \A j \in 1 .. size : file[j].id = t => j = i
        BY <4>1, SessAssumption DEF SessInv, UniqueIds
      <4>3. i # k /\ i \in 1 .. size' /\ file'[i] = file[i]
        BY <1>1, <1>2, <3>1, <4>1
      <4>4. \A j \in 1 .. size' : file'[j].id = t => j = i
        BY <1>1, <1>2, <2>3, <4>2
      <4>5. OwnerIn(file, size, t) = file[i].user
        <5>1. size \in Nat
          BY <1>1
        <5> QED
          BY <4>1, <4>2, <5>1, OwnerPresent
      <4>6. OwnerIn(file', size', t) = file'[i].user
        <5>1. size' \in Nat /\ i \in 1 .. size' /\ file'[i].id = t
          BY <1>1, <4>1, <4>3
        <5> QED
          BY <4>4, <5>1, OwnerPresent
      <4> QED
        BY <2>3, <4>3, <4>5, <4>6
    <3>3. CASE ~ \E i \in 1 .. size : file[i].id = t
      <4>1. \A j \in 1 .. size' : file'[j].id # t
        BY <1>1, <1>2, <2>3, <3>3
      <4> QED
        BY <1>1, <2>3, <3>3, <4>1, OwnerAbsent
    <3> QED
      BY <3>2, <3>3
  <2> QED
    BY <2>1, <2>2, <2>3
<1>10. used' = [t \in Sids |-> IF t = sid[p] THEN clock ELSE IF t \in d THEN 0 ELSE used[t]]
  BY SessAssumption DEF NewWrite, k
<1>11. AskedMap' = AskedMap /\ BegunMap' = BegunMap /\ AnswerMap' = AnswerMap
  BY <1>0 DEF AskedMap, BegunMap, AnswerMap, Asking, NewWrite, Return, SessInv, SessTypeOK
<1>12. missing' = missing \cup {q \in Proc : AskedMap[q] \in d}
  <2>1. \A q \in Proc :
          AskedMap[q] \in d <=> Asking(q) /\ file[k].id # NoSid /\ sid[q] = file[k].id
    BY <1>5, SessAssumption DEF AskedMap
  <2> QED
    BY <2>1 DEF NewWrite, k
<1>13. LeftMap' \in SUBSET LeftMap
  <2> SUFFICES ASSUME NEW i \in 1 .. size', file'[i].id = NoSid
               PROVE  file'[i].user \in LeftMap
    BY DEF LeftMap
  <2>1. i # k /\ i \in 1 .. size /\ file'[i] = file[i]
    BY <1>0, <1>1, <1>2, SessAssumption
  <2> QED
    BY <2>1 DEF LeftMap
<1>14. Store!Issue(sid[p], user[p], d)
  <2>1. \A x, y \in d : x = y
    OBVIOUS
  <2>2. Store!Missing(d)
    BY <1>12 DEF Store!Missing
  <2>3. clock' = clock
    BY DEF NewWrite
  <2> QED
    BY <1>5, <1>6, <1>8, <1>9, <1>10, <1>11, <1>13, <2>1, <2>2, <2>3 DEF Store!Issue
<1> QED
  BY <1>0, <1>7, <1>14

LEMMA DelEraseRefines ==
  ASSUME SessInv, NEW p \in Proc, DelErase(p), sid[p] \in Sids
  PROVE  Store!Kill(sid[p])
<1>1. /\ pos[p] \in 1 .. size /\ pos[p] \in 1 .. Slots /\ sid[p] \in Sids /\ size' = size
      /\ size \in Nat /\ file[pos[p]].id = sid[p] /\ pc[p] = "erase"
      /\ \A i \in 1 .. size : i \in 1 .. Slots
  BY SessAssumption DEF SessInv, SessTypeOK, ScanInv, DelErase
<1>2. /\ \A i \in 1 .. Slots : i # pos[p] => file'[i] = file[i]
      /\ file'[pos[p]].id = NoSid /\ file'[pos[p]].user = file[pos[p]].user
  BY <1>1, DelErased
<1>3. OwnerMap[sid[p]] # NoUser /\ OwnerMap[sid[p]] = file[pos[p]].user
  BY <1>1, OwnerFound, SessAssumption
<1>4. OwnerMap' = [OwnerMap EXCEPT ![sid[p]] = NoUser]
  <2> SUFFICES ASSUME NEW t \in Sids
               PROVE  OwnerIn(file', size', t) =
                        IF t = sid[p] THEN NoUser ELSE OwnerIn(file, size, t)
    BY DEF OwnerMap
  <2>1. CASE t = sid[p]
    <3>1. \A j \in 1 .. size : file[j].id = t => j = pos[p]
      BY <1>1, <2>1, SessAssumption DEF SessInv, UniqueIds
    <3>2. \A j \in 1 .. size : file'[j].id # t
      BY <1>1, <1>2, <2>1, <3>1, SessAssumption
    <3> QED
      BY <1>1, <2>1, <3>2, OwnerAbsent
  <2>2. CASE t # sid[p] /\ \E i \in 1 .. size : file[i].id = t
    <3>1. PICK i \in 1 .. size : file[i].id = t
      BY <2>2
    <3>2. \A j \in 1 .. size : file[j].id = t => j = i
      BY <3>1, SessAssumption DEF SessInv, UniqueIds
    <3>3. i # pos[p] /\ file'[i] = file[i]
      BY <1>1, <1>2, <2>2, <3>1
    <3>4. \A j \in 1 .. size : file'[j].id = t => j = i
      BY <1>1, <1>2, <3>2, SessAssumption
    <3>5. OwnerIn(file, size, t) = file[i].user
      BY <1>1, <3>1, <3>2, OwnerPresent
    <3>6. OwnerIn(file', size, t) = file'[i].user
      BY <1>1, <3>1, <3>3, <3>4, OwnerPresent
    <3> QED
      BY <1>1, <2>2, <3>3, <3>5, <3>6
  <2>3. CASE t # sid[p] /\ ~ \E i \in 1 .. size : file[i].id = t
    <3>1. \A j \in 1 .. size : file'[j].id # t
      BY <1>1, <1>2, <2>3, SessAssumption
    <3> QED
      BY <1>1, <2>3, <3>1, OwnerAbsent
  <2> QED
    BY <2>1, <2>2, <2>3
<1>5. DoomedMap' = DoomedMap
  <2>1. \A q \in Proc : pc[q] # "scan" /\ pc'[q] # "scan"
    BY <1>1 DEF SessInv, SessTypeOK, LockInv, DelErase, Return
  <2> QED
    BY <2>1 DEF DoomedMap
<1>6. AskedMap' = AskedMap /\ BegunMap' = BegunMap /\ AnswerMap' = AnswerMap
  BY <1>1 DEF AskedMap, BegunMap, AnswerMap, Asking, DelErase, Return, SessInv, SessTypeOK
<1>7. missing' = missing \cup {q \in Proc : AskedMap[q] \in {sid[p]}}
  <2>1. \A q \in Proc : AskedMap[q] = sid[p] <=> Asking(q) /\ sid[q] = sid[p]
    BY <1>1, SessAssumption DEF AskedMap
  <2> QED
    BY <1>1, <2>1, SessAssumption DEF DelErase
<1>8. LeftMap' = LeftMap \cup {OwnerMap[sid[p]]}
  <2>1. \A i \in 1 .. size : file'[i].id = NoSid <=> i = pos[p] \/ file[i].id = NoSid
    BY <1>1, <1>2
  <2>2. \A i \in 1 .. size : file'[i].user = file[i].user
    BY <1>1, <1>2
  <2> QED
    BY <1>1, <1>3, <2>1, <2>2 DEF LeftMap
<1>9. used' = [used EXCEPT ![sid[p]] = 0]
  BY DEF DelErase, SessInv, SessTypeOK
<1> QED
  BY <1>3, <1>4, <1>5, <1>6, <1>7, <1>8, <1>9 DEF Store!Kill, Store!Missing, DelErase

\* An erased entry that is erased again stays what it is, but for its time.
LEMMA DelEmptyRefines ==
  ASSUME SessInv, NEW p \in Proc, DelErase(p), sid[p] = NoSid
  PROVE  UNCHANGED Store!svars
<1>1. /\ size' = size /\ pos[p] \in 1 .. Slots /\ file[pos[p]].id = sid[p] /\ pc[p] = "erase"
      /\ size \in Nat /\ \A i \in 1 .. size : i \in 1 .. Slots
  BY SessAssumption DEF SessInv, SessTypeOK, ScanInv, DelErase
<1>2. \A i \in 1 .. Slots : file'[i].id = file[i].id /\ file'[i].user = file[i].user
  BY <1>1, DelErased
<1>3. OwnerMap' = OwnerMap
  BY <1>1, <1>2, OwnersKept
<1>4. LeftMap' = LeftMap
  BY <1>1, <1>2 DEF LeftMap
<1>5. DoomedMap' = DoomedMap
  <2>1. \A q \in Proc : pc[q] # "scan" /\ pc'[q] # "scan"
    BY <1>1 DEF SessInv, SessTypeOK, LockInv, DelErase, Return
  <2> QED
    BY <2>1 DEF DoomedMap
<1>6. AskedMap' = AskedMap /\ BegunMap' = BegunMap /\ AnswerMap' = AnswerMap
  BY <1>1 DEF AskedMap, BegunMap, AnswerMap, Asking, DelErase, Return, SessInv, SessTypeOK
<1>7. missing' = missing /\ clock' = clock
  BY DEF DelErase
<1>8. used' = used
  BY SessAssumption DEF DelErase, SessInv, SessTypeOK
<1> QED
  BY <1>3, <1>4, <1>5, <1>6, <1>7, <1>8 DEF Store!svars

LEMMA GoneRefines ==
  ASSUME SessInv, NEW p \in Proc, pc[p] # "idle", Gone(p)
  PROVE  Store!End(p) \/ Store!Spare \/ UNCHANGED Store!svars
<1>1. OwnerMap' = OwnerMap /\ LeftMap' = LeftMap
  BY DEF OwnerMap, LeftMap, Gone
<1>2. CASE Asking(p)
  <2>1. AskedMap[p] \in Cookies /\ AskedMap' = [AskedMap EXCEPT ![p] = NoCookie]
    BY <1>2 DEF AskedMap, Asking, Gone, SessInv, SessTypeOK, CallInv
  <2>2. BegunMap' = [BegunMap EXCEPT ![p] = 0]
    BY DEF BegunMap, Asking, Gone, SessInv, SessTypeOK
  <2>3. AnswerMap' = [AnswerMap EXCEPT ![p] = Pending]
    BY DEF AnswerMap, Gone, SessInv, SessTypeOK
  <2>4. DoomedMap' = DoomedMap
    BY <1>2 DEF DoomedMap, Asking, Gone, SessInv, SessTypeOK
  <2>5. Store!End(p)
    BY <1>1, <2>1, <2>2, <2>3, <2>4, SessAssumption DEF Store!End, Gone
  <2> QED
    BY <2>5
<1>3. CASE ~Asking(p)
  <2>1. AskedMap' = AskedMap /\ BegunMap' = BegunMap /\ AnswerMap' = AnswerMap
    BY <1>3 DEF AskedMap, BegunMap, AnswerMap, Asking, Gone, SessInv, SessTypeOK
  <2>2. missing' = missing
    BY <1>3 DEF Gone, SessInv, MissInv, Asking
  <2>3. CASE pc[p] = "scan"
    <3>1. \A q \in Proc : pc[q] = "scan" => q = p
      BY <2>3, OneScan
    <3>2. DoomedMap' = {}
      BY <3>1 DEF DoomedMap, Gone, SessInv, SessTypeOK
    <3> QED
      BY <1>1, <2>1, <2>2, <3>2 DEF Store!Spare, Gone
  <2>4. CASE pc[p] # "scan"
    <3>1. DoomedMap' = DoomedMap
      BY <2>4 DEF DoomedMap, Gone, SessInv, SessTypeOK
    <3> QED
      BY <1>1, <2>1, <2>2, <3>1 DEF Store!svars, Gone
  <2> QED
    BY <2>3, <2>4
<1> QED
  BY <1>2, <1>3

\* The other steps of requests change nothing that Sessions sees.
LEMMA QuietRefines ==
  ASSUME SessInv, NEW p \in Proc,
         \/ \E s \in Cookies \cup {NoCookie} : Anonymous(p, s)
         \/ LookNext(p) \/ NewLock(p)
         \/ \E u \in Users : \E s \in Sids : NewSession(p, u, s)
         \/ NewWriteFails(p) \/ KillSession(p) \/ DelLock(p) \/ DelRead(p) \/ DelFound(p)
         \/ DelNone(p)
  PROVE  UNCHANGED Store!svars
<1>1. UNCHANGED <<file, size, used, clock, missing>>
  BY DEF Anonymous, LookNext, NewSession, NewLock, NewWriteFails, KillSession, DelLock, DelRead, DelFound,
         DelNone
<1>2. OwnerMap' = OwnerMap /\ LeftMap' = LeftMap
  BY <1>1 DEF OwnerMap, LeftMap
<1>3. \A q \in Proc :
        /\ Asking(q)' <=> Asking(q)
        /\ Asking(q) => /\ sid'[q] = sid[q] /\ now'[q] = now[q]
                        /\ pc'[q] = pc[q] /\ user'[q] = user[q]
  BY DEF Anonymous, LookNext, NewSession, NewLock, NewWriteFails, KillSession, DelLock, DelRead, DelFound,
         DelNone, Return, Asking, SessInv, SessTypeOK
<1>4. AskedMap' = AskedMap /\ BegunMap' = BegunMap
  BY <1>3 DEF AskedMap, BegunMap
<1>5. AnswerMap' = AnswerMap
  BY <1>3 DEF AnswerMap, Asking
<1>6. \A q \in Proc :
        (pc'[q] = "scan" /\ seek'[q] # 0 <=> pc[q] = "scan" /\ seek[q] # 0) /\
        (pc[q] = "scan" /\ seek[q] # 0 => seek'[q] = seek[q])
  BY DEF Anonymous, LookNext, NewSession, NewLock, NewWriteFails, KillSession, DelLock, DelRead, DelFound,
         DelNone, Return, SessInv, SessTypeOK, CallInv
<1>7. DoomedMap' = DoomedMap
  BY <1>1, <1>6 DEF DoomedMap
<1> QED
  BY <1>1, <1>2, <1>4, <1>5, <1>7 DEF Store!svars

LEMMA TickRefines == ASSUME SessInv, Tick PROVE Store!Tick
<1>1. /\ OwnerMap' = OwnerMap /\ DoomedMap' = DoomedMap /\ AskedMap' = AskedMap
      /\ BegunMap' = BegunMap /\ AnswerMap' = AnswerMap /\ LeftMap' = LeftMap
  BY DEF OwnerMap, DoomedMap, LeftMap, AskedMap, BegunMap, AnswerMap, Asking, Tick, procvars
<1> QED
  BY <1>1 DEF Store!Tick, Tick

LEMMA InitRefines == Init => Store!SessionsInit
<1> SUFFICES ASSUME Init PROVE Store!SessionsInit
  OBVIOUS
<1>1. OwnerMap = [s \in Sids |-> NoUser]
  <2>1. \A s \in Sids : OwnerIn(file, size, s) = NoUser
    BY DEF Init, OwnerIn
  <2> QED
    BY <2>1 DEF OwnerMap
<1>2. DoomedMap = {} /\ AskedMap = [p \in Proc |-> NoCookie] /\ BegunMap = [p \in Proc |-> 0]
  BY DEF DoomedMap, AskedMap, BegunMap, Asking, Init
<1>3. AnswerMap = [p \in Proc |-> Pending]
  BY DEF AnswerMap, Init
<1>4. LeftMap = {}
  BY DEF LeftMap, Init
<1> QED
  BY <1>1, <1>2, <1>3, <1>4 DEF Store!SessionsInit, Init

LEMMA NextRefines ==
  SessInv /\ SessInv' /\ [Next]_vars => [Store!SessionsNext]_(Store!svars)
<1> SUFFICES ASSUME SessInv, SessInv', [Next]_vars
             PROVE  Store!SessionsNext \/ UNCHANGED Store!svars
  OBVIOUS
<1>1. ASSUME NEW p \in Proc,
             \/ \E s \in Cookies \cup {NoCookie} : Anonymous(p, s)
             \/ LookNext(p) \/ NewLock(p)
             \/ \E u \in Users : \E s \in Sids : NewSession(p, u, s)
             \/ NewWriteFails(p) \/ KillSession(p) \/ DelLock(p) \/ DelRead(p) \/ DelFound(p)
         \/ DelNone(p)
      PROVE  UNCHANGED Store!svars
  BY <1>1, QuietRefines
<1>2. ASSUME NEW p \in Proc, LookFound(p) PROVE Store!SessionsNext
  BY <1>2, LookFoundRefines DEF Store!SessionsNext
<1>3. ASSUME NEW p \in Proc, LookFails(p) PROVE Store!SessionsNext
  BY <1>3, LookFailsRefines DEF Store!SessionsNext
<1>4. ASSUME NEW p \in Proc, LookTouch(p) PROVE Store!SessionsNext
  BY <1>4, LookTouchRefines DEF Store!SessionsNext
<1>5. ASSUME NEW p \in Proc, LookRefused(p) PROVE Store!SessionsNext
  BY <1>5, LookRefusedRefines DEF Store!SessionsNext
<1>6. ASSUME NEW p \in Proc, ScanRead(p) PROVE Store!SessionsNext \/ UNCHANGED Store!svars
  BY <1>6, ScanReadRefines DEF Store!SessionsNext
<1>7. ASSUME NEW p \in Proc, NEW s \in Sids, ScanDuplicate(p, s) PROVE Store!SessionsNext
  BY <1>7, ScanDuplicateRefines DEF Store!SessionsNext
<1>8. ASSUME NEW p \in Proc, NewWrite(p) PROVE Store!SessionsNext
  BY <1>8, NewWriteRefines DEF Store!SessionsNext
<1>9. ASSUME NEW p \in Proc, DelErase(p)
      PROVE  Store!SessionsNext \/ UNCHANGED Store!svars
  <2>1. sid[p] \in Sids \/ sid[p] = NoSid
    BY DEF SessInv, SessTypeOK
  <2> QED
    BY <1>9, <2>1, DelEraseRefines, DelEmptyRefines DEF Store!SessionsNext
<1>10. ASSUME NEW p \in Proc, pc[p] # "idle", Gone(p)
       PROVE  Store!SessionsNext \/ UNCHANGED Store!svars
  BY <1>10, GoneRefines DEF Store!SessionsNext
<1>11. ASSUME NEW p \in Proc, NEW s \in Cookies, Lookup(p, s) PROVE Store!SessionsNext
  BY <1>11, LookupRefines DEF Store!SessionsNext
<1>12. CASE Tick
  BY <1>12, TickRefines DEF Store!SessionsNext
<1>13. CASE UNCHANGED vars
  <2>1. /\ OwnerMap' = OwnerMap /\ DoomedMap' = DoomedMap /\ AskedMap' = AskedMap
        /\ BegunMap' = BegunMap /\ AnswerMap' = AnswerMap /\ LeftMap' = LeftMap
    BY <1>13 DEF OwnerMap, DoomedMap, LeftMap, AskedMap, BegunMap, AnswerMap, Asking, vars
  <2> QED
    BY <1>13, <2>1 DEF Store!svars, vars
<1>14. ASSUME NEW p \in Proc, CallStep(p)
       PROVE  Store!SessionsNext \/ UNCHANGED Store!svars
  <2>1. pc[p] # "idle"
    BY <1>14 DEF CallStep, LookNext, LookFound, LookFails, LookTouch, LookRefused, NewLock,
                 ScanRead, ScanDuplicate, ScanDie, NewWrite, NewWriteFails, DelLock, DelRead, DelFound,
                 DelErase, DelNone
  <2> QED
    BY <1>14, <2>1, <1>1, <1>2, <1>3, <1>4, <1>5, <1>6, <1>7, <1>8, <1>9, <1>10
       DEF CallStep, ScanDie
<1>15. ASSUME NEW p \in Proc, Script(p)
       PROVE  Store!SessionsNext \/ UNCHANGED Store!svars
  BY <1>15, <1>1, <1>10, <1>11 DEF Script, Exit, Crash
<1> QED
  BY <1>12, <1>13, <1>14, <1>15 DEF Next

\* The session file implements the table of sessions: logins, lookups that take
\* no lock, deletions and kills of processes at any point.
THEOREM SessFileImplementsSessions == Spec => StoreSpec
  BY InitRefines, NextRefines, SessInvariant, PTL DEF Spec, StoreSpec, Store!SessionsSpec

=============================================================================
