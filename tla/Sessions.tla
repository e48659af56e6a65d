------------------------------ MODULE Sessions ------------------------------
(***************************************************************************)
(* What the session database of backtalk 1.3.30 promises to the web pages: *)
(* a table from session ids to users.  SessFile, the program, implements   *)
(* it.  Looking up a session takes time, so that its answer may be that of *)
(* any moment between the question and the answer; the time of the last    *)
(* use of a session is known only up to Lag.  Who has the empty id, which  *)
(* is nobody's, may be taken for the user of a session that has ended.     *)
(***************************************************************************)
EXTENDS Integers

CONSTANTS Proc,     \* who asks
          Sids,     \* session ids
          Users,    \* login names
          NoSid,    \* the empty id
          NoCookie, NoUser, Pending,
          Expire,   \* a session unused for longer has expired
          Lag       \* how late a use may be recorded

VARIABLES
  owner,    \* per session id: the user it was issued to, or NoUser
  used,     \* per session id: when the session was last used, 0 if there is none
  clock,    \* the time
  doomed,   \* sessions that a login has found expired and may replace
  left,     \* users of ended sessions that have left a trace
  asked,    \* per process: the session id it asks about, or NoCookie
  begun,    \* per process: when it asked
  missing,  \* processes whose session id was in no session meanwhile
  answer    \* per process: a user, NoUser, or Pending

svars == <<owner, used, clock, doomed, left, asked, begun, missing, answer>>

SessionsInit ==
  /\ owner = [s \in Sids |-> NoUser] /\ used = [s \in Sids |-> 0]
  /\ clock = 0 /\ doomed = {} /\ left = {}
  /\ asked = [p \in Proc |-> NoCookie] /\ begun = [p \in Proc |-> 0]
  /\ missing = {} /\ answer = [p \in Proc |-> Pending]

Overdue(s) == owner[s] # NoUser /\ used[s] - Lag + Expire < clock

\* Sessions d end: whoever asks about one of them may be told so.
Missing(d) == missing' = missing \cup {p \in Proc : asked[p] \in d}

\* A login: one doomed session at most is replaced, d, or one that has ended.
Issue(s, u, d) ==
  /\ owner[s] = NoUser /\ s \notin d
  /\ \A x, y \in d : x = y
  /\ owner' = [t \in Sids |-> IF t = s THEN u ELSE IF t \in d THEN NoUser ELSE owner[t]]
  /\ used' = [t \in Sids |-> IF t = s THEN clock ELSE IF t \in d THEN 0 ELSE used[t]]
  /\ doomed' = {}
  /\ left' \in SUBSET left
  /\ Missing(d)
  /\ UNCHANGED <<clock, asked, begun, answer>>

Kill(s) ==
  /\ owner[s] # NoUser
  /\ owner' = [owner EXCEPT ![s] = NoUser]
  /\ used' = [used EXCEPT ![s] = 0]
  /\ left' = left \cup {owner[s]}
  /\ Missing({s})
  /\ UNCHANGED <<clock, doomed, asked, begun, answer>>

Doom(s) ==
  /\ Overdue(s)
  /\ doomed' = doomed \cup {s}
  /\ UNCHANGED <<owner, used, clock, left, asked, begun, missing, answer>>

\* The login is not going to replace a session after all.
Spare ==
  /\ doomed' = {}
  /\ UNCHANGED <<owner, used, clock, left, asked, begun, missing, answer>>

Ask(p, s) ==
  /\ asked[p] = NoCookie
  /\ asked' = [asked EXCEPT ![p] = s]
  /\ begun' = [begun EXCEPT ![p] = clock]
  /\ missing' = IF s = NoSid \/ owner[s] = NoUser THEN missing \cup {p}
                ELSE missing \ {p}
  /\ UNCHANGED <<owner, used, clock, doomed, left, answer>>

\* Nobody gets somebody else's session, or one that had expired.
Accept(p) ==
  /\ asked[p] \in Sids /\ answer[p] = Pending
  /\ owner[asked[p]] # NoUser
  /\ used[asked[p]] + Expire >= begun[p]
  /\ answer' = [answer EXCEPT ![p] = owner[asked[p]]]
  /\ missing' = missing \ {p}
  /\ UNCHANGED <<owner, used, clock, doomed, left, asked, begun>>

\* The empty id is taken for that of an ended session.
AcceptEmpty(p) ==
  /\ asked[p] = NoSid /\ answer[p] = Pending
  /\ \E u \in left : answer' = [answer EXCEPT ![p] = u]
  /\ missing' = missing \ {p}
  /\ UNCHANGED <<owner, used, clock, doomed, left, asked, begun>>

\* Nobody is refused whose session was there all the time, and used of late.
Refuse(p) ==
  /\ asked[p] # NoCookie /\ answer[p] = Pending
  /\ asked[p] = NoSid \/ p \in missing \/ Overdue(asked[p])
  /\ answer' = [answer EXCEPT ![p] = NoUser]
  /\ UNCHANGED <<owner, used, clock, doomed, left, asked, begun, missing>>

\* The use of a session is recorded, unless the session has ended meanwhile.
Record(p) ==
  /\ answer[p] \in Users
  /\ \/ asked[p] \in Sids /\ used' = [used EXCEPT ![asked[p]] = clock]
     \/ asked[p] = NoSid /\ used' = used
     \/ p \in missing /\ used' = used
  /\ asked' = [asked EXCEPT ![p] = NoCookie]
  /\ answer' = [answer EXCEPT ![p] = Pending]
  /\ begun' = [begun EXCEPT ![p] = 0]
  /\ missing' = missing \ {p}
  /\ UNCHANGED <<owner, clock, doomed, left>>

\* A refused process goes on, or one is killed.
End(p) ==
  /\ asked[p] # NoCookie
  /\ asked' = [asked EXCEPT ![p] = NoCookie]
  /\ answer' = [answer EXCEPT ![p] = Pending]
  /\ begun' = [begun EXCEPT ![p] = 0]
  /\ missing' = missing \ {p}
  /\ UNCHANGED <<owner, used, clock, doomed, left>>

Tick ==
  /\ clock' = clock + 1
  /\ UNCHANGED <<owner, used, doomed, left, asked, begun, missing, answer>>

SessionsNext ==
  \/ Spare \/ Tick
  \/ \E p \in Proc : \/ \E s \in Sids \cup {NoSid} : Ask(p, s)
                     \/ Accept(p) \/ AcceptEmpty(p) \/ Refuse(p)
                     \/ Record(p) \/ End(p)
  \/ \E s \in Sids : \/ \E u \in Users : \E d \in SUBSET doomed : Issue(s, u, d)
                     \/ Kill(s) \/ Doom(s)

SessionsSpec == SessionsInit /\ [][SessionsNext]_svars
=============================================================================
