----------------------------- MODULE PartyNames -----------------------------
(***************************************************************************)
(* Names inside party 2.13, contrib/party/party-2.13: setname(), the :name *)
(* command and checkname() of input.c, and who_uniqalias() of users.c.     *)
(*                                                                         *)
(* A process takes a name when it joins a channel and whenever its user    *)
(* says :name; others learn it from its record in the pwho file.  The      *)
(* check that a name is free and the write of the record are two steps.    *)
(*                                                                         *)
(* A process has its record in an entry of its own login (module PartyWho  *)
(* is about how it gets one).  A name is a word, together with whether it  *)
(* is spelt the way checkname() leaves it.                                 *)
(***************************************************************************)
EXTENDS Integers

CONSTANTS Proc,       \* invocations of party
          Entries,    \* bound: the entries of the pwho file are 1 .. Entries
          Entry, Sub, \* Entry[p], Sub[p]: the place of p's record
          Words,      \* what names are made of
          Login,      \* Login[e]: the login name in the header of entry e
          Alias,      \* Alias[p]: the alias option of p
          Typed,      \* names that users type
          Channels,   \* names of channels
          None,       \* no channel: a process outside
          AskName, Rename, MapName, RandName, UniqueName  \* channels with these options

Names == [word : Words, clean : BOOLEAN]

ASSUME PlaceAssumption ==
  /\ Entries \in Nat
  /\ Entry \in [Proc -> 1 .. Entries] /\ Sub \in [Proc -> Nat \ {0}]
  /\ \A p, q \in Proc : Entry[p] = Entry[q] /\ Sub[p] = Sub[q] => p = q
ASSUME NameAssumption ==
  /\ Login \in [1 .. Entries -> Words]
  /\ Alias \in [Proc -> Names] /\ Typed \subseteq Names
ASSUME OptionAssumption ==
  /\ None \notin Channels
  /\ AskName \subseteq Channels /\ Rename \subseteq Channels
  /\ MapName \subseteq Channels /\ RandName \subseteq Channels
  /\ UniqueName \subseteq Channels

VARIABLES
  who,      \* per process: its record, NoRec if its alias is null
  pc,       \* per process: where it is
  name,     \* per process: the global variable name
  channel,  \* per process: the global variable channel
  newchan,  \* per process: the channel it is joining
  excused   \* history: processes whose name was not checked, or in vain

vars == <<who, pc, name, channel, newchan, excused>>

NoRec == [alias |-> [word |-> None, clean |-> TRUE], chan |-> None]

\* checkname(): lower case, printable, not too long, no cue at the beginning.
CheckName(n) == [n EXCEPT !.clean = TRUE]

\* realname and logname.
RealName(p) == [word |-> Login[Entry[p]], clean |-> TRUE]

NamesInit ==
  /\ who = [p \in Proc |-> NoRec]
  /\ pc = [p \in Proc |-> "out"]
  /\ name = [p \in Proc |-> RealName(p)]
  /\ channel = [p \in Proc |-> None]
  /\ newchan = [p \in Proc |-> None]
  /\ excused = {}

-----------------------------------------------------------------------------
(* who_uniqalias().                                                        *)

\* The scan has come to entry e: it skips the records there if the last one
\* with subfield number 1 was in an entry of p's login.
Skipping(p, e) ==
  \E q \in Proc :
    /\ Sub[q] = 1 /\ Entry[q] <= e /\ who[q] # NoRec
    /\ Login[Entry[q]] = Login[Entry[p]]
    /\ \A r \in Proc :
         Sub[r] = 1 /\ who[r] # NoRec /\ Entry[r] <= e => Entry[r] <= Entry[q]

\* Mutant of UniqAlias: users in other channels are not ignored.
UniqAliasAnywhere(p, a, c) ==
  \A q \in Proc :
    who[q] # NoRec /\ ~Skipping(p, Entry[q]) => who[q].alias # a

UniqAlias(p, a, c) ==
  \A q \in Proc :
    who[q] # NoRec /\ ~Skipping(p, Entry[q]) /\ who[q].chan = c
      => who[q].alias # a

-----------------------------------------------------------------------------
(* History: why a name may turn out to be somebody else's.                 *)

\* A record is left in an entry whose first one is null.
Headless ==
  \E q \in Proc :
    /\ who[q] # NoRec
    /\ \A r \in Proc : Entry[r] = Entry[q] /\ Sub[r] = 1 => who[r] = NoRec

\* Somebody else has taken name a in c, and his record does not show it yet.
Racing(p, a, c) ==
  \E q \in Proc \ {p} :
    /\ name[q] = a
    /\ \/ pc[q] = "named" /\ newchan[q] = c
       \/ pc[q] = "renaming" /\ channel[q] = c

\* p takes name a in c, which it has looked up or not.
Take(p, a, c, checked) ==
  /\ name' = [name EXCEPT ![p] = a]
  /\ excused' = IF checked /\ a # RealName(p) /\ ~Headless /\ ~Racing(p, a, c)
                THEN excused \ {p} ELSE excused \cup {p}

-----------------------------------------------------------------------------
(* join_party() and setname().                                             *)

\* who_enter() has given the process a free place after those in use.
MayStart(p) ==
  \A q \in Proc \ {p} :
    Entry[q] = Entry[p] =>
      \/ Sub[p] = 1 /\ pc[q] \in {"out", "gone"}
      \/ Sub[q] < Sub[p] /\ who[q] # NoRec
      \/ Sub[q] > Sub[p] /\ Sub[p] > 1

Join(p) ==
  /\ \/ pc[p] = "out" /\ MayStart(p)
     \/ pc[p] = "in"
  /\ \E c \in Channels \ {channel[p]} :
       newchan' = [newchan EXCEPT ![p] = c]
  /\ pc' = [pc EXCEPT ![p] = "naming"]
  /\ UNCHANGED <<who, name, channel, excused>>

\* setname() is done with name a.
Named(p, a, checked) ==
  /\ Take(p, CheckName(a), newchan[p], checked)
  /\ pc' = [pc EXCEPT ![p] = "named"]
  /\ UNCHANGED <<who, channel, newchan>>

\* The name comes from the mapname or the randname file.
GivenName(p) ==
  /\ pc[p] = "naming" /\ newchan[p] \in MapName \cup RandName
  /\ \E t \in Typed : Named(p, t, FALSE)

\* The alias, if the channel has the rename option, or the real name: nothing is
\* asked, and a mapname file has no line for the user, a randname file is missing.
DefaultName(p) ==
  LET c == newchan[p] IN
  /\ pc[p] = "naming" /\ c \notin AskName \ RandName
  /\ Named(p, IF c \in Rename THEN Alias[p] ELSE RealName(p), FALSE)

\* "What name would you like?"  None: the alias if it is unique, or the real
\* name.
AskedNone(p) ==
  LET c == newchan[p]
      alias == c \in Rename /\ UniqAlias(p, CheckName(Alias[p]), c) IN
  /\ pc[p] \in {"naming", "inuse"} /\ c \in AskName \ RandName
  /\ IF alias THEN Named(p, Alias[p], TRUE) ELSE Named(p, RealName(p), FALSE)

\* The real name, or a name that is not in use, ...
AskedGiven(p) ==
  LET c == newchan[p] IN
  /\ pc[p] \in {"naming", "inuse"} /\ c \in AskName \ RandName
  /\ \E t \in Typed :
       /\ CheckName(t) = RealName(p) \/ UniqAlias(p, CheckName(t), c)
       /\ Named(p, t, TRUE)

\* ... or else "That name is already in use", and the question again.
AskedInUse(p) ==
  LET c == newchan[p] IN
  /\ pc[p] \in {"naming", "inuse"} /\ c \in AskName \ RandName
  /\ \E t \in Typed :
       CheckName(t) # RealName(p) /\ ~UniqAlias(p, CheckName(t), c)
  /\ pc' = [pc EXCEPT ![p] = "inuse"]
  /\ UNCHANGED <<who, name, channel, newchan, excused>>

\* who_chan()
WhoChan(p) ==
  /\ pc[p] = "named"
  /\ channel' = [channel EXCEPT ![p] = newchan[p]]
  /\ who' = [who EXCEPT ![p] = [alias |-> name[p], chan |-> newchan[p]]]
  /\ pc' = [pc EXCEPT ![p] = "in"]
  /\ UNCHANGED <<name, newchan, excused>>

-----------------------------------------------------------------------------
(* The :name command.                                                      *)

\* What is looked up is the name as typed; changename() then cleans it.
MayTake(p, t) ==
  \/ channel[p] \notin UniqueName
  \/ UniqAlias(p, t, channel[p])
  \/ t = RealName(p)

\* Mutant of NameCommand: changename() does not call checkname().
NameNotCleaned(p) ==
  /\ pc[p] = "in" /\ channel[p] \in Rename
  /\ \E t \in Typed :
       /\ MayTake(p, t)
       /\ Take(p, t, channel[p], channel[p] \in UniqueName /\ t.clean)
  /\ pc' = [pc EXCEPT ![p] = "renaming"]
  /\ UNCHANGED <<who, channel, newchan>>

\* Mutant of NameCommand: the name is not looked up.
NameNotLookedUp(p) ==
  /\ pc[p] = "in" /\ channel[p] \in Rename
  /\ \E t \in Typed :
       Take(p, CheckName(t), channel[p], channel[p] \in UniqueName /\ t.clean)
  /\ pc' = [pc EXCEPT ![p] = "renaming"]
  /\ UNCHANGED <<who, channel, newchan>>

NameCommand(p) ==
  /\ pc[p] = "in" /\ channel[p] \in Rename
  /\ \E t \in Typed :
       /\ MayTake(p, t)
       /\ Take(p, CheckName(t), channel[p], channel[p] \in UniqueName /\ t.clean)
  /\ pc' = [pc EXCEPT ![p] = "renaming"]
  /\ UNCHANGED <<who, channel, newchan>>

\* changename(): the message, and who_chan().
ChangeName(p) ==
  /\ pc[p] = "renaming"
  /\ who' = [who EXCEPT ![p].alias = name[p]]
  /\ pc' = [pc EXCEPT ![p] = "in"]
  /\ UNCHANGED <<name, channel, newchan, excused>>

\* join_party(NULL): who_exit() makes the alias null.  The process exits, and
\* its variables are as good as new.
Leave(p) ==
  /\ pc[p] \notin {"out", "gone"}
  /\ who' = [who EXCEPT ![p] = NoRec]
  /\ pc' = [pc EXCEPT ![p] = "gone"]
  /\ name' = [name EXCEPT ![p] = RealName(p)]
  /\ channel' = [channel EXCEPT ![p] = None]
  /\ newchan' = [newchan EXCEPT ![p] = None]
  /\ excused' = excused \ {p}

NamesNext ==
  \E p \in Proc :
    \/ Join(p) \/ GivenName(p) \/ DefaultName(p) \/ AskedNone(p)
    \/ AskedGiven(p) \/ AskedInUse(p) \/ WhoChan(p)
    \/ NameCommand(p) \/ ChangeName(p) \/ Leave(p)

NamesSpec == NamesInit /\ [][NamesNext]_vars

-----------------------------------------------------------------------------
(* Properties.                                                             *)

Labels == {"out", "naming", "inuse", "named", "in", "renaming", "gone"}

Records == [alias : Names, chan : Channels] \cup {NoRec}

\* The types; every name that is in use is one that checkname() leaves alone.
NamesTypeOK ==
  /\ who \in [Proc -> Records]
  /\ pc \in [Proc -> Labels]
  /\ name \in [Proc -> Names]
  /\ channel \in [Proc -> Channels \cup {None}]
  /\ newchan \in [Proc -> Channels \cup {None}]
  /\ excused \subseteq Proc
  /\ \A p \in Proc : CheckName(name[p]) = name[p]

\* p and q belong to different users.
Strangers(p, q) == Login[Entry[p]] # Login[Entry[q]]

Same(p, q) == pc[p] = "in" /\ pc[q] = "in" /\ channel[p] = channel[q]
              /\ name[p] = name[q]

\* Two users in a channel have different names, unless one of them took his
\* without a check that counts: a default or given name, his real name, a name
\* typed in another spelling, a name in a nouniquename channel, or one taken
\* while another process was between its check and its who_chan() or while a
\* record was left in an entry without a first one.
UniqueUnlessExcused ==
  \A p, q \in Proc :
    Strangers(p, q) /\ Same(p, q) => p \in excused \/ q \in excused

\* What who_uniqalias() promises: nobody else has the name in the channel.
UsedByOthers(p, a, c) ==
  \E q \in Proc :
    Strangers(p, q) /\ who[q] # NoRec /\ who[q].chan = c /\ who[q].alias = a

\* who_uniqalias() finds the names that other users have in the channel, and no
\* others, as long as every entry with a record has a first one.
UniqAgrees ==
  ~Headless =>
    \A p \in Proc, a \in Names, c \in Channels :
      UniqAlias(p, a, c) <=> ~UsedByOthers(p, a, c)
=============================================================================
