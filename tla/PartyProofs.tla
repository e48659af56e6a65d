----------------------------- MODULE PartyProofs -----------------------------
(***************************************************************************)
(* Proofs about the channels of party: for any processes, users and        *)
(* channels, a process in the main loop has the options of its channel,    *)
(* and a channel is split only by the race that OneLogUnlessRaced names.   *)
(***************************************************************************)
EXTENDS PartyChannel, FiniteSetTheorems, TLAPS

\* The variables of join_party() and the channel, per label: whoever leaves has
\* a channel to leave, whoever enters has one to enter, another one.
ChannelInv ==
  \A p \in Proc :
    /\ pc[p] \in {"in", "closing", "inviting", "leave", "scan", "unlink",
                   "unusr"}
         => channel[p] \in Channels
    /\ pc[p] \in {"check", "asked", "knocking", "open", "write", "enter",
                   "naming"}
         => newchannel[p] \in Channels
    /\ pc[p] \in {"check", "asked", "knocking", "open", "write", "leave", "scan",
                  "unlink", "unusr", "enter", "naming"}
         => newchannel[p] # channel[p] \/ channel[p] = None
    /\ pc[p] = "out" => channel[p] = None

\* The options are those of the channel the process is in, until chnopt() has
\* set those of the channel it is joining.
OptionsInv ==
  \A p \in Proc :
    /\ pc[p] \in {"in", "closing", "inviting", "check", "asked", "knocking"}
         => channel[p] = None \/ keeplog[p] = (channel[p] \in Keep)
    /\ pc[p] \in {"open", "write", "leave", "scan", "unlink", "unusr", "enter",
                  "naming"} /\ newchannel[p] # None
         => keeplog[p] = (newchannel[p] \in Keep)

\* As long as it is in a channel, the pwho record of a process shows it.
RecordInv ==
  \A p \in Proc \ Unlisted :
    pc[p] \in {"out", "in", "closing", "inviting", "check", "asked", "spin",
               "knocking", "open", "write", "leave", "scan", "unlink", "unusr",
               "enter", "naming"}
      => who[p] = channel[p]

\* Channels whose file nobody can lose.
Safe(c) == c \in Keep \/ (c \notin raced /\ Unlisted = {})

\* The open files of a process in c, or joining c, are c's file.
FilesInv ==
  \A c \in Channels : Safe(c) =>
    \A p \in Proc :
      /\ Inside(p, c) => file[c] # 0 /\ rst[p] = file[c] /\ wfd[p] = file[c]
      /\ Joining(p, c) /\ pc[p] # "naming" => file[c] # 0 /\ tmp_rst[p] = file[c]
      /\ Joining(p, c) /\ pc[p] \notin {"write", "naming"} => tmp_wfd[p] = file[c]
      /\ Joining(p, c) /\ pc[p] = "naming"
           => file[c] # 0 /\ rst[p] = file[c] /\ wfd[p] = file[c]

\* Whoever is about to delete the file of c is alone.
AloneInv ==
  \A c \in Channels : c \notin Keep /\ Safe(c) =>
    \A p, q \in Proc :
      Deleting(p, c) /\ q # p => ~Inside(q, c) /\ ~Joining(q, c)

-----------------------------------------------------------------------------
\* Types, action by action.
LEMMA PartyTypeStep ==
  ChannelInv /\ PartyTypeOK /\ [PartyNext]_vars => PartyTypeOK'
<1> SUFFICES ASSUME ChannelInv, PartyTypeOK, [PartyNext]_vars PROVE PartyTypeOK'
  OBVIOUS
<1> USE DEF PartyTypeOK, Labels, fileVars, joinVars, curVars
<1>0. \A c : (c \in Keep) \in BOOLEAN
  OBVIOUS
<1>1. ASSUME NEW p \in Proc, NoSuchChannel(p) PROVE PartyTypeOK'
  BY <1>1 DEF NoSuchChannel, Goto, Refused
<1>2. ASSUME NEW p \in Proc, Check(p) PROVE PartyTypeOK'
  <2>1. keeplog' \in [Proc -> BOOLEAN]
    BY <1>2, <1>0, Zenon DEF Check, SetOptions
  <2> QED BY <1>2, <2>1 DEF Check, Goto, SetOptions
<1>3. ASSUME NEW p \in Proc, Decline(p) PROVE PartyTypeOK'
  BY <1>3 DEF Decline, Goto, Refused
<1>4. ASSUME NEW p \in Proc, Knock(p) PROVE PartyTypeOK'
  <2>1. i' \in [Proc -> 0 .. KnockWait]
    BY <1>4, BoundsAssumption DEF Knock
  <2>2. file' \in [Channels -> Nat] /\ inodes' \in Nat
    BY <1>4 DEF Knock, ChannelInv
  <2> QED BY <1>4, <2>1, <2>2 DEF Knock, Goto
<1>5. ASSUME NEW p \in Proc, Poll(p) PROVE PartyTypeOK'
  <2>1. i' \in [Proc -> 0 .. KnockWait]
    BY <1>5, BoundsAssumption DEF Poll
  <2>2. CASE keeplog' = [keeplog EXCEPT ![p] = newchannel[p] \in Keep]
   <3>1. keeplog' \in [Proc -> BOOLEAN]
     BY <1>5, <2>2, <1>0, Zenon
   <3>  QED BY <1>5, <2>1, <3>1 DEF Poll, Goto, Refused
  <2> QED BY <1>5, <2>1, <2>2 DEF Poll, Goto, SetOptions, Refused
<1>6. ASSUME NEW p \in Proc, OpenRead(p) PROVE PartyTypeOK'
  <2>1. /\ file' \in [Channels -> Nat] /\ inodes' \in Nat
        /\ tmp_rst' \in [Proc -> Nat]
    BY <1>6 DEF OpenRead, OpenFile, ChannelInv
  <2>2. raced' \subseteq Channels
    BY <1>6 DEF OpenRead, ChannelInv
  <2> QED BY <1>6, <2>1, <2>2 DEF OpenRead, Goto
<1>7. ASSUME NEW p \in Proc, OpenWrite(p) PROVE PartyTypeOK'
  <2>1. /\ file' \in [Channels -> Nat] /\ inodes' \in Nat
        /\ tmp_wfd' \in [Proc -> Nat]
    BY <1>7 DEF OpenWrite, OpenFile, ChannelInv
  <2> QED BY <1>7, <2>1 DEF OpenWrite, Goto
<1>8. ASSUME NEW p \in Proc, CannotOpen(p) PROVE PartyTypeOK'
  <2>1. keeplog' \in [Proc -> BOOLEAN]
    BY <1>8, <1>0, Zenon DEF CannotOpen, RestoreOptions
  <2> QED BY <1>8, <2>1 DEF CannotOpen, Goto, Refused
<1>9. ASSUME NEW p \in Proc, Leave(p) PROVE PartyTypeOK'
  BY <1>9 DEF Leave, Goto, AfterLeave
<1>10. ASSUME NEW p \in Proc, Scan(p) PROVE PartyTypeOK'
  <2>1. raced' \subseteq Channels
    BY <1>10 DEF Scan, ChannelInv
  <2> QED BY <1>10, <2>1 DEF Scan, Goto, AfterLeave
<1>11. ASSUME NEW p \in Proc, Unlink(p) PROVE PartyTypeOK'
  BY <1>11 DEF Unlink, Goto
<1>12. ASSUME NEW p \in Proc, UnlinkUsr(p) PROVE PartyTypeOK'
  BY <1>12 DEF UnlinkUsr, Goto, AfterLeave
<1>13. ASSUME NEW p \in Proc, Enter(p) PROVE PartyTypeOK'
  BY <1>13 DEF Enter, Goto
<1>14. ASSUME NEW p \in Proc, WhoChan(p) PROVE PartyTypeOK'
  BY <1>14 DEF WhoChan, Goto
<1>15. ASSUME NEW p \in Proc, WhoExit(p) PROVE PartyTypeOK'
  BY <1>15 DEF WhoExit, Goto
<1>16. ASSUME NEW p \in Proc, WhoIsOn(p) PROVE PartyTypeOK'
  <2>1. {User[q] : q \in {r \in Proc : who[r] = channel[p]}} \in SUBSET Users
    BY UsersAssumption
  <2>2. list' \in [Channels -> SUBSET Users]
    BY <1>16, <2>1 DEF WhoIsOn
  <2> QED BY <1>16, <2>2 DEF WhoIsOn, Goto
<1>17. ASSUME NEW p \in Proc, Invite(p) PROVE PartyTypeOK'
  BY SMTT(30), <1>17 DEF Invite, Goto
<1>18. ASSUME NEW p \in Proc, Join(p) PROVE PartyTypeOK'
  <2>1. PICK c \in Channels : newchannel' = [newchannel EXCEPT ![p] = c]
    BY <1>18 DEF Join
  <2>2. cmds' \in [Proc -> 0 .. MaxCmds]
    BY <1>18, BoundsAssumption DEF Join, Count
  <2> QED BY <1>18, <2>1, <2>2 DEF Join, Goto
<1>19. ASSUME NEW p \in Proc, Quit(p) PROVE PartyTypeOK'
  BY <1>19 DEF Quit, Goto, LeaveParty
<1>20. ASSUME NEW p \in Proc, CloseChan(p) PROVE PartyTypeOK'
  <2>2. cmds' \in [Proc -> 0 .. MaxCmds]
    BY <1>20, BoundsAssumption DEF CloseChan, Count
  <2>3. list' \in [Channels -> SUBSET Users]
    BY <1>20 DEF CloseChan
  <2>4. inodes' \in Nat
    BY <1>20 DEF CloseChan
  <2>5. usr' = [usr EXCEPT ![channel[p]] = inodes']
    BY <1>20 DEF CloseChan
  <2>6. ufile' = [ufile EXCEPT ![p] = inodes']
    BY <1>20 DEF CloseChan
  <2>7. usr' \in [Channels -> Nat]
    BY <2>4, <2>5
  <2>8. ufile' \in [Proc -> Nat]
    BY <2>4, <2>6
  <2>9. pc' \in [Proc -> Labels]
    BY <1>20 DEF CloseChan, Goto
  <2> QED BY <1>20, <2>2, <2>3, <2>4, <2>7, <2>8, <2>9 DEF CloseChan
<1>21. ASSUME NEW p \in Proc, OpenChan(p) PROVE PartyTypeOK'
  <2>2. cmds' \in [Proc -> 0 .. MaxCmds]
    BY <1>21, BoundsAssumption DEF OpenChan, Count
  <2> QED BY <1>21, <2>2 DEF OpenChan, Goto
<1>22. ASSUME NEW p \in Proc, InviteCheck(p) PROVE PartyTypeOK'
  <2>2. cmds' \in [Proc -> 0 .. MaxCmds]
    BY <1>22, BoundsAssumption DEF InviteCheck, Count
  <2> QED BY <1>22, <2>2 DEF InviteCheck, Goto
<1>23. ASSUME NEW p \in Proc, StopKnocking(p) PROVE PartyTypeOK'
  BY <1>23 DEF StopKnocking, Goto, Refused
<1>24. ASSUME NEW p \in Proc, Hangup(p) PROVE PartyTypeOK'
  BY <1>24 DEF Hangup, Goto, LeaveParty
<1>25. ASSUME NEW p \in Proc, KillNine(p) PROVE PartyTypeOK'
  BY <1>25 DEF KillNine, Goto
<1>26. ASSUME NEW p \in Proc, TtyReused(p) PROVE PartyTypeOK'
  BY <1>26 DEF TtyReused
<1>27. CASE UNCHANGED vars
  BY <1>27 DEF vars
<1> QED
  BY <1>1, <1>2, <1>3, <1>4, <1>5, <1>6, <1>7, <1>8, <1>9, <1>10, <1>11,
     <1>12, <1>13, <1>14, <1>15, <1>16, <1>17, <1>18, <1>19, <1>20, <1>21,
     <1>22, <1>23, <1>24, <1>25, <1>26, <1>27 DEF PartyNext, Progress, Command

\* The channel to leave and the channel to enter, action by action.
LEMMA ChannelStep ==
  PartyTypeOK /\ ChannelInv /\ [PartyNext]_vars => ChannelInv'
<1> SUFFICES ASSUME PartyTypeOK, ChannelInv, [PartyNext]_vars PROVE ChannelInv'
  OBVIOUS
<1> USE ChannelsAssumption DEF PartyTypeOK, ChannelInv, fileVars, joinVars,
       curVars
<1>1. ASSUME NEW p \in Proc, NoSuchChannel(p) PROVE ChannelInv'
  BY <1>1 DEF NoSuchChannel, Goto, Refused
<1>2. ASSUME NEW p \in Proc, Check(p) PROVE ChannelInv'
  BY <1>2 DEF Check, Goto, MayEnter, SetOptions
<1>3. ASSUME NEW p \in Proc, Decline(p) PROVE ChannelInv'
  BY <1>3 DEF Decline, Goto, Refused
<1>4. ASSUME NEW p \in Proc, Knock(p) PROVE ChannelInv'
  BY <1>4 DEF Knock, Goto
<1>5. ASSUME NEW p \in Proc, Poll(p) PROVE ChannelInv'
  BY <1>5 DEF Poll, Goto, MayEnter, SetOptions, Refused
<1>6. ASSUME NEW p \in Proc, OpenRead(p) PROVE ChannelInv'
  BY <1>6 DEF OpenRead, Goto, OpenFile
<1>7. ASSUME NEW p \in Proc, OpenWrite(p) PROVE ChannelInv'
  BY <1>7 DEF OpenWrite, Goto, OpenFile
<1>8. ASSUME NEW p \in Proc, CannotOpen(p) PROVE ChannelInv'
  BY <1>8 DEF CannotOpen, Goto, RestoreOptions, Refused
<1>9. ASSUME NEW p \in Proc, Leave(p) PROVE ChannelInv'
  BY <1>9 DEF Leave, Goto, AfterLeave
<1>10. ASSUME NEW p \in Proc, Scan(p) PROVE ChannelInv'
  BY <1>10 DEF Scan, Goto, AfterLeave
<1>11. ASSUME NEW p \in Proc, Unlink(p) PROVE ChannelInv'
  BY <1>11 DEF Unlink, Goto
<1>12. ASSUME NEW p \in Proc, UnlinkUsr(p) PROVE ChannelInv'
  BY <1>12 DEF UnlinkUsr, Goto, AfterLeave
<1>13. ASSUME NEW p \in Proc, Enter(p) PROVE ChannelInv'
  BY <1>13 DEF Enter, Goto
<1>14. ASSUME NEW p \in Proc, WhoChan(p) PROVE ChannelInv'
  BY <1>14 DEF WhoChan, Goto
<1>15. ASSUME NEW p \in Proc, WhoExit(p) PROVE ChannelInv'
  BY <1>15 DEF WhoExit, Goto
<1>16. ASSUME NEW p \in Proc, WhoIsOn(p) PROVE ChannelInv'
  BY <1>16 DEF WhoIsOn, Goto
<1>17. ASSUME NEW p \in Proc, Invite(p) PROVE ChannelInv'
  BY <1>17 DEF Invite, Goto
<1>18. ASSUME NEW p \in Proc, Join(p) PROVE ChannelInv'
  BY <1>18 DEF Join, Goto, Count
<1>19. ASSUME NEW p \in Proc, Quit(p) PROVE ChannelInv'
  BY <1>19 DEF Quit, Goto, LeaveParty
<1>20. ASSUME NEW p \in Proc, CloseChan(p) PROVE ChannelInv'
  BY <1>20 DEF CloseChan, Goto, Count
<1>21. ASSUME NEW p \in Proc, OpenChan(p) PROVE ChannelInv'
  BY <1>21 DEF OpenChan, Count
<1>22. ASSUME NEW p \in Proc, InviteCheck(p) PROVE ChannelInv'
  BY <1>22 DEF InviteCheck, Goto, Count
<1>23. ASSUME NEW p \in Proc, StopKnocking(p) PROVE ChannelInv'
  BY <1>23 DEF StopKnocking, Goto, Refused
<1>24. ASSUME NEW p \in Proc, Hangup(p) PROVE ChannelInv'
  BY <1>24 DEF Hangup, Goto, LeaveParty
<1>25. ASSUME NEW p \in Proc, KillNine(p) PROVE ChannelInv'
  BY <1>25 DEF KillNine, Goto
<1>26. ASSUME NEW p \in Proc, TtyReused(p) PROVE ChannelInv'
  BY <1>26 DEF TtyReused
<1>27. CASE UNCHANGED vars
  BY <1>27 DEF vars
<1> QED
  BY <1>1, <1>2, <1>3, <1>4, <1>5, <1>6, <1>7, <1>8, <1>9, <1>10, <1>11,
     <1>12, <1>13, <1>14, <1>15, <1>16, <1>17, <1>18, <1>19, <1>20, <1>21,
     <1>22, <1>23, <1>24, <1>25, <1>26, <1>27 DEF PartyNext, Progress, Command

\* The options, action by action.
LEMMA OptionsStep ==
  PartyTypeOK /\ ChannelInv /\ OptionsInv /\ [PartyNext]_vars => OptionsInv'
<1> SUFFICES ASSUME PartyTypeOK, ChannelInv, OptionsInv, [PartyNext]_vars
             PROVE OptionsInv'
  OBVIOUS
<1> USE ChannelsAssumption DEF PartyTypeOK, ChannelInv, OptionsInv, fileVars,
       joinVars, curVars
<1>1. ASSUME NEW p \in Proc, NoSuchChannel(p) PROVE OptionsInv'
  BY <1>1 DEF NoSuchChannel, Goto, Refused
<1>2. ASSUME NEW p \in Proc, Check(p) PROVE OptionsInv'
  BY <1>2 DEF Check, Goto, MayEnter, SetOptions
<1>3. ASSUME NEW p \in Proc, Decline(p) PROVE OptionsInv'
  BY <1>3 DEF Decline, Goto, Refused
<1>4. ASSUME NEW p \in Proc, Knock(p) PROVE OptionsInv'
  BY <1>4 DEF Knock, Goto
<1>5. ASSUME NEW p \in Proc, Poll(p) PROVE OptionsInv'
  BY <1>5 DEF Poll, Goto, MayEnter, SetOptions, Refused
<1>6. ASSUME NEW p \in Proc, OpenRead(p) PROVE OptionsInv'
  BY <1>6 DEF OpenRead, Goto, OpenFile
<1>7. ASSUME NEW p \in Proc, OpenWrite(p) PROVE OptionsInv'
  BY <1>7 DEF OpenWrite, Goto, OpenFile
<1>8. ASSUME NEW p \in Proc, CannotOpen(p) PROVE OptionsInv'
  BY <1>8 DEF CannotOpen, Goto, RestoreOptions, Refused
<1>9. ASSUME NEW p \in Proc, Leave(p) PROVE OptionsInv'
  BY <1>9 DEF Leave, Goto, AfterLeave
<1>10. ASSUME NEW p \in Proc, Scan(p) PROVE OptionsInv'
  BY <1>10 DEF Scan, Goto, AfterLeave
<1>11. ASSUME NEW p \in Proc, Unlink(p) PROVE OptionsInv'
  BY <1>11 DEF Unlink, Goto
<1>12. ASSUME NEW p \in Proc, UnlinkUsr(p) PROVE OptionsInv'
  BY <1>12 DEF UnlinkUsr, Goto, AfterLeave
<1>13. ASSUME NEW p \in Proc, Enter(p) PROVE OptionsInv'
  BY <1>13 DEF Enter, Goto
<1>14. ASSUME NEW p \in Proc, WhoChan(p) PROVE OptionsInv'
  BY <1>14 DEF WhoChan, Goto
<1>15. ASSUME NEW p \in Proc, WhoExit(p) PROVE OptionsInv'
  BY <1>15 DEF WhoExit, Goto
<1>16. ASSUME NEW p \in Proc, WhoIsOn(p) PROVE OptionsInv'
  BY <1>16 DEF WhoIsOn, Goto
<1>17. ASSUME NEW p \in Proc, Invite(p) PROVE OptionsInv'
  BY <1>17 DEF Invite, Goto
<1>18. ASSUME NEW p \in Proc, Join(p) PROVE OptionsInv'
  BY <1>18 DEF Join, Goto, Count
<1>19. ASSUME NEW p \in Proc, Quit(p) PROVE OptionsInv'
  BY <1>19 DEF Quit, Goto, LeaveParty
<1>20. ASSUME NEW p \in Proc, CloseChan(p) PROVE OptionsInv'
  BY <1>20 DEF CloseChan, Goto, Count
<1>21. ASSUME NEW p \in Proc, OpenChan(p) PROVE OptionsInv'
  BY <1>21 DEF OpenChan, Count
<1>22. ASSUME NEW p \in Proc, InviteCheck(p) PROVE OptionsInv'
  BY <1>22 DEF InviteCheck, Goto, Count
<1>23. ASSUME NEW p \in Proc, StopKnocking(p) PROVE OptionsInv'
  BY <1>23 DEF StopKnocking, Goto, Refused
<1>24. ASSUME NEW p \in Proc, Hangup(p) PROVE OptionsInv'
  BY <1>24 DEF Hangup, Goto, LeaveParty
<1>25. ASSUME NEW p \in Proc, KillNine(p) PROVE OptionsInv'
  BY <1>25 DEF KillNine, Goto
<1>26. ASSUME NEW p \in Proc, TtyReused(p) PROVE OptionsInv'
  BY <1>26 DEF TtyReused
<1>27. CASE UNCHANGED vars
  BY <1>27 DEF vars
<1> QED
  BY <1>1, <1>2, <1>3, <1>4, <1>5, <1>6, <1>7, <1>8, <1>9, <1>10, <1>11,
     <1>12, <1>13, <1>14, <1>15, <1>16, <1>17, <1>18, <1>19, <1>20, <1>21,
     <1>22, <1>23, <1>24, <1>25, <1>26, <1>27 DEF PartyNext, Progress, Command

\* The pwho records, action by action.
LEMMA RecordStep ==
  PartyTypeOK /\ ChannelInv /\ RecordInv /\ [PartyNext]_vars => RecordInv'
<1> SUFFICES ASSUME PartyTypeOK, ChannelInv, RecordInv, [PartyNext]_vars
             PROVE RecordInv'
  OBVIOUS
<1> USE DEF PartyTypeOK, ChannelInv, RecordInv, fileVars, joinVars, curVars
<1>1. ASSUME NEW p \in Proc, NoSuchChannel(p) PROVE RecordInv'
  BY <1>1 DEF NoSuchChannel, Goto, Refused
<1>2. ASSUME NEW p \in Proc, Check(p) PROVE RecordInv'
  BY <1>2 DEF Check, Goto, MayEnter, SetOptions
<1>3. ASSUME NEW p \in Proc, Decline(p) PROVE RecordInv'
  BY <1>3 DEF Decline, Goto, Refused
<1>4. ASSUME NEW p \in Proc, Knock(p) PROVE RecordInv'
  BY <1>4 DEF Knock, Goto
<1>5. ASSUME NEW p \in Proc, Poll(p) PROVE RecordInv'
  BY <1>5 DEF Poll, Goto, MayEnter, SetOptions, Refused
<1>6. ASSUME NEW p \in Proc, OpenRead(p) PROVE RecordInv'
  BY <1>6 DEF OpenRead, Goto, OpenFile
<1>7. ASSUME NEW p \in Proc, OpenWrite(p) PROVE RecordInv'
  BY <1>7 DEF OpenWrite, Goto, OpenFile
<1>8. ASSUME NEW p \in Proc, CannotOpen(p) PROVE RecordInv'
  BY <1>8 DEF CannotOpen, Goto, RestoreOptions, Refused
<1>9. ASSUME NEW p \in Proc, Leave(p) PROVE RecordInv'
  BY <1>9 DEF Leave, Goto, AfterLeave
<1>10. ASSUME NEW p \in Proc, Scan(p) PROVE RecordInv'
  BY <1>10 DEF Scan, Goto, AfterLeave
<1>11. ASSUME NEW p \in Proc, Unlink(p) PROVE RecordInv'
  BY <1>11 DEF Unlink, Goto
<1>12. ASSUME NEW p \in Proc, UnlinkUsr(p) PROVE RecordInv'
  BY <1>12 DEF UnlinkUsr, Goto, AfterLeave
<1>13. ASSUME NEW p \in Proc, Enter(p) PROVE RecordInv'
  BY <1>13 DEF Enter, Goto
<1>14. ASSUME NEW p \in Proc, WhoChan(p) PROVE RecordInv'
  BY <1>14 DEF WhoChan, Goto
<1>15. ASSUME NEW p \in Proc, WhoExit(p) PROVE RecordInv'
  BY <1>15 DEF WhoExit, Goto
<1>16. ASSUME NEW p \in Proc, WhoIsOn(p) PROVE RecordInv'
  BY <1>16 DEF WhoIsOn, Goto
<1>17. ASSUME NEW p \in Proc, Invite(p) PROVE RecordInv'
  BY <1>17 DEF Invite, Goto
<1>18. ASSUME NEW p \in Proc, Join(p) PROVE RecordInv'
  BY <1>18 DEF Join, Goto, Count
<1>19. ASSUME NEW p \in Proc, Quit(p) PROVE RecordInv'
  BY <1>19 DEF Quit, Goto, LeaveParty
<1>20. ASSUME NEW p \in Proc, CloseChan(p) PROVE RecordInv'
  BY <1>20 DEF CloseChan, Goto, Count
<1>21. ASSUME NEW p \in Proc, OpenChan(p) PROVE RecordInv'
  BY <1>21 DEF OpenChan, Count
<1>22. ASSUME NEW p \in Proc, InviteCheck(p) PROVE RecordInv'
  BY <1>22 DEF InviteCheck, Goto, Count
<1>23. ASSUME NEW p \in Proc, StopKnocking(p) PROVE RecordInv'
  BY <1>23 DEF StopKnocking, Goto, Refused
<1>24. ASSUME NEW p \in Proc, Hangup(p) PROVE RecordInv'
  BY <1>24 DEF Hangup, Goto, LeaveParty
<1>25. ASSUME NEW p \in Proc, KillNine(p) PROVE RecordInv'
  BY <1>25 DEF KillNine, Goto
<1>26. ASSUME NEW p \in Proc, TtyReused(p) PROVE RecordInv'
  BY <1>26 DEF TtyReused
<1>27. CASE UNCHANGED vars
  BY <1>27 DEF vars
<1> QED
  BY <1>1, <1>2, <1>3, <1>4, <1>5, <1>6, <1>7, <1>8, <1>9, <1>10, <1>11,
     <1>12, <1>13, <1>14, <1>15, <1>16, <1>17, <1>18, <1>19, <1>20, <1>21,
     <1>22, <1>23, <1>24, <1>25, <1>26, <1>27 DEF PartyNext, Progress, Command

\* who_empty() is false of a channel that two records show.
LEMMA TwoAreNotEmpty ==
  ASSUME NEW c, NEW p \in Proc, NEW q \in Proc, p # q, who[p] = c, who[q] = c
  PROVE  ~WhoEmpty(c)
<1> DEFINE S == {r \in Proc : who[r] = c}
<1>1. IsFiniteSet(S) /\ IsFiniteSet({p, q})
  <2>1. IsFiniteSet({p}) /\ IsFiniteSet({p} \cup {q})
    BY FS_Singleton, FS_AddElement
  <2>2. {p} \cup {q} = {p, q}
    OBVIOUS
  <2> QED BY <2>1, <2>2, UsersAssumption, FS_Subset
<1>2. Cardinality({p, q}) = 2
  <2>1. IsFiniteSet({p}) /\ Cardinality({p}) = 1
    BY FS_Singleton
  <2>2. Cardinality({p} \cup {q}) = Cardinality({p}) + 1
    <3>1. q \notin {p}
      OBVIOUS
    <3> QED BY <2>1, <3>1, FS_AddElement, Zenon
  <2>3. {p} \cup {q} = {p, q}
    OBVIOUS
  <2> QED BY <2>1, <2>2, <2>3
<1>3. Cardinality({p, q}) <= Cardinality(S)
  BY <1>1, FS_Subset
<1>4. Cardinality(S) \in Nat
  BY <1>1, FS_CardinalityType
<1> QED BY <1>2, <1>3, <1>4 DEF WhoEmpty

\* The open files: Unlink is the action that could take them away.
LEMMA FilesStep ==
  PartyTypeOK /\ ChannelInv /\ AloneInv /\ FilesInv /\ [PartyNext]_vars
    => FilesInv'
<1> SUFFICES ASSUME PartyTypeOK, ChannelInv, AloneInv, FilesInv, [PartyNext]_vars
             PROVE FilesInv'
  OBVIOUS
<1> USE DEF PartyTypeOK, ChannelInv, FilesInv, Safe, Inside, Joining,
       fileVars, joinVars, curVars
<1>1. ASSUME NEW p \in Proc, NoSuchChannel(p) PROVE FilesInv'
  BY <1>1 DEF NoSuchChannel, Goto, Refused
<1>2. ASSUME NEW p \in Proc, Check(p) PROVE FilesInv'
  BY <1>2 DEF Check, Goto, MayEnter, SetOptions
<1>3. ASSUME NEW p \in Proc, Decline(p) PROVE FilesInv'
  BY <1>3 DEF Decline, Goto, Refused
<1>4. ASSUME NEW p \in Proc, Knock(p) PROVE FilesInv'
  BY <1>4 DEF Knock, Goto
<1>5. ASSUME NEW p \in Proc, Poll(p) PROVE FilesInv'
  BY <1>5 DEF Poll, Goto, MayEnter, SetOptions, Refused
<1>6. ASSUME NEW p \in Proc, OpenRead(p) PROVE FilesInv'
  BY <1>6 DEF OpenRead, Goto, OpenFile
<1>7. ASSUME NEW p \in Proc, OpenWrite(p) PROVE FilesInv'
  BY <1>7 DEF OpenWrite, Goto, OpenFile
<1>8. ASSUME NEW p \in Proc, CannotOpen(p) PROVE FilesInv'
  BY <1>8 DEF CannotOpen, Goto, RestoreOptions, Refused
<1>9. ASSUME NEW p \in Proc, Leave(p) PROVE FilesInv'
  BY <1>9 DEF Leave, Goto, AfterLeave
<1>10. ASSUME NEW p \in Proc, Scan(p) PROVE FilesInv'
  BY <1>10 DEF Scan, Goto, AfterLeave
<1>11. ASSUME NEW p \in Proc, Unlink(p) PROVE FilesInv'
  <2> SUFFICES ASSUME NEW c \in Channels, Safe(c)', NEW q \in Proc
               PROVE  /\ Inside(q, c)' => Inside(q, c) /\ file'[c] = file[c]
                      /\ Joining(q, c)' => Joining(q, c) /\ file'[c] = file[c]
    BY <1>11 DEF Unlink, Goto
  <2>1. Safe(c)
    BY <1>11 DEF Unlink
  <2>2. CASE c \in Keep \/ channel[p] # c
    BY <1>11, <2>2 DEF Unlink, Goto
  <2>3. CASE c \notin Keep /\ channel[p] = c
    <3>1. Deleting(p, c)
      BY <1>11, <2>3 DEF Unlink, Deleting
    <3>2. ~Inside(p, c)' /\ ~Joining(p, c)'
      BY <1>11, <2>3, ChannelsAssumption DEF Unlink, Goto
    <3>3. q # p => ~Inside(q, c) /\ ~Joining(q, c)
      BY <2>1, <2>3, <3>1 DEF AloneInv
    <3> QED BY <1>11, <3>2, <3>3 DEF Unlink, Goto
  <2> QED BY <2>2, <2>3
<1>12. ASSUME NEW p \in Proc, UnlinkUsr(p) PROVE FilesInv'
  BY <1>12 DEF UnlinkUsr, Goto, AfterLeave
<1>13. ASSUME NEW p \in Proc, Enter(p) PROVE FilesInv'
  BY <1>13 DEF Enter, Goto
<1>14. ASSUME NEW p \in Proc, WhoChan(p) PROVE FilesInv'
  BY <1>14 DEF WhoChan, Goto
<1>15. ASSUME NEW p \in Proc, WhoExit(p) PROVE FilesInv'
  BY <1>15 DEF WhoExit, Goto
<1>16. ASSUME NEW p \in Proc, WhoIsOn(p) PROVE FilesInv'
  BY <1>16 DEF WhoIsOn, Goto
<1>17. ASSUME NEW p \in Proc, Invite(p) PROVE FilesInv'
  BY <1>17 DEF Invite, Goto
<1>18. ASSUME NEW p \in Proc, Join(p) PROVE FilesInv'
  BY <1>18, ChannelsAssumption DEF Join, Goto, Count
<1>19. ASSUME NEW p \in Proc, Quit(p) PROVE FilesInv'
  BY <1>19, ChannelsAssumption DEF Quit, Goto, LeaveParty
<1>20. ASSUME NEW p \in Proc, CloseChan(p) PROVE FilesInv'
  BY <1>20 DEF CloseChan, Goto, Count
<1>21. ASSUME NEW p \in Proc, OpenChan(p) PROVE FilesInv'
  BY <1>21 DEF OpenChan, Count
<1>22. ASSUME NEW p \in Proc, InviteCheck(p) PROVE FilesInv'
  BY <1>22 DEF InviteCheck, Goto, Count
<1>23. ASSUME NEW p \in Proc, StopKnocking(p) PROVE FilesInv'
  BY <1>23 DEF StopKnocking, Goto, Refused
<1>24. ASSUME NEW p \in Proc, Hangup(p) PROVE FilesInv'
  BY <1>24, ChannelsAssumption DEF Hangup, Goto, LeaveParty
<1>25. ASSUME NEW p \in Proc, KillNine(p) PROVE FilesInv'
  BY <1>25 DEF KillNine, Goto
<1>26. ASSUME NEW p \in Proc, TtyReused(p) PROVE FilesInv'
  BY <1>26 DEF TtyReused
<1>27. CASE UNCHANGED vars
  BY <1>27 DEF vars
<1> QED
  BY <1>1, <1>2, <1>3, <1>4, <1>5, <1>6, <1>7, <1>8, <1>9, <1>10, <1>11,
     <1>12, <1>13, <1>14, <1>15, <1>16, <1>17, <1>18, <1>19, <1>20, <1>21,
     <1>22, <1>23, <1>24, <1>25, <1>26, <1>27 DEF PartyNext, Progress, Command

\* Who deletes is alone: Scan makes it so, OpenRead is what could end it.
LEMMA AloneStep ==
  PartyTypeOK /\ ChannelInv /\ RecordInv /\ AloneInv /\ [PartyNext]_vars
    => AloneInv'
<1> SUFFICES ASSUME PartyTypeOK, ChannelInv, RecordInv, AloneInv, [PartyNext]_vars
             PROVE AloneInv'
  OBVIOUS
<1> USE DEF PartyTypeOK, ChannelInv, AloneInv, Safe, Inside, Joining,
       Deleting, fileVars, joinVars, curVars
<1>1. ASSUME NEW p \in Proc, NoSuchChannel(p) PROVE AloneInv'
  BY <1>1 DEF NoSuchChannel, Goto, Refused
<1>2. ASSUME NEW p \in Proc, Check(p) PROVE AloneInv'
  BY <1>2 DEF Check, Goto, MayEnter, SetOptions
<1>3. ASSUME NEW p \in Proc, Decline(p) PROVE AloneInv'
  BY <1>3 DEF Decline, Goto, Refused
<1>4. ASSUME NEW p \in Proc, Knock(p) PROVE AloneInv'
  BY <1>4 DEF Knock, Goto
<1>5. ASSUME NEW p \in Proc, Poll(p) PROVE AloneInv'
  BY <1>5 DEF Poll, Goto, MayEnter, SetOptions, Refused
<1>6. ASSUME NEW p \in Proc, OpenRead(p) PROVE AloneInv'
  BY <1>6 DEF OpenRead, Goto, OpenFile
<1>7. ASSUME NEW p \in Proc, OpenWrite(p) PROVE AloneInv'
  BY <1>7 DEF OpenWrite, Goto, OpenFile
<1>8. ASSUME NEW p \in Proc, CannotOpen(p) PROVE AloneInv'
  BY <1>8 DEF CannotOpen, Goto, RestoreOptions, Refused
<1>9. ASSUME NEW p \in Proc, Leave(p) PROVE AloneInv'
  BY <1>9 DEF Leave, Goto, AfterLeave
<1>10. ASSUME NEW p \in Proc, Scan(p) PROVE AloneInv'
  <2>1. CASE ~WhoEmpty(channel[p])
    BY <1>10, <2>1 DEF Scan, Goto, AfterLeave
  <2>2. CASE WhoEmpty(channel[p])
    <3> SUFFICES ASSUME NEW c \in Channels, c \notin Keep, Safe(c)',
                        NEW r \in Proc, NEW q \in Proc, Deleting(r, c)', q # r
                 PROVE ~Inside(q, c)' /\ ~Joining(q, c)'
      BY DEF AloneInv
    <3>1. Safe(c)
      BY <1>10, <2>2 DEF Scan, Safe
    <3>2. CASE r # p
      BY <1>10, <2>2, <3>1, <3>2 DEF Scan, Goto
    <3>3. CASE r = p
      <4>1. channel[p] = c /\ q # p
        BY <1>10, <3>3 DEF Scan
      <4>2. who[p] = c /\ Unlisted = {}
        BY <1>10, <3>1, <4>1 DEF RecordInv, Scan
      <4>3. ~Inside(q, c)
        BY <2>2, <4>1, <4>2, TwoAreNotEmpty DEF RecordInv
      <4>4. ~Joining(q, c)
        BY <1>10, <2>2, <4>1 DEF Scan
      <4> QED BY <1>10, <4>1, <4>3, <4>4 DEF Scan, Goto
    <3> QED BY <3>2, <3>3
  <2> QED BY <2>1, <2>2
<1>11. ASSUME NEW p \in Proc, Unlink(p) PROVE AloneInv'
  BY <1>11 DEF Unlink, Goto
<1>12. ASSUME NEW p \in Proc, UnlinkUsr(p) PROVE AloneInv'
  BY <1>12 DEF UnlinkUsr, Goto, AfterLeave
<1>13. ASSUME NEW p \in Proc, Enter(p) PROVE AloneInv'
  BY <1>13 DEF Enter, Goto
<1>14. ASSUME NEW p \in Proc, WhoChan(p) PROVE AloneInv'
  BY <1>14 DEF WhoChan, Goto
<1>15. ASSUME NEW p \in Proc, WhoExit(p) PROVE AloneInv'
  BY <1>15 DEF WhoExit, Goto
<1>16. ASSUME NEW p \in Proc, WhoIsOn(p) PROVE AloneInv'
  BY <1>16 DEF WhoIsOn, Goto
<1>17. ASSUME NEW p \in Proc, Invite(p) PROVE AloneInv'
  BY <1>17 DEF Invite, Goto
<1>18. ASSUME NEW p \in Proc, Join(p) PROVE AloneInv'
  BY <1>18, ChannelsAssumption DEF Join, Goto, Count
<1>19. ASSUME NEW p \in Proc, Quit(p) PROVE AloneInv'
  BY <1>19, ChannelsAssumption DEF Quit, Goto, LeaveParty
<1>20. ASSUME NEW p \in Proc, CloseChan(p) PROVE AloneInv'
  BY <1>20 DEF CloseChan, Goto, Count
<1>21. ASSUME NEW p \in Proc, OpenChan(p) PROVE AloneInv'
  BY <1>21 DEF OpenChan, Count
<1>22. ASSUME NEW p \in Proc, InviteCheck(p) PROVE AloneInv'
  BY <1>22 DEF InviteCheck, Goto, Count
<1>23. ASSUME NEW p \in Proc, StopKnocking(p) PROVE AloneInv'
  BY <1>23 DEF StopKnocking, Goto, Refused
<1>24. ASSUME NEW p \in Proc, Hangup(p) PROVE AloneInv'
  BY <1>24, ChannelsAssumption DEF Hangup, Goto, LeaveParty
<1>25. ASSUME NEW p \in Proc, KillNine(p) PROVE AloneInv'
  BY <1>25 DEF KillNine, Goto
<1>26. ASSUME NEW p \in Proc, TtyReused(p) PROVE AloneInv'
  BY <1>26 DEF TtyReused
<1>27. CASE UNCHANGED vars
  BY <1>27 DEF vars
<1> QED
  BY <1>1, <1>2, <1>3, <1>4, <1>5, <1>6, <1>7, <1>8, <1>9, <1>10, <1>11,
     <1>12, <1>13, <1>14, <1>15, <1>16, <1>17, <1>18, <1>19, <1>20, <1>21,
     <1>22, <1>23, <1>24, <1>25, <1>26, <1>27 DEF PartyNext, Progress, Command

-----------------------------------------------------------------------------
PartyInv ==
  /\ PartyTypeOK /\ ChannelInv /\ OptionsInv /\ RecordInv /\ FilesInv /\ AloneInv

\* The conjuncts hold to begin with: everybody is outside.
LEMMA PartyInvInit == PartyInit => PartyInv
<1> SUFFICES ASSUME PartyInit PROVE PartyInv
  OBVIOUS
<1>1. PartyTypeOK
  BY BoundsAssumption DEF PartyInit, PartyTypeOK, Labels
<1>2. ChannelInv /\ OptionsInv /\ RecordInv
  BY DEF PartyInit, ChannelInv, OptionsInv, RecordInv
<1>3. FilesInv /\ AloneInv
  BY DEF PartyInit, FilesInv, AloneInv, Inside, Joining, Deleting
<1> QED BY <1>1, <1>2, <1>3 DEF PartyInv

\* And every step of a process, of a user, or of the system preserves them.
LEMMA PartyInvStep == PartyInv /\ [PartyNext]_vars => PartyInv'
<1> SUFFICES ASSUME PartyInv, [PartyNext]_vars PROVE PartyInv'
  OBVIOUS
<1> USE DEF PartyInv
<1>1. PartyTypeOK'
  BY PartyTypeStep
<1>2. ChannelInv' /\ OptionsInv' /\ RecordInv'
  BY ChannelStep, OptionsStep, RecordStep
<1>3. FilesInv' /\ AloneInv'
  BY FilesStep, AloneStep
<1> QED BY <1>1, <1>2, <1>3

\* The variables of party's processes and its files keep their types; the wait
\* at a closed door is bounded by knockwait.
THEOREM PartyTypeCorrect == PartySpec => []PartyTypeOK
<1>1. PartyInv => PartyTypeOK
  BY DEF PartyInv
<1> QED BY PartyInvInit, PartyInvStep, <1>1, PTL DEF PartySpec

\* However a join_party() ends, a process in the main loop has the options of the
\* channel it is in.
THEOREM PartyOptionsMatch == PartySpec => []OptionsMatch
<1>1. PartyInv => OptionsMatch
  BY ChannelsAssumption DEF PartyInv, OptionsMatch, OptionsInv, ChannelInv
<1> QED BY PartyInvInit, PartyInvStep, <1>1, PTL DEF PartySpec

\* A channel is one log file for all that are in it, unless a join met the
\* deletion of a temporary channel.
THEOREM PartyOneLog == PartySpec => []OneLogUnlessRaced
<1>1. PartyInv => OneLogUnlessRaced
  BY DEF PartyInv, OneLogUnlessRaced, OneLog, FilesInv, Safe
<1> QED BY PartyInvInit, PartyInvStep, <1>1, PTL DEF PartySpec
=============================================================================
