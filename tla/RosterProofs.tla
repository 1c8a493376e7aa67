---------------------------- MODULE RosterProofs ----------------------------
(***************************************************************************)
(* Proofs about Roster, for any number of connections, workers, Python     *)
(* threads, accounts and nicks, under every interleaving of the critical   *)
(* sections: the account caches, the connection lists and irc_nicks are    *)
(* right, but for the lists and the nicks that the history names as raced  *)
(* or contested.                                                           *)
(*                                                                         *)
(* Inv is inductive.  RosterExact and AnonymousConnections are not: they   *)
(* need HandlerInv (what a handler in progress may rely on) and OwnListInv *)
(* (no other thread writes the list of an anonymous account).              *)
(*                                                                         *)
(* TrackInv, on top of Inv, carries the lists of all accounts              *)
(* (ListsTracked).  NickInv carries irc_nicks (NicksIndexed, NicksKept):   *)
(* what each handler in progress knows of the nicks it deals with stays    *)
(* true or the nicks become contested, since another handler can disturb   *)
(* it only by dealing with one of them itself (OthersKnow).                *)
(***************************************************************************)
EXTENDS Roster, TLAPS

\* The local variables the handlers start from are well typed.
LEMMA JobTypes ==
    ASSUME NEW a \in Accounts \cup {NULL}, NEW m \in Nicks \cup {NULL},
           NEW n \in Nicks \cup {NULL}, NEW b \in BOOLEAN, NEW S \in SUBSET Conns
    PROVE  /\ NickJob(a, m, n, b) \in Job
           /\ ListJob(S) \in Job
           /\ NoJob \in Job
  BY DEF NickJob, ListJob, NoJob, Job

\* The fields of a handler's local variables.
LEMMA JobFields ==
    ASSUME Types, NEW p \in Procs
    PROVE  /\ job[p].acct \in Accounts \cup {NULL}
           /\ job[p].old \in Nicks \cup {NULL}
           /\ job[p].new \in Nicks \cup {NULL}
           /\ job[p].taken \in BOOLEAN
           /\ job[p].snap \in SUBSET Conns
           /\ job \in [Procs -> Job]
  BY DEF Types, Job

\* nick() is a nick, or "*".
LEMMA NickType ==
    ASSUME Types, NEW c \in Conns
    PROVE  Nick(c) \in Nicks \cup {NULL}
  BY DEF Types, Nick

\* Writing the local variables of p leaves those of the others alone.
LEMMA JobUpdate ==
    ASSUME Types, NEW p \in Procs,
           \/ \E locals \in Job : SetJob(p, locals)
           \/ UNCHANGED job
    PROVE  /\ job' \in [Procs -> Job]
           /\ \A d \in Procs : d # p => job'[d] = job[d]
  BY DEF Types, SetJob, Procs

\* What a handler contests are nicks.
LEMMA ContestType ==
    ASSUME Types, NEW p,
           Contest(p, {}) \/ \E n : Contest(p, Capitals(n))
    PROVE  contested' \in SUBSET Nicks
<1>1. (\A q : Concerns(q) \subseteq Nicks) /\ \A n : Capitals(n) \subseteq Nicks
  BY DEF Concerns, Capitals
<1>2. QED
  BY <1>1 DEF Contest, Types

-----------------------------------------------------------------------------
\* handleNICK and Account::setNick touch neither a connection's registration nor a
\* connection list nor the account caches: such a step of thread p keeps the
\* invariant whatever it does to nicks.
NickSteps == {"nick_old", "hook", "look", "taken", "write", "store"}

LEMMA NickFrame ==
    ASSUME Inv, NEW p \in Procs,
           UNCHANGED <<connVars, conns, roster>>,
           accNick' \in [Accounts -> Nicks \cup {NULL}],
           ircNicks' \in [Nicks -> Accounts \cup {NULL}],
           crashed' \in BOOLEAN,
           contested' \in SUBSET Nicks, UNCHANGED raced,
           NEW step \in NickSteps \cup {"idle"},
           Goto(p, step),
           job' \in [Procs -> Job],
           \A d \in Procs : d # p => job'[d] = job[d],
           p \in Conns => /\ pc[p] \notin {"dis_nick", "dis_drop"}
                          /\ phase[p] \in {"open", "closing"}
    PROVE  Inv'
<1> USE RosterAssumption DEF Inv, connVars, Goto, NickSteps
<1>1. Types'
  BY DEF Types, Steps
<1>2. HandlerInv'
  BY DEF Types, HandlerInv, FinSteps, Procs
<1>3. Registration'
  BY DEF Registration
<1>4. RosterExact'
  BY DEF RosterExact, Merged
<1>5. OwnListInv'
  BY DEF Types, OwnListInv, Procs
<1>6. AnonymousConnections'
  BY DEF Types, AnonymousConnections, Procs
<1>7. QED
  BY <1>1, <1>2, <1>3, <1>4, <1>5, <1>6

\* HandleNick keeps the invariant.
LEMMA HandleNickInv == ASSUME Inv, NEW c \in Conns, NEW n \in Nicks, HandleNick(c, n) PROVE Inv'
<1> USE RosterAssumption DEF Inv, HandleNick, At, MayHandle, connVars, accountVars, cacheVars, causes
<1>1. c \in Procs
  BY DEF Procs
<1>2. Types /\ HandlerInv
  OBVIOUS
<1>3. c \in Conns => /\ pc[c] \notin {"dis_nick", "dis_drop"}
                     /\ phase[c] \in {"open", "closing"}
  BY <1>2, RosterAssumption DEF HandlerInv, WorkerIdle
<1>4. /\ accNick' \in [Accounts -> Nicks \cup {NULL}]
      /\ ircNicks' \in [Nicks -> Accounts \cup {NULL}]
      /\ crashed' \in BOOLEAN
      /\ contested' \in SUBSET Nicks
      /\ UNCHANGED raced
  BY <1>1, <1>2, JobFields, ContestType DEF Types, RenamedIndex
<1>5. (\E locals \in Job : SetJob(c, locals)) \/ UNCHANGED job
  BY <1>1, <1>2, JobFields, JobTypes, NickType DEF Return, Accounts, Types
<1>6. \E step \in NickSteps \cup {"idle"} : Goto(c, step)
  BY DEF NickSteps, Return
<1>7. UNCHANGED <<connVars, conns, roster>>
  OBVIOUS
<1>8. QED
  BY <1>1, <1>3, <1>4, <1>5, <1>6, <1>7, NickFrame, JobUpdate

\* HandleNickOld keeps the invariant.
LEMMA HandleNickOldInv == ASSUME Inv, NEW c \in Conns, HandleNickOld(c) PROVE Inv'
<1> USE RosterAssumption DEF Inv, HandleNickOld, At, MayHandle, connVars, accountVars, cacheVars, causes
<1>1. c \in Procs
  BY DEF Procs
<1>2. Types /\ HandlerInv
  OBVIOUS
<1>3. c \in Conns => /\ pc[c] \notin {"dis_nick", "dis_drop"}
                     /\ phase[c] \in {"open", "closing"}
  BY <1>2, RosterAssumption DEF HandlerInv, WorkerIdle
<1>4. /\ accNick' \in [Accounts -> Nicks \cup {NULL}]
      /\ ircNicks' \in [Nicks -> Accounts \cup {NULL}]
      /\ crashed' \in BOOLEAN
      /\ contested' \in SUBSET Nicks
      /\ UNCHANGED raced
  BY <1>1, <1>2, JobFields, ContestType DEF Types, RenamedIndex
<1>5. (\E locals \in Job : SetJob(c, locals)) \/ UNCHANGED job
  BY <1>1, <1>2, JobFields, JobTypes, NickType DEF Return, Accounts, Types
<1>6. \E step \in NickSteps \cup {"idle"} : Goto(c, step)
  BY DEF NickSteps, Return
<1>7. UNCHANGED <<connVars, conns, roster>>
  OBVIOUS
<1>8. QED
  BY <1>1, <1>3, <1>4, <1>5, <1>6, <1>7, NickFrame, JobUpdate

\* PySetNick keeps the invariant.
LEMMA PySetNickInv == ASSUME Inv, NEW s \in Snakes, NEW a \in Accounts, NEW n \in Nicks, PySetNick(s, a, n) PROVE Inv'
<1> USE RosterAssumption DEF Inv, PySetNick, At, MayHandle, connVars, accountVars, cacheVars, causes
<1>1. s \in Procs
  BY DEF Procs
<1>2. Types /\ HandlerInv
  OBVIOUS
<1>3. s \in Conns => /\ pc[s] \notin {"dis_nick", "dis_drop"}
                     /\ phase[s] \in {"open", "closing"}
  BY <1>2, RosterAssumption DEF HandlerInv, WorkerIdle
<1>4. /\ accNick' \in [Accounts -> Nicks \cup {NULL}]
      /\ ircNicks' \in [Nicks -> Accounts \cup {NULL}]
      /\ crashed' \in BOOLEAN
      /\ contested' \in SUBSET Nicks
      /\ UNCHANGED raced
  BY <1>1, <1>2, JobFields, ContestType DEF Types, RenamedIndex
<1>5. (\E locals \in Job : SetJob(s, locals)) \/ UNCHANGED job
  BY <1>1, <1>2, JobFields, JobTypes, NickType DEF Return, Accounts, Types
<1>6. \E step \in NickSteps \cup {"idle"} : Goto(s, step)
  BY DEF NickSteps, Return
<1>7. UNCHANGED <<connVars, conns, roster>>
  OBVIOUS
<1>8. QED
  BY <1>1, <1>3, <1>4, <1>5, <1>6, <1>7, NickFrame, JobUpdate

\* SetNickHook keeps the invariant.
LEMMA SetNickHookInv == ASSUME Inv, NEW p \in Procs, SetNickHook(p) PROVE Inv'
<1> USE RosterAssumption DEF Inv, SetNickHook, At, MayHandle, connVars, accountVars, cacheVars, causes
<1>1. p \in Procs
  BY DEF Procs
<1>2. Types /\ HandlerInv
  OBVIOUS
<1>3. p \in Conns => /\ pc[p] \notin {"dis_nick", "dis_drop"}
                     /\ phase[p] \in {"open", "closing"}
  BY <1>2, RosterAssumption DEF HandlerInv, WorkerIdle
<1>4. /\ accNick' \in [Accounts -> Nicks \cup {NULL}]
      /\ ircNicks' \in [Nicks -> Accounts \cup {NULL}]
      /\ crashed' \in BOOLEAN
      /\ contested' \in SUBSET Nicks
      /\ UNCHANGED raced
  BY <1>1, <1>2, JobFields, ContestType DEF Types, RenamedIndex
<1>5. (\E locals \in Job : SetJob(p, locals)) \/ UNCHANGED job
  BY <1>1, <1>2, JobFields, JobTypes, NickType DEF Return, Accounts, Types
<1>6. \E step \in NickSteps \cup {"idle"} : Goto(p, step)
  BY DEF NickSteps, Return
<1>7. UNCHANGED <<connVars, conns, roster>>
  OBVIOUS
<1>8. QED
  BY <1>1, <1>3, <1>4, <1>5, <1>6, <1>7, NickFrame, JobUpdate

\* SetNickLook keeps the invariant.
LEMMA SetNickLookInv == ASSUME Inv, NEW p \in Procs, SetNickLook(p) PROVE Inv'
<1> USE RosterAssumption DEF Inv, SetNickLook, At, MayHandle, connVars, accountVars, cacheVars, causes
<1>1. p \in Procs
  BY DEF Procs
<1>2. Types /\ HandlerInv
  OBVIOUS
<1>3. p \in Conns => /\ pc[p] \notin {"dis_nick", "dis_drop"}
                     /\ phase[p] \in {"open", "closing"}
  BY <1>2, RosterAssumption DEF HandlerInv, WorkerIdle
<1>4. /\ accNick' \in [Accounts -> Nicks \cup {NULL}]
      /\ ircNicks' \in [Nicks -> Accounts \cup {NULL}]
      /\ crashed' \in BOOLEAN
      /\ contested' \in SUBSET Nicks
      /\ UNCHANGED raced
  BY <1>1, <1>2, JobFields, ContestType DEF Types, RenamedIndex
<1>5. (\E locals \in Job : SetJob(p, locals)) \/ UNCHANGED job
  BY <1>1, <1>2, JobFields, JobTypes, NickType DEF Return, Accounts, Types
<1>6. \E step \in NickSteps \cup {"idle"} : Goto(p, step)
  BY DEF NickSteps, Return
<1>7. UNCHANGED <<connVars, conns, roster>>
  OBVIOUS
<1>8. QED
  BY <1>1, <1>3, <1>4, <1>5, <1>6, <1>7, NickFrame, JobUpdate

\* SetNickTaken keeps the invariant.
LEMMA SetNickTakenInv == ASSUME Inv, NEW p \in Procs, SetNickTaken(p) PROVE Inv'
<1> USE RosterAssumption DEF Inv, SetNickTaken, At, MayHandle, connVars, accountVars, cacheVars, causes
<1>1. p \in Procs
  BY DEF Procs
<1>2. Types /\ HandlerInv
  OBVIOUS
<1>3. p \in Conns => /\ pc[p] \notin {"dis_nick", "dis_drop"}
                     /\ phase[p] \in {"open", "closing"}
  BY <1>2, RosterAssumption DEF HandlerInv, WorkerIdle
<1>4. /\ accNick' \in [Accounts -> Nicks \cup {NULL}]
      /\ ircNicks' \in [Nicks -> Accounts \cup {NULL}]
      /\ crashed' \in BOOLEAN
      /\ contested' \in SUBSET Nicks
      /\ UNCHANGED raced
  BY <1>1, <1>2, JobFields, ContestType DEF Types, RenamedIndex
<1>5. (\E locals \in Job : SetJob(p, locals)) \/ UNCHANGED job
  BY <1>1, <1>2, JobFields, JobTypes, NickType DEF Return, Accounts, Types
<1>6. \E step \in NickSteps \cup {"idle"} : Goto(p, step)
  BY DEF NickSteps, Return
<1>7. UNCHANGED <<connVars, conns, roster>>
  OBVIOUS
<1>8. QED
  BY <1>1, <1>3, <1>4, <1>5, <1>6, <1>7, NickFrame, JobUpdate

\* SetNickWrite keeps the invariant.
LEMMA SetNickWriteInv == ASSUME Inv, NEW p \in Procs, SetNickWrite(p) PROVE Inv'
<1> USE RosterAssumption DEF Inv, SetNickWrite, At, MayHandle, connVars, accountVars, cacheVars, causes
<1>1. p \in Procs
  BY DEF Procs
<1>2. Types /\ HandlerInv
  OBVIOUS
<1>3. p \in Conns => /\ pc[p] \notin {"dis_nick", "dis_drop"}
                     /\ phase[p] \in {"open", "closing"}
  BY <1>2, RosterAssumption DEF HandlerInv, WorkerIdle
<1>4. /\ accNick' \in [Accounts -> Nicks \cup {NULL}]
      /\ ircNicks' \in [Nicks -> Accounts \cup {NULL}]
      /\ crashed' \in BOOLEAN
      /\ contested' \in SUBSET Nicks
      /\ UNCHANGED raced
  BY <1>1, <1>2, JobFields, ContestType DEF Types, RenamedIndex
<1>5. (\E locals \in Job : SetJob(p, locals)) \/ UNCHANGED job
  BY <1>1, <1>2, JobFields, JobTypes, NickType DEF Return, Accounts, Types
<1>6. \E step \in NickSteps \cup {"idle"} : Goto(p, step)
  BY DEF NickSteps, Return
<1>7. UNCHANGED <<connVars, conns, roster>>
  OBVIOUS
<1>8. QED
  BY <1>1, <1>3, <1>4, <1>5, <1>6, <1>7, NickFrame, JobUpdate

\* SetNickStore keeps the invariant.
LEMMA SetNickStoreInv == ASSUME Inv, NEW p \in Procs, SetNickStore(p) PROVE Inv'
<1> USE RosterAssumption DEF Inv, SetNickStore, At, MayHandle, connVars, accountVars, cacheVars, causes
<1>1. p \in Procs
  BY DEF Procs
<1>2. Types /\ HandlerInv
  OBVIOUS
<1>3. p \in Conns => /\ pc[p] \notin {"dis_nick", "dis_drop"}
                     /\ phase[p] \in {"open", "closing"}
  BY <1>2, RosterAssumption DEF HandlerInv, WorkerIdle
<1>4. /\ accNick' \in [Accounts -> Nicks \cup {NULL}]
      /\ ircNicks' \in [Nicks -> Accounts \cup {NULL}]
      /\ crashed' \in BOOLEAN
      /\ contested' \in SUBSET Nicks
      /\ UNCHANGED raced
  BY <1>1, <1>2, JobFields, ContestType DEF Types, RenamedIndex
<1>5. (\E locals \in Job : SetJob(p, locals)) \/ UNCHANGED job
  BY <1>1, <1>2, JobFields, JobTypes, NickType DEF Return, Accounts, Types
<1>6. \E step \in NickSteps \cup {"idle"} : Goto(p, step)
  BY DEF NickSteps, Return
<1>7. UNCHANGED <<connVars, conns, roster>>
  OBVIOUS
<1>8. QED
  BY <1>1, <1>3, <1>4, <1>5, <1>6, <1>7, NickFrame, JobUpdate

-----------------------------------------------------------------------------
\* Connect keeps the invariant.
LEMMA ConnectInv == ASSUME Inv, NEW c \in Conns, Connect(c) PROVE Inv'
<1> USE RosterAssumption
<1>a. c \in Procs
  BY DEF Procs
<1>j. (\E locals \in Job : SetJob(c, locals)) \/ UNCHANGED job
  BY <1>a, JobFields, JobTypes, NickType
     DEF Inv, Connect, connVars, accountVars, cacheVars, causes, Types, HandlerInv, Accounts
<1>k. job' \in [Procs -> Job]
  BY <1>a, <1>j, JobUpdate DEF Inv
<1>1. Types'
  BY <1>a, <1>k
     DEF Inv, Connect, connVars, accountVars, cacheVars, causes, Types, HandlerInv, Accounts,
         SetupTasks, Steps
<1>2. HandlerInv'
  BY <1>a
     DEF Inv, Connect, SetJob, connVars, accountVars, cacheVars, causes, Types, HandlerInv,
         Registration, FinSteps, NoJob, ListJob, NickJob, Procs, Accounts, WorkerIdle
<1>3. Registration'
  BY <1>a
     DEF Inv, Connect, SetJob, connVars, accountVars, cacheVars, causes, Types, Registration,
         HandlerInv, FinSteps, Procs, Accounts
<1>4. RosterExact'
  BY <1>a
     DEF Inv, Connect, SetJob, connVars, accountVars, cacheVars, causes, Types, RosterExact,
         Merged, HandlerInv, Registration, Procs, Accounts
<1>5. OwnListInv'
  BY <1>a
     DEF Inv, Connect, SetJob, connVars, accountVars, cacheVars, causes, Types, OwnListInv,
         HandlerInv, Registration, Procs, Accounts, NoJob, ListJob, NickJob, WorkerIdle
<1>6. AnonymousConnections'
  BY <1>a
     DEF Inv, Connect, SetJob, connVars, accountVars, cacheVars, causes, Types,
         AnonymousConnections, OwnListInv, HandlerInv, Registration, Procs, Accounts,
         WorkerIdle
<1>7. QED
  BY <1>1, <1>2, <1>3, <1>4, <1>5, <1>6 DEF Inv

\* CapEnd keeps the invariant.
LEMMA CapEndInv == ASSUME Inv, NEW c \in Conns, CapEnd(c) PROVE Inv'
<1> USE RosterAssumption
<1>a. c \in Procs
  BY DEF Procs
<1>j. (\E locals \in Job : SetJob(c, locals)) \/ UNCHANGED job
  BY <1>a, JobFields, JobTypes, NickType
     DEF Inv, CapEnd, MayHandle, Goto, FinalizeStep, connVars, accountVars, cacheVars, causes,
         Types, HandlerInv, Accounts
<1>k. job' \in [Procs -> Job]
  BY <1>a, <1>j, JobUpdate DEF Inv
<1>1. Types'
  BY <1>a, <1>k
     DEF Inv, CapEnd, MayHandle, Goto, FinalizeStep, connVars, accountVars, cacheVars, causes,
         Types, HandlerInv, Accounts, SetupTasks, Steps
<1>2. HandlerInv'
  BY <1>a
     DEF Inv, CapEnd, MayHandle, Goto, FinalizeStep, SetJob, connVars, accountVars,
         cacheVars, causes, Types, HandlerInv, Registration, FinSteps, NoJob, ListJob,
         NickJob, Procs, Accounts, WorkerIdle
<1>3. Registration'
  BY <1>a
     DEF Inv, CapEnd, MayHandle, Goto, FinalizeStep, SetJob, connVars, accountVars,
         cacheVars, causes, Types, Registration, HandlerInv, FinSteps, Procs, Accounts
<1>4. RosterExact'
  BY <1>a
     DEF Inv, CapEnd, MayHandle, Goto, FinalizeStep, SetJob, connVars, accountVars,
         cacheVars, causes, Types, RosterExact, Merged, HandlerInv, Registration, Procs,
         Accounts
<1>5. OwnListInv'
  BY <1>a
     DEF Inv, CapEnd, MayHandle, Goto, FinalizeStep, SetJob, connVars, accountVars,
         cacheVars, causes, Types, OwnListInv, HandlerInv, Registration, Procs, Accounts,
         NoJob, ListJob, NickJob, WorkerIdle
<1>6. AnonymousConnections'
  BY <1>a
     DEF Inv, CapEnd, MayHandle, Goto, FinalizeStep, SetJob, connVars, accountVars,
         cacheVars, causes, Types, AnonymousConnections, OwnListInv, HandlerInv, Registration,
         Procs, Accounts, WorkerIdle
<1>7. QED
  BY <1>1, <1>2, <1>3, <1>4, <1>5, <1>6 DEF Inv

\* HandleUser keeps the invariant.
LEMMA HandleUserInv == ASSUME Inv, NEW c \in Conns, HandleUser(c) PROVE Inv'
<1> USE RosterAssumption
<1>a. c \in Procs
  BY DEF Procs
<1>j. (\E locals \in Job : SetJob(c, locals)) \/ UNCHANGED job
  BY <1>a, JobFields, JobTypes, NickType
     DEF Inv, HandleUser, MayHandle, Goto, FinalizeStep, connVars, accountVars,
         cacheVars, causes, Types, HandlerInv, Accounts
<1>k. job' \in [Procs -> Job]
  BY <1>a, <1>j, JobUpdate DEF Inv
<1>1. Types'
  BY <1>a, <1>k
     DEF Inv, HandleUser, MayHandle, Goto, FinalizeStep, connVars, accountVars,
         cacheVars, causes, Types, HandlerInv, Accounts, SetupTasks, Steps
<1>2. HandlerInv'
  BY <1>a
     DEF Inv, HandleUser, MayHandle, Goto, FinalizeStep, SetJob, connVars, accountVars,
         cacheVars, causes, Types, HandlerInv, Registration, FinSteps, NoJob, ListJob,
         NickJob, Procs, Accounts, WorkerIdle
<1>3. Registration'
  BY <1>a
     DEF Inv, HandleUser, MayHandle, Goto, FinalizeStep, SetJob, connVars, accountVars,
         cacheVars, causes, Types, Registration, HandlerInv, FinSteps, Procs, Accounts
<1>4. RosterExact'
  BY <1>a
     DEF Inv, HandleUser, MayHandle, Goto, FinalizeStep, SetJob, connVars, accountVars,
         cacheVars, causes, Types, RosterExact, Merged, HandlerInv, Registration, Procs,
         Accounts
<1>5. OwnListInv'
  BY <1>a
     DEF Inv, HandleUser, MayHandle, Goto, FinalizeStep, SetJob, connVars, accountVars,
         cacheVars, causes, Types, OwnListInv, HandlerInv, Registration, Procs, Accounts,
         NoJob, ListJob, NickJob, WorkerIdle
<1>6. AnonymousConnections'
  BY <1>a
     DEF Inv, HandleUser, MayHandle, Goto, FinalizeStep, SetJob, connVars, accountVars,
         cacheVars, causes, Types, AnonymousConnections, OwnListInv, HandlerInv, Registration,
         Procs, Accounts, WorkerIdle
<1>7. QED
  BY <1>1, <1>2, <1>3, <1>4, <1>5, <1>6 DEF Inv

\* HandleUserTooLong keeps the invariant.
LEMMA HandleUserTooLongInv == ASSUME Inv, NEW c \in Conns, HandleUserTooLong(c) PROVE Inv'
<1> USE RosterAssumption
<1>a. c \in Procs
  BY DEF Procs
<1>j. (\E locals \in Job : SetJob(c, locals)) \/ UNCHANGED job
  BY <1>a, JobFields, JobTypes, NickType
     DEF Inv, HandleUserTooLong, MayHandle, ForceDisconnect, connVars, accountVars,
         cacheVars, causes, Types, HandlerInv, Accounts
<1>k. job' \in [Procs -> Job]
  BY <1>a, <1>j, JobUpdate DEF Inv
<1>1. Types'
  BY <1>a, <1>k
     DEF Inv, HandleUserTooLong, MayHandle, ForceDisconnect, connVars, accountVars,
         cacheVars, causes, Types, HandlerInv, Accounts, SetupTasks, Steps
<1>2. HandlerInv'
  BY <1>a
     DEF Inv, HandleUserTooLong, MayHandle, ForceDisconnect, SetJob, connVars,
         accountVars, cacheVars, causes, Types, HandlerInv, Registration, FinSteps, NoJob,
         ListJob, NickJob, Procs, Accounts, WorkerIdle
<1>3. Registration'
  BY <1>a
     DEF Inv, HandleUserTooLong, MayHandle, ForceDisconnect, SetJob, connVars,
         accountVars, cacheVars, causes, Types, Registration, HandlerInv, FinSteps, Procs,
         Accounts
<1>4. RosterExact'
  BY <1>a
     DEF Inv, HandleUserTooLong, MayHandle, ForceDisconnect, SetJob, connVars,
         accountVars, cacheVars, causes, Types, RosterExact, Merged, HandlerInv, Registration,
         Procs, Accounts
<1>5. OwnListInv'
  BY <1>a
     DEF Inv, HandleUserTooLong, MayHandle, ForceDisconnect, SetJob, connVars,
         accountVars, cacheVars, causes, Types, OwnListInv, HandlerInv, Registration, Procs,
         Accounts, NoJob, ListJob, NickJob, WorkerIdle
<1>6. AnonymousConnections'
  BY <1>a
     DEF Inv, HandleUserTooLong, MayHandle, ForceDisconnect, SetJob, connVars,
         accountVars, cacheVars, causes, Types, AnonymousConnections, OwnListInv, HandlerInv,
         Registration, Procs, Accounts, WorkerIdle
<1>7. QED
  BY <1>1, <1>2, <1>3, <1>4, <1>5, <1>6 DEF Inv

\* HandleFirstNick keeps the invariant.
LEMMA HandleFirstNickInv == ASSUME Inv, NEW c \in Conns, NEW n \in Nicks, HandleFirstNick(c, n) PROVE Inv'
<1> USE RosterAssumption
<1>a. c \in Procs
  BY DEF Procs
<1>j. (\E locals \in Job : SetJob(c, locals)) \/ UNCHANGED job
  BY <1>a, JobFields, JobTypes, NickType
     DEF Inv, HandleFirstNick, MayHandle, Goto, FinalizeStep, connVars, accountVars,
         cacheVars, causes, Types, HandlerInv, Accounts
<1>k. job' \in [Procs -> Job]
  BY <1>a, <1>j, JobUpdate DEF Inv
<1>1. Types'
  BY <1>a, <1>k
     DEF Inv, HandleFirstNick, MayHandle, Goto, FinalizeStep, connVars, accountVars,
         cacheVars, causes, Types, HandlerInv, Accounts, SetupTasks, Steps
<1>2. HandlerInv'
  BY <1>a
     DEF Inv, HandleFirstNick, MayHandle, Goto, FinalizeStep, SetJob, connVars,
         accountVars, cacheVars, causes, Types, HandlerInv, Registration, FinSteps, NoJob,
         ListJob, NickJob, Procs, Accounts, WorkerIdle
<1>3. Registration'
  BY <1>a
     DEF Inv, HandleFirstNick, MayHandle, Goto, FinalizeStep, SetJob, connVars,
         accountVars, cacheVars, causes, Types, Registration, HandlerInv, FinSteps, Procs,
         Accounts
<1>4. RosterExact'
  BY <1>a
     DEF Inv, HandleFirstNick, MayHandle, Goto, FinalizeStep, SetJob, connVars,
         accountVars, cacheVars, causes, Types, RosterExact, Merged, HandlerInv, Registration,
         Procs, Accounts
<1>5. OwnListInv'
  BY <1>a
     DEF Inv, HandleFirstNick, MayHandle, Goto, FinalizeStep, SetJob, connVars,
         accountVars, cacheVars, causes, Types, OwnListInv, HandlerInv, Registration, Procs,
         Accounts, NoJob, ListJob, NickJob, WorkerIdle
<1>6. AnonymousConnections'
  BY <1>a
     DEF Inv, HandleFirstNick, MayHandle, Goto, FinalizeStep, SetJob, connVars,
         accountVars, cacheVars, causes, Types, AnonymousConnections, OwnListInv, HandlerInv,
         Registration, Procs, Accounts, WorkerIdle
<1>7. QED
  BY <1>1, <1>2, <1>3, <1>4, <1>5, <1>6 DEF Inv

\* FinalizeNick keeps the invariant.
LEMMA FinalizeNickInv == ASSUME Inv, NEW c \in Conns, FinalizeNick(c) PROVE Inv'
<1> USE RosterAssumption
<1>a. c \in Procs
  BY DEF Procs
<1>1. CASE ircNicks[Lower[mNick[c]]] = NULL
  <2>j. (\E locals \in Job : SetJob(c, locals)) \/ UNCHANGED job
    BY <1>a, <1>1, JobFields, JobTypes, NickType
       DEF Inv, FinalizeNick, At, Goto, ForceDisconnect, connVars, accountVars,
           cacheVars, causes, Types, HandlerInv, Accounts
  <2>k. job' \in [Procs -> Job]
    BY <1>a, <2>j, JobUpdate DEF Inv
  <2>1. Types'
    BY <1>a, <1>1, <2>k
       DEF Inv, FinalizeNick, At, Goto, ForceDisconnect, connVars, accountVars,
           cacheVars, causes, Types, HandlerInv, Accounts, SetupTasks, Steps
  <2>2. HandlerInv'
    BY <1>a, <1>1
       DEF Inv, FinalizeNick, At, Goto, ForceDisconnect, SetJob, connVars, accountVars,
           cacheVars, causes, Types, HandlerInv, Registration, FinSteps, NoJob, ListJob,
           NickJob, Procs, Accounts, WorkerIdle
  <2>3. Registration'
    BY <1>a, <1>1
       DEF Inv, FinalizeNick, At, Goto, ForceDisconnect, SetJob, connVars, accountVars,
           cacheVars, causes, Types, Registration, HandlerInv, FinSteps, Procs, Accounts
  <2>4. RosterExact'
    BY <1>a, <1>1
       DEF Inv, FinalizeNick, At, Goto, ForceDisconnect, SetJob, connVars, accountVars,
           cacheVars, causes, Types, RosterExact, Merged, HandlerInv, Registration, Procs,
           Accounts
  <2>5. OwnListInv'
    BY <1>a, <1>1
       DEF Inv, FinalizeNick, At, Goto, ForceDisconnect, SetJob, connVars, accountVars,
           cacheVars, causes, Types, OwnListInv, HandlerInv, Registration, Procs, Accounts,
           NoJob, ListJob, NickJob, WorkerIdle
  <2>6. AnonymousConnections'
    BY <1>a, <1>1
       DEF Inv, FinalizeNick, At, Goto, ForceDisconnect, SetJob, connVars, accountVars,
           cacheVars, causes, Types, AnonymousConnections, OwnListInv, HandlerInv,
           Registration, Procs, Accounts, WorkerIdle
  <2>7. QED
    BY <2>1, <2>2, <2>3, <2>4, <2>5, <2>6 DEF Inv
<1>2. CASE ircNicks[Lower[mNick[c]]] # NULL
  <2>j. (\E locals \in Job : SetJob(c, locals)) \/ UNCHANGED job
    BY <1>a, <1>2, JobFields, JobTypes, NickType
       DEF Inv, FinalizeNick, At, Goto, ForceDisconnect, connVars, accountVars,
           cacheVars, causes, Types, HandlerInv, Accounts
  <2>k. job' \in [Procs -> Job]
    BY <1>a, <2>j, JobUpdate DEF Inv
  <2>1. Types'
    BY <1>a, <1>2, <2>k
       DEF Inv, FinalizeNick, At, Goto, ForceDisconnect, connVars, accountVars,
           cacheVars, causes, Types, HandlerInv, Accounts, SetupTasks, Steps
  <2>2. HandlerInv'
    BY <1>a, <1>2
       DEF Inv, FinalizeNick, At, Goto, ForceDisconnect, SetJob, connVars, accountVars,
           cacheVars, causes, Types, HandlerInv, Registration, FinSteps, NoJob, ListJob,
           NickJob, Procs, Accounts, WorkerIdle
  <2>3. Registration'
    BY <1>a, <1>2
       DEF Inv, FinalizeNick, At, Goto, ForceDisconnect, SetJob, connVars, accountVars,
           cacheVars, causes, Types, Registration, HandlerInv, FinSteps, Procs, Accounts
  <2>4. RosterExact'
    BY <1>a, <1>2
       DEF Inv, FinalizeNick, At, Goto, ForceDisconnect, SetJob, connVars, accountVars,
           cacheVars, causes, Types, RosterExact, Merged, HandlerInv, Registration, Procs,
           Accounts
  <2>5. OwnListInv'
    BY <1>a, <1>2
       DEF Inv, FinalizeNick, At, Goto, ForceDisconnect, SetJob, connVars, accountVars,
           cacheVars, causes, Types, OwnListInv, HandlerInv, Registration, Procs, Accounts,
           NoJob, ListJob, NickJob, WorkerIdle
  <2>6. AnonymousConnections'
    BY <1>a, <1>2
       DEF Inv, FinalizeNick, At, Goto, ForceDisconnect, SetJob, connVars, accountVars,
           cacheVars, causes, Types, AnonymousConnections, OwnListInv, HandlerInv,
           Registration, Procs, Accounts, WorkerIdle
  <2>7. QED
    BY <2>1, <2>2, <2>3, <2>4, <2>5, <2>6 DEF Inv
<1>3. QED
  BY <1>1, <1>2

\* FinalizeMake keeps the invariant.
LEMMA FinalizeMakeInv == ASSUME Inv, NEW c \in Conns, FinalizeMake(c) PROVE Inv'
<1> USE RosterAssumption
<1>a. c \in Procs
  BY DEF Procs
<1>j. (\E locals \in Job : SetJob(c, locals)) \/ UNCHANGED job
  BY <1>a, JobFields, JobTypes, NickType
     DEF Inv, FinalizeMake, At, Goto, connVars, accountVars, cacheVars, causes, Types,
         HandlerInv, Accounts
<1>k. job' \in [Procs -> Job]
  BY <1>a, <1>j, JobUpdate DEF Inv
<1>1. Types'
  BY <1>a, <1>k
     DEF Inv, FinalizeMake, At, Goto, connVars, accountVars, cacheVars, causes, Types,
         HandlerInv, Accounts, SetupTasks, Steps
<1>2. HandlerInv'
  BY <1>a
     DEF Inv, FinalizeMake, At, Goto, SetJob, connVars, accountVars, cacheVars, causes, Types,
         HandlerInv, Registration, FinSteps, NoJob, ListJob, NickJob, Procs, Accounts,
         WorkerIdle
<1>3. Registration'
  BY <1>a
     DEF Inv, FinalizeMake, At, Goto, SetJob, connVars, accountVars, cacheVars, causes, Types,
         Registration, HandlerInv, FinSteps, Procs, Accounts
<1>4. RosterExact'
  BY <1>a
     DEF Inv, FinalizeMake, At, Goto, SetJob, connVars, accountVars, cacheVars, causes, Types,
         RosterExact, Merged, HandlerInv, Registration, Procs, Accounts
<1>5. OwnListInv'
  BY <1>a
     DEF Inv, FinalizeMake, At, Goto, SetJob, connVars, accountVars, cacheVars, causes, Types,
         OwnListInv, HandlerInv, Registration, Procs, Accounts, NoJob, ListJob,
         NickJob, WorkerIdle
<1>6. AnonymousConnections'
  BY <1>a
     DEF Inv, FinalizeMake, At, Goto, SetJob, connVars, accountVars, cacheVars, causes, Types,
         AnonymousConnections, OwnListInv, HandlerInv, Registration, Procs, Accounts,
         WorkerIdle
<1>7. QED
  BY <1>1, <1>2, <1>3, <1>4, <1>5, <1>6 DEF Inv

\* FinalizeSync keeps the invariant.
LEMMA FinalizeSyncInv == ASSUME Inv, NEW c \in Conns, FinalizeSync(c) PROVE Inv'
<1> USE RosterAssumption
<1>a. c \in Procs
  BY DEF Procs
<1>b. acct[c] \in Accounts
  BY DEF Inv, FinalizeSync, At, HandlerInv, Types
<1>d. conns[acct[c]] \in SUBSET Conns /\ accNick[acct[c]] \in Nicks \cup {NULL}
  BY <1>b DEF Inv, Types
<1>j. (\E locals \in Job : SetJob(c, locals)) \/ UNCHANGED job
  BY <1>a, <1>b, <1>d, JobFields, JobTypes, NickType
     DEF Inv, FinalizeSync, At, Goto, connVars, accountVars, cacheVars, causes, Types,
         HandlerInv, Accounts
<1>k. job' \in [Procs -> Job]
  BY <1>a, <1>j, JobUpdate DEF Inv
<1>1. Types'
  BY <1>a, <1>b, <1>d, <1>k
     DEF Inv, FinalizeSync, At, Goto, connVars, accountVars, cacheVars, causes, Types,
         HandlerInv, Accounts, SetupTasks, Steps
<1>2. HandlerInv'
  BY <1>a, <1>b, <1>d
     DEF Inv, FinalizeSync, At, Goto, SetJob, connVars, accountVars, cacheVars, causes, Types,
         HandlerInv, Registration, FinSteps, NoJob, ListJob, NickJob, Procs, Accounts,
         WorkerIdle
<1>3. Registration'
  BY <1>a, <1>b, <1>d
     DEF Inv, FinalizeSync, At, Goto, SetJob, connVars, accountVars, cacheVars, causes, Types,
         Registration, HandlerInv, FinSteps, Procs, Accounts
<1>4. RosterExact'
  BY <1>a, <1>b, <1>d
     DEF Inv, FinalizeSync, At, Goto, SetJob, connVars, accountVars, cacheVars, causes, Types,
         RosterExact, Merged, HandlerInv, Registration, Procs, Accounts
<1>5. OwnListInv'
  BY <1>a, <1>b, <1>d
     DEF Inv, FinalizeSync, At, Goto, SetJob, connVars, accountVars, cacheVars, causes, Types,
         OwnListInv, HandlerInv, Registration, Procs, Accounts, NoJob, ListJob,
         NickJob, WorkerIdle
<1>6. AnonymousConnections'
  BY <1>a, <1>b, <1>d
     DEF Inv, FinalizeSync, At, Goto, SetJob, connVars, accountVars, cacheVars, causes, Types,
         AnonymousConnections, OwnListInv, HandlerInv, Registration, Procs, Accounts,
         WorkerIdle
<1>7. QED
  BY <1>1, <1>2, <1>3, <1>4, <1>5, <1>6 DEF Inv

\* FinalizeAdd keeps the invariant.
LEMMA FinalizeAddInv == ASSUME Inv, NEW c \in Conns, FinalizeAdd(c) PROVE Inv'
<1> USE RosterAssumption
<1>a. c \in Procs
  BY DEF Procs
<1>b. acct[c] \in Accounts
  BY DEF Inv, FinalizeAdd, At, HandlerInv, Types
<1>d. conns[acct[c]] \in SUBSET Conns /\ accNick[acct[c]] \in Nicks \cup {NULL}
  BY <1>b DEF Inv, Types
<1>f. PICK list \in SUBSET Conns :
        /\ list \in AppendOutcomes(c, conns[acct[c]], job[c].snap)
        /\ conns' = [conns EXCEPT ![acct[c]] = list]
  BY <1>a, <1>d, JobFields DEF Inv, FinalizeAdd, AppendOutcomes
<1>1. CASE acct[c] = c
  <2>p. conns[c] \subseteq {c} /\ job[c].snap = conns[c]
    BY <1>1 DEF Inv, FinalizeAdd, At, OwnListInv, AnonymousConnections
  <2>q. list = {c}
    BY <1>1, <1>f, <2>p DEF AppendOutcomes
  <2>e. /\ conns[c] \subseteq {c} /\ conns' = [conns EXCEPT ![c] = {c}]
        /\ Goto(c, "fin_cache") /\ pc[c] = "fin_add"
        /\ SetJob(c, NickJob(NULL, NULL, accNick[c], FALSE))
        /\ accNick[c] \in Nicks \cup {NULL}
        /\ UNCHANGED <<phase, tasks, mNick, acct, loggedIn, ready, accNick, roster, ircNicks, crashed>>
        /\ raced' \in SUBSET Accounts /\ UNCHANGED contested
    BY <1>a, <1>b, <1>d, <1>f, <1>1, <2>p, <2>q
       DEF Inv, FinalizeAdd, At, Goto, AppendOutcomes, connVars, accountVars,
           cacheVars, causes, Types, HandlerInv, Registration, OwnListInv,
           AnonymousConnections, Accounts, WorkerIdle
  <2>k. job' \in [Procs -> Job]
    BY <1>a, <2>e, JobUpdate, JobTypes, JobFields, NickType DEF Inv, SetJob
  <2>1. Types'
    BY <1>a, <1>b, <1>d, <1>f, <1>1, <2>e, <2>k DEF Inv, Goto, Types, causes, Accounts, Steps
  <2>2. HandlerInv'
    BY <1>a, <1>b, <1>d, <1>f, <1>1, <2>e
       DEF Inv, SetJob, Goto, Types, HandlerInv, Registration, FinSteps, NoJob,
           ListJob, NickJob, Procs, Accounts, WorkerIdle
  <2>3. Registration'
    BY <1>a, <1>b, <1>d, <1>f, <1>1, <2>e
       DEF Inv, SetJob, Goto, Types, Registration, HandlerInv, FinSteps, Procs,
           Accounts
  <2>4. RosterExact'
    BY <1>a, <1>b, <1>d, <1>f, <1>1, <2>e
       DEF Inv, SetJob, Goto, Types, RosterExact, Merged, HandlerInv, Registration,
           Procs, Accounts
  <2>5. OwnListInv'
    BY <1>a, <1>b, <1>d, <1>f, <1>1, <2>e
       DEF Inv, SetJob, Goto, Types, OwnListInv, HandlerInv, Registration, Procs,
           Accounts, NoJob, ListJob, NickJob, WorkerIdle
  <2>6. AnonymousConnections'
    BY <1>a, <1>b, <1>d, <1>f, <1>1, <2>e
       DEF Inv, SetJob, Goto, Types, AnonymousConnections, OwnListInv, HandlerInv,
           Registration, Procs, Accounts, WorkerIdle
  <2>7. QED
    BY <2>1, <2>2, <2>3, <2>4, <2>5, <2>6 DEF Inv
<1>2. CASE acct[c] # c
  <2>e. /\ list \in SUBSET Conns /\ conns' = [conns EXCEPT ![acct[c]] = list]
        /\ acct[c] \in Named
        /\ Goto(c, "fin_cache") /\ pc[c] = "fin_add"
        /\ SetJob(c, NickJob(NULL, NULL, accNick[acct[c]], FALSE))
        /\ accNick[acct[c]] \in Nicks \cup {NULL}
        /\ UNCHANGED <<phase, tasks, mNick, acct, loggedIn, ready, accNick, roster, ircNicks, crashed>>
    BY <1>a, <1>b, <1>d, <1>f, <1>2, JobFields
       DEF Inv, FinalizeAdd, At, Goto, AppendOutcomes, connVars, accountVars,
           cacheVars, causes, Types, HandlerInv, Registration, OwnListInv,
           AnonymousConnections, Accounts, WorkerIdle
  <2>k. job' \in [Procs -> Job]
    BY <1>a, <2>e, JobUpdate, JobTypes, JobFields, NickType DEF Inv, SetJob
  <2>1. Types'
    <3>1. raced' \in SUBSET Accounts /\ UNCHANGED contested
      BY <1>b DEF Inv, Types, FinalizeAdd
    <3>2. QED
      BY <1>a, <1>b, <1>d, <1>f, <1>2, <2>e, <2>k, <3>1
         DEF Inv, Goto, Types, causes, Accounts, Steps
  <2>2. HandlerInv'
    BY <1>a, <1>b, <1>d, <1>f, <1>2, <2>e
       DEF Inv, SetJob, Goto, Types, HandlerInv, Registration, FinSteps, NoJob,
           ListJob, NickJob, Procs, Accounts, WorkerIdle
  <2>3. Registration'
    BY <1>a, <1>b, <1>d, <1>f, <1>2, <2>e
       DEF Inv, SetJob, Goto, Types, Registration, HandlerInv, FinSteps, Procs,
           Accounts
  <2>4. RosterExact'
    BY <1>a, <1>b, <1>d, <1>f, <1>2, <2>e
       DEF Inv, SetJob, Goto, Types, RosterExact, Merged, HandlerInv, Registration,
           Procs, Accounts
  <2>5. OwnListInv'
    BY <1>a, <1>b, <1>d, <1>f, <1>2, <2>e
       DEF Inv, SetJob, Goto, Types, OwnListInv, HandlerInv, Registration, Procs,
           Accounts, NoJob, ListJob, NickJob, WorkerIdle
  <2>6. AnonymousConnections'
    BY <1>a, <1>b, <1>d, <1>f, <1>2, <2>e
       DEF Inv, SetJob, Goto, Types, AnonymousConnections, OwnListInv, HandlerInv,
           Registration, Procs, Accounts, WorkerIdle
  <2>7. QED
    BY <2>1, <2>2, <2>3, <2>4, <2>5, <2>6 DEF Inv
<1>3. QED
  BY <1>1, <1>2

\* FinalizeCache keeps the invariant.
LEMMA FinalizeCacheInv == ASSUME Inv, NEW c \in Conns, FinalizeCache(c) PROVE Inv'
<1> USE RosterAssumption
<1>a. c \in Procs
  BY DEF Procs
<1>j. (\E locals \in Job : SetJob(c, locals)) \/ UNCHANGED job
  BY <1>a, JobFields, JobTypes, NickType
     DEF Inv, FinalizeCache, At, Goto, Return, connVars, accountVars, cacheVars, causes,
         Types, HandlerInv, Accounts
<1>k. job' \in [Procs -> Job]
  BY <1>a, <1>j, JobUpdate DEF Inv
<1>1. Types'
  BY <1>a, <1>k, ContestType
     DEF Inv, FinalizeCache, At, Goto, Return, connVars, accountVars, cacheVars, causes,
         Types, HandlerInv, Accounts, SetupTasks, Steps
<1>2. HandlerInv'
  BY <1>a
     DEF Inv, FinalizeCache, At, Goto, Return, SetJob, connVars, accountVars,
         cacheVars, causes, Types, HandlerInv, Registration, FinSteps, NoJob, ListJob,
         NickJob, Procs, Accounts, WorkerIdle
<1>3. Registration'
  BY <1>a
     DEF Inv, FinalizeCache, At, Goto, Return, SetJob, connVars, accountVars,
         cacheVars, causes, Types, Registration, HandlerInv, FinSteps, Procs, Accounts
<1>4. RosterExact'
  BY <1>a
     DEF Inv, FinalizeCache, At, Goto, Return, SetJob, connVars, accountVars,
         cacheVars, causes, Types, RosterExact, Merged, HandlerInv, Registration, Procs,
         Accounts
<1>5. OwnListInv'
  BY <1>a
     DEF Inv, FinalizeCache, At, Goto, Return, SetJob, connVars, accountVars,
         cacheVars, causes, Types, OwnListInv, HandlerInv, Registration, Procs, Accounts,
         NoJob, ListJob, NickJob, WorkerIdle
<1>6. AnonymousConnections'
  BY <1>a
     DEF Inv, FinalizeCache, At, Goto, Return, SetJob, connVars, accountVars,
         cacheVars, causes, Types, AnonymousConnections, OwnListInv, HandlerInv, Registration,
         Procs, Accounts, WorkerIdle
<1>7. QED
  BY <1>1, <1>2, <1>3, <1>4, <1>5, <1>6 DEF Inv

\* Authenticate keeps the invariant.
LEMMA AuthenticateInv == ASSUME Inv, NEW c \in Conns, NEW a \in Named, Authenticate(c, a) PROVE Inv'
<1> USE RosterAssumption
<1>a. c \in Procs
  BY DEF Procs
<1>1. CASE acct[c] = NULL
  <2>j. (\E locals \in Job : SetJob(c, locals)) \/ UNCHANGED job
    BY <1>a, <1>1, JobFields, JobTypes, NickType
       DEF Inv, Authenticate, MayHandle, Goto, connVars, accountVars, cacheVars, causes,
           Types, HandlerInv, Accounts
  <2>k. job' \in [Procs -> Job]
    BY <1>a, <2>j, JobUpdate DEF Inv
  <2>1. Types'
    BY <1>a, <1>1, <2>k
       DEF Inv, Authenticate, MayHandle, Goto, connVars, accountVars, cacheVars, causes,
           Types, HandlerInv, Accounts, SetupTasks, Steps
  <2>2. HandlerInv'
    BY <1>a, <1>1
       DEF Inv, Authenticate, MayHandle, Goto, SetJob, connVars, accountVars,
           cacheVars, causes, Types, HandlerInv, Registration, FinSteps, NoJob, ListJob,
           NickJob, Procs, Accounts, WorkerIdle
  <2>3. Registration'
    BY <1>a, <1>1
       DEF Inv, Authenticate, MayHandle, Goto, SetJob, connVars, accountVars,
           cacheVars, causes, Types, Registration, HandlerInv, FinSteps, Procs, Accounts
  <2>4. RosterExact'
    BY <1>a, <1>1
       DEF Inv, Authenticate, MayHandle, Goto, SetJob, connVars, accountVars,
           cacheVars, causes, Types, RosterExact, Merged, HandlerInv, Registration, Procs,
           Accounts
  <2>5. OwnListInv'
    BY <1>a, <1>1
       DEF Inv, Authenticate, MayHandle, Goto, SetJob, connVars, accountVars,
           cacheVars, causes, Types, OwnListInv, HandlerInv, Registration, Procs, Accounts,
           NoJob, ListJob, NickJob, WorkerIdle
  <2>6. AnonymousConnections'
    BY <1>a, <1>1
       DEF Inv, Authenticate, MayHandle, Goto, SetJob, connVars, accountVars,
           cacheVars, causes, Types, AnonymousConnections, OwnListInv, HandlerInv,
           Registration, Procs, Accounts, WorkerIdle
  <2>7. QED
    BY <2>1, <2>2, <2>3, <2>4, <2>5, <2>6 DEF Inv
<1>2. CASE acct[c] # NULL
  <2>e. /\ loggedIn' = [loggedIn EXCEPT ![c] = TRUE]
        /\ Goto(c, "merge") /\ pc[c] = "idle" /\ phase[c] \in {"open", "closing"}
        /\ SetJob(c, NickJob(a, NULL, NULL, FALSE)) /\ a \in Accounts
        /\ UNCHANGED <<phase, tasks, mNick, acct, ready, accNick, conns, roster, ircNicks, crashed, causes>>
    BY <1>a, <1>2
       DEF Inv, Authenticate, MayHandle, Goto, connVars, accountVars, cacheVars, causes,
           Types, HandlerInv, Registration, OwnListInv, AnonymousConnections,
           Accounts, WorkerIdle
  <2>k. job' \in [Procs -> Job]
    BY <1>a, <2>e, JobUpdate, JobTypes, JobFields, NickType DEF Inv, SetJob
  <2>1. Types'
    BY <1>a, <1>2, <2>e, <2>k DEF Inv, Goto, Types, causes, Accounts, Steps
  <2>2. HandlerInv'
    BY <1>a, <1>2, <2>e
       DEF Inv, SetJob, Goto, Types, HandlerInv, Registration, FinSteps, NoJob,
           ListJob, NickJob, Procs, Accounts, WorkerIdle
  <2>3. Registration'
    BY <1>a, <1>2, <2>e
       DEF Inv, SetJob, Goto, Types, Registration, HandlerInv, FinSteps, Procs,
           Accounts
  <2>4. RosterExact'
    BY <1>a, <1>2, <2>e
       DEF Inv, SetJob, Goto, Types, RosterExact, Merged, HandlerInv, Registration,
           Procs, Accounts
  <2>5. OwnListInv'
    BY <1>a, <1>2, <2>e
       DEF Inv, SetJob, Goto, Types, OwnListInv, HandlerInv, Registration, Procs,
           Accounts, NoJob, ListJob, NickJob, WorkerIdle
  <2>6. AnonymousConnections'
    BY <1>a, <1>2, <2>e
       DEF Inv, SetJob, Goto, Types, AnonymousConnections, OwnListInv, HandlerInv,
           Registration, Procs, Accounts, WorkerIdle
  <2>7. QED
    BY <2>1, <2>2, <2>3, <2>4, <2>5, <2>6 DEF Inv
<1>3. QED
  BY <1>1, <1>2

\* AuthenticateFails keeps the invariant.
LEMMA AuthenticateFailsInv == ASSUME Inv, NEW c \in Conns, AuthenticateFails(c) PROVE Inv'
<1> USE RosterAssumption
<1>a. c \in Procs
  BY DEF Procs
<1>j. (\E locals \in Job : SetJob(c, locals)) \/ UNCHANGED job
  BY <1>a, JobFields, JobTypes, NickType
     DEF Inv, AuthenticateFails, MayHandle, ForceDisconnect, connVars, accountVars,
         cacheVars, causes, Types, HandlerInv, Accounts
<1>k. job' \in [Procs -> Job]
  BY <1>a, <1>j, JobUpdate DEF Inv
<1>1. Types'
  BY <1>a, <1>k
     DEF Inv, AuthenticateFails, MayHandle, ForceDisconnect, connVars, accountVars,
         cacheVars, causes, Types, HandlerInv, Accounts, SetupTasks, Steps
<1>2. HandlerInv'
  BY <1>a
     DEF Inv, AuthenticateFails, MayHandle, ForceDisconnect, SetJob, connVars,
         accountVars, cacheVars, causes, Types, HandlerInv, Registration, FinSteps, NoJob,
         ListJob, NickJob, Procs, Accounts, WorkerIdle
<1>3. Registration'
  BY <1>a
     DEF Inv, AuthenticateFails, MayHandle, ForceDisconnect, SetJob, connVars,
         accountVars, cacheVars, causes, Types, Registration, HandlerInv, FinSteps, Procs,
         Accounts
<1>4. RosterExact'
  BY <1>a
     DEF Inv, AuthenticateFails, MayHandle, ForceDisconnect, SetJob, connVars,
         accountVars, cacheVars, causes, Types, RosterExact, Merged, HandlerInv, Registration,
         Procs, Accounts
<1>5. OwnListInv'
  BY <1>a
     DEF Inv, AuthenticateFails, MayHandle, ForceDisconnect, SetJob, connVars,
         accountVars, cacheVars, causes, Types, OwnListInv, HandlerInv, Registration, Procs,
         Accounts, NoJob, ListJob, NickJob, WorkerIdle
<1>6. AnonymousConnections'
  BY <1>a
     DEF Inv, AuthenticateFails, MayHandle, ForceDisconnect, SetJob, connVars,
         accountVars, cacheVars, causes, Types, AnonymousConnections, OwnListInv, HandlerInv,
         Registration, Procs, Accounts, WorkerIdle
<1>7. QED
  BY <1>1, <1>2, <1>3, <1>4, <1>5, <1>6 DEF Inv

\* Merge keeps the invariant.
LEMMA MergeInv == ASSUME Inv, NEW c \in Conns, Merge(c) PROVE Inv'
<1> USE RosterAssumption
<1>a. c \in Procs
  BY DEF Procs
<1>1. CASE acct[c] \in Named
  <2>j. (\E locals \in Job : SetJob(c, locals)) \/ UNCHANGED job
    BY <1>a, <1>1, JobFields, JobTypes, NickType
       DEF Inv, Merge, At, Goto, Return, IsLoggedIn, connVars, accountVars, cacheVars, causes,
           Types, HandlerInv, Accounts
  <2>k. job' \in [Procs -> Job]
    BY <1>a, <2>j, JobUpdate DEF Inv
  <2>p. pc' = [pc EXCEPT ![c] = "idle"] /\ UNCHANGED <<connVars, accountVars, cacheVars, crashed, causes>>
    BY <1>1 DEF Merge, At, Goto, Return, IsLoggedIn, accountVars
  <2>q. pc' \in [Procs -> Steps]
    BY <1>a, <2>p DEF Inv, Types, Steps
  <2>1. Types'
    BY <2>k, <2>p, <2>q DEF Inv, Types, connVars, accountVars, cacheVars, causes
  <2>2. HandlerInv'
    BY <1>a, <1>1
       DEF Inv, Merge, At, Goto, Return, IsLoggedIn, SetJob, connVars, accountVars,
           cacheVars, causes, Types, HandlerInv, Registration, FinSteps, NoJob, ListJob,
           NickJob, Procs, Accounts, WorkerIdle
  <2>3. Registration'
    BY <1>a, <1>1
       DEF Inv, Merge, At, Goto, Return, IsLoggedIn, SetJob, connVars, accountVars,
           cacheVars, causes, Types, Registration, HandlerInv, FinSteps, Procs, Accounts
  <2>4. RosterExact'
    BY <1>a, <1>1
       DEF Inv, Merge, At, Goto, Return, IsLoggedIn, SetJob, connVars, accountVars,
           cacheVars, causes, Types, RosterExact, Merged, HandlerInv, Registration, Procs,
           Accounts
  <2>5. OwnListInv'
    BY <1>a, <1>1
       DEF Inv, Merge, At, Goto, Return, IsLoggedIn, SetJob, connVars, accountVars,
           cacheVars, causes, Types, OwnListInv, HandlerInv, Registration, Procs, Accounts,
           NoJob, ListJob, NickJob, WorkerIdle
  <2>6. AnonymousConnections'
    BY <1>a, <1>1
       DEF Inv, Merge, At, Goto, Return, IsLoggedIn, SetJob, connVars, accountVars,
           cacheVars, causes, Types, AnonymousConnections, OwnListInv, HandlerInv,
           Registration, Procs, Accounts, WorkerIdle
  <2>7. QED
    BY <2>1, <2>2, <2>3, <2>4, <2>5, <2>6 DEF Inv
<1>2. CASE acct[c] \notin Named
  <2>e. /\ acct[c] = c /\ loggedIn[c] /\ job[c].acct \in Named
        /\ conns' = [conns EXCEPT ![job[c].acct] = conns[job[c].acct] \cup conns[c], ![c] = {}]
        /\ Goto(c, "merge_drop") /\ pc[c] = "merge"
        /\ UNCHANGED <<phase, tasks, mNick, acct, loggedIn, ready, accNick, roster, ircNicks, job, crashed, causes>>
    BY <1>a, <1>2
       DEF Inv, Merge, At, Goto, Return, IsLoggedIn, connVars, accountVars, cacheVars, causes,
           Types, HandlerInv, Registration, OwnListInv, AnonymousConnections,
           Accounts, WorkerIdle
  <2>k. job' \in [Procs -> Job]
    BY <1>a, <2>e, JobUpdate, JobTypes, JobFields, NickType DEF Inv, SetJob
  <2>1. Types'
    BY <1>a, <1>2, <2>e, <2>k DEF Inv, Goto, Types, causes, Accounts, Steps
  <2>2. HandlerInv'
    BY <1>a, <1>2, <2>e
       DEF Inv, SetJob, Goto, Types, HandlerInv, Registration, FinSteps, NoJob,
           ListJob, NickJob, Procs, Accounts, WorkerIdle
  <2>3. Registration'
    BY <1>a, <1>2, <2>e
       DEF Inv, SetJob, Goto, Types, Registration, HandlerInv, FinSteps, Procs,
           Accounts
  <2>4. RosterExact'
    BY <1>a, <1>2, <2>e
       DEF Inv, SetJob, Goto, Types, RosterExact, Merged, HandlerInv, Registration,
           Procs, Accounts
  <2>5. OwnListInv'
    BY <1>a, <1>2, <2>e
       DEF Inv, SetJob, Goto, Types, OwnListInv, HandlerInv, Registration, Procs,
           Accounts, NoJob, ListJob, NickJob, WorkerIdle
  <2>6. AnonymousConnections'
    BY <1>a, <1>2, <2>e
       DEF Inv, SetJob, Goto, Types, AnonymousConnections, OwnListInv, HandlerInv,
           Registration, Procs, Accounts, WorkerIdle
  <2>7. QED
    BY <2>1, <2>2, <2>3, <2>4, <2>5, <2>6 DEF Inv
<1>3. QED
  BY <1>1, <1>2

\* MergeDrop keeps the invariant.
LEMMA MergeDropInv == ASSUME Inv, NEW c \in Conns, MergeDrop(c) PROVE Inv'
<1> USE RosterAssumption
<1>a. c \in Procs
  BY DEF Procs
<1>j. (\E locals \in Job : SetJob(c, locals)) \/ UNCHANGED job
  BY <1>a, JobFields, JobTypes, NickType
     DEF Inv, MergeDrop, At, Goto, Return, AccountRemoveCache, connVars, accountVars,
         cacheVars, causes, Types, HandlerInv, Accounts
<1>k. job' \in [Procs -> Job]
  BY <1>a, <1>j, JobUpdate DEF Inv
<1>1. Types'
  BY <1>a, <1>k
     DEF Inv, MergeDrop, At, Goto, Return, AccountRemoveCache, connVars, accountVars,
         cacheVars, causes, Types, HandlerInv, Accounts, SetupTasks, Steps
<1>2. HandlerInv'
  BY <1>a
     DEF Inv, MergeDrop, At, Goto, Return, AccountRemoveCache, SetJob, connVars,
         accountVars, cacheVars, causes, Types, HandlerInv, Registration, FinSteps, NoJob,
         ListJob, NickJob, Procs, Accounts, WorkerIdle
<1>3. Registration'
  BY <1>a
     DEF Inv, MergeDrop, At, Goto, Return, AccountRemoveCache, SetJob, connVars,
         accountVars, cacheVars, causes, Types, Registration, HandlerInv, FinSteps, Procs,
         Accounts
<1>4. RosterExact'
  BY <1>a
     DEF Inv, MergeDrop, At, Goto, Return, AccountRemoveCache, SetJob, connVars,
         accountVars, cacheVars, causes, Types, RosterExact, Merged, HandlerInv, Registration,
         Procs, Accounts
<1>5. OwnListInv'
  BY <1>a
     DEF Inv, MergeDrop, At, Goto, Return, AccountRemoveCache, SetJob, connVars,
         accountVars, cacheVars, causes, Types, OwnListInv, HandlerInv, Registration, Procs,
         Accounts, NoJob, ListJob, NickJob, WorkerIdle
<1>6. AnonymousConnections'
  BY <1>a
     DEF Inv, MergeDrop, At, Goto, Return, AccountRemoveCache, SetJob, connVars,
         accountVars, cacheVars, causes, Types, AnonymousConnections, OwnListInv, HandlerInv,
         Registration, Procs, Accounts, WorkerIdle
<1>7. QED
  BY <1>1, <1>2, <1>3, <1>4, <1>5, <1>6 DEF Inv

\* A QUIT whose disconnect comes later keeps the invariant.
LEMMA QuitLaterInv ==
    ASSUME Inv, NEW c \in Conns, MayHandle(c), ForceDisconnect(c),
           UNCHANGED <<tasks, mNick, acct, loggedIn, ready, accountVars, cacheVars, pc, job, crashed, causes>>
    PROVE  Inv'
<1> USE RosterAssumption
<1>a. c \in Procs
  BY DEF Procs
<1>j. (\E locals \in Job : SetJob(c, locals)) \/ UNCHANGED job
  BY <1>a, JobFields, JobTypes, NickType
     DEF Inv, MayHandle, ForceDisconnect, connVars, accountVars, cacheVars, causes,
         Types, HandlerInv, Accounts
<1>k. job' \in [Procs -> Job]
  BY <1>a, <1>j, JobUpdate DEF Inv
<1>1. Types'
  BY <1>a, <1>k
     DEF Inv, MayHandle, ForceDisconnect, connVars, accountVars, cacheVars, causes,
         Types, HandlerInv, Accounts, SetupTasks, Steps
<1>2. HandlerInv'
  BY <1>a
     DEF Inv, MayHandle, ForceDisconnect, SetJob, connVars, accountVars,
         cacheVars, causes, Types, HandlerInv, Registration, FinSteps, NoJob, ListJob,
         NickJob, Procs, Accounts, WorkerIdle
<1>3. Registration'
  BY <1>a
     DEF Inv, MayHandle, ForceDisconnect, SetJob, connVars, accountVars,
         cacheVars, causes, Types, Registration, HandlerInv, FinSteps, Procs, Accounts
<1>4. RosterExact'
  BY <1>a
     DEF Inv, MayHandle, ForceDisconnect, SetJob, connVars, accountVars,
         cacheVars, causes, Types, RosterExact, Merged, HandlerInv, Registration, Procs,
         Accounts
<1>5. OwnListInv'
  BY <1>a
     DEF Inv, MayHandle, ForceDisconnect, SetJob, connVars, accountVars,
         cacheVars, causes, Types, OwnListInv, HandlerInv, Registration, Procs, Accounts,
         NoJob, ListJob, NickJob, WorkerIdle
<1>6. AnonymousConnections'
  BY <1>a
     DEF Inv, MayHandle, ForceDisconnect, SetJob, connVars, accountVars,
         cacheVars, causes, Types, AnonymousConnections, OwnListInv, HandlerInv, Registration,
         Procs, Accounts, WorkerIdle
<1>7. QED
  BY <1>1, <1>2, <1>3, <1>4, <1>5, <1>6 DEF Inv

\* Disconnect keeps the invariant.
LEMMA DisconnectInv == ASSUME Inv, NEW c \in Conns, Disconnect(c) PROVE Inv'
<1> USE RosterAssumption
<1>a. c \in Procs
  BY DEF Procs
<1>1. CASE acct[c] = NULL
  <2>j. (\E locals \in Job : SetJob(c, locals)) \/ UNCHANGED job
    BY <1>a, <1>1, JobFields, JobTypes, NickType
       DEF Inv, Disconnect, MayHandle, Goto, WithoutConnection, IsLoggedIn, connVars,
           accountVars, cacheVars, causes, Types, HandlerInv, Accounts
  <2>k. job' \in [Procs -> Job]
    BY <1>a, <2>j, JobUpdate DEF Inv
  <2>1. Types'
    BY <1>a, <1>1, <2>k
       DEF Inv, Disconnect, MayHandle, Goto, WithoutConnection, IsLoggedIn, connVars,
           accountVars, cacheVars, causes, Types, HandlerInv, Accounts, SetupTasks, Steps
  <2>2. HandlerInv'
    BY <1>a, <1>1
       DEF Inv, Disconnect, MayHandle, Goto, WithoutConnection, IsLoggedIn, SetJob,
           connVars, accountVars, cacheVars, causes, Types, HandlerInv, Registration,
           FinSteps, NoJob, ListJob, NickJob, Procs, Accounts, WorkerIdle
  <2>3. Registration'
    BY <1>a, <1>1
       DEF Inv, Disconnect, MayHandle, Goto, WithoutConnection, IsLoggedIn, SetJob,
           connVars, accountVars, cacheVars, causes, Types, Registration, HandlerInv,
           FinSteps, Procs, Accounts
  <2>4. RosterExact'
    BY <1>a, <1>1
       DEF Inv, Disconnect, MayHandle, Goto, WithoutConnection, IsLoggedIn, SetJob,
           connVars, accountVars, cacheVars, causes, Types, RosterExact, Merged, HandlerInv,
           Registration, Procs, Accounts
  <2>5. OwnListInv'
    BY <1>a, <1>1
       DEF Inv, Disconnect, MayHandle, Goto, WithoutConnection, IsLoggedIn, SetJob,
           connVars, accountVars, cacheVars, causes, Types, OwnListInv, HandlerInv,
           Registration, Procs, Accounts, NoJob, ListJob, NickJob, WorkerIdle
  <2>6. AnonymousConnections'
    BY <1>a, <1>1
       DEF Inv, Disconnect, MayHandle, Goto, WithoutConnection, IsLoggedIn, SetJob,
           connVars, accountVars, cacheVars, causes, Types, AnonymousConnections, OwnListInv,
           HandlerInv, Registration, Procs, Accounts, WorkerIdle
  <2>7. QED
    BY <2>1, <2>2, <2>3, <2>4, <2>5, <2>6 DEF Inv
<1>2. CASE acct[c] \in Named
  <2>j. (\E locals \in Job : SetJob(c, locals)) \/ UNCHANGED job
    BY <1>a, <1>2, JobFields, JobTypes, NickType
       DEF Inv, Disconnect, MayHandle, Goto, WithoutConnection, IsLoggedIn, connVars,
           accountVars, cacheVars, causes, Types, HandlerInv, Accounts
  <2>k. job' \in [Procs -> Job]
    BY <1>a, <2>j, JobUpdate DEF Inv
  <2>1. Types'
    <3>1. /\ conns' \in [Accounts -> SUBSET Conns]
          /\ phase' \in [Conns -> {"new", "open", "closing", "gone"}]
          /\ UNCHANGED pc
      BY <1>2
         DEF Inv, Disconnect, MayHandle, WithoutConnection, IsLoggedIn, Types, Accounts
    <3>2. QED
      BY <1>2, <2>k, <3>1
         DEF Inv, Disconnect, connVars, accountVars, cacheVars, causes, Types
  <2>2. HandlerInv'
    BY <1>a, <1>2
       DEF Inv, Disconnect, MayHandle, Goto, WithoutConnection, IsLoggedIn, SetJob,
           connVars, accountVars, cacheVars, causes, Types, HandlerInv, Registration,
           FinSteps, NoJob, ListJob, NickJob, Procs, Accounts, WorkerIdle
  <2>3. Registration'
    BY <1>a, <1>2
       DEF Inv, Disconnect, MayHandle, Goto, WithoutConnection, IsLoggedIn, SetJob,
           connVars, accountVars, cacheVars, causes, Types, Registration, HandlerInv,
           FinSteps, Procs, Accounts
  <2>4. RosterExact'
    BY <1>a, <1>2
       DEF Inv, Disconnect, MayHandle, Goto, WithoutConnection, IsLoggedIn, SetJob,
           connVars, accountVars, cacheVars, causes, Types, RosterExact, Merged, HandlerInv,
           Registration, Procs, Accounts
  <2>5. OwnListInv'
    BY <1>a, <1>2
       DEF Inv, Disconnect, MayHandle, Goto, WithoutConnection, IsLoggedIn, SetJob,
           connVars, accountVars, cacheVars, causes, Types, OwnListInv, HandlerInv,
           Registration, Procs, Accounts, NoJob, ListJob, NickJob, WorkerIdle
  <2>6. AnonymousConnections'
    BY <1>a, <1>2
       DEF Inv, Disconnect, MayHandle, Goto, WithoutConnection, IsLoggedIn, SetJob,
           connVars, accountVars, cacheVars, causes, Types, AnonymousConnections, OwnListInv,
           HandlerInv, Registration, Procs, Accounts, WorkerIdle
  <2>7. QED
    BY <2>1, <2>2, <2>3, <2>4, <2>5, <2>6 DEF Inv
<1>3. CASE acct[c] # NULL /\ acct[c] \notin Named
  <2>p. acct[c] = c
    BY <1>3 DEF Inv, Types, Accounts, Registration
  <2>q. conns[c] \subseteq {c} /\ conns[c] \ {c} = {}
    BY DEF Inv, AnonymousConnections
  <2>e. /\ acct[c] = c /\ pc[c] = "idle" /\ phase[c] \in {"open", "closing"}
        /\ conns[c] \subseteq {c} /\ conns' = [conns EXCEPT ![c] = {}]
        /\ Goto(c, "dis_nick")
        /\ SetJob(c, NickJob(NULL, Nick(c), NULL, FALSE))
        /\ UNCHANGED <<phase, tasks, mNick, acct, loggedIn, ready, accNick, roster, ircNicks, crashed, causes>>
    BY <1>a, <1>3, <2>p, <2>q
       DEF Inv, Disconnect, MayHandle, Goto, WithoutConnection, IsLoggedIn, connVars,
           accountVars, cacheVars, causes, Types, HandlerInv, Registration, OwnListInv,
           AnonymousConnections, Accounts, WorkerIdle
  <2>k. job' \in [Procs -> Job]
    BY <1>a, <2>e, JobUpdate, JobTypes, JobFields, NickType DEF Inv, SetJob
  <2>1. Types'
    BY <1>a, <1>3, <2>e, <2>k DEF Inv, Goto, Types, causes, Accounts, Steps
  <2>2. HandlerInv'
    BY <1>a, <1>3, <2>e
       DEF Inv, SetJob, Goto, Types, HandlerInv, Registration, FinSteps, NoJob,
           ListJob, NickJob, Procs, Accounts, WorkerIdle
  <2>3. Registration'
    BY <1>a, <1>3, <2>e
       DEF Inv, SetJob, Goto, Types, Registration, HandlerInv, FinSteps, Procs,
           Accounts
  <2>4. RosterExact'
    BY <1>a, <1>3, <2>e
       DEF Inv, SetJob, Goto, Types, RosterExact, Merged, HandlerInv, Registration,
           Procs, Accounts
  <2>5. OwnListInv'
    BY <1>a, <1>3, <2>e
       DEF Inv, SetJob, Goto, Types, OwnListInv, HandlerInv, Registration, Procs,
           Accounts, NoJob, ListJob, NickJob, WorkerIdle
  <2>6. AnonymousConnections'
    BY <1>a, <1>3, <2>e
       DEF Inv, SetJob, Goto, Types, AnonymousConnections, OwnListInv, HandlerInv,
           Registration, Procs, Accounts, WorkerIdle
  <2>7. QED
    BY <2>1, <2>2, <2>3, <2>4, <2>5, <2>6 DEF Inv
<1>4. QED
  BY <1>1, <1>2, <1>3

\* HandleQuit keeps the invariant.
LEMMA HandleQuitInv == ASSUME Inv, NEW c \in Conns, HandleQuit(c) PROVE Inv'
<1>1. CASE Disconnect(c)
  BY <1>1, DisconnectInv
<1>2. CASE crashed' = TRUE /\ UNCHANGED <<connVars, accountVars, cacheVars, pc, job, causes>>
  BY <1>2
     DEF connVars, accountVars, cacheVars, causes, Inv, Types, HandlerInv, Registration,
         RosterExact, OwnListInv, AnonymousConnections, Merged
<1>3. QED
  BY <1>1, <1>2, QuitLaterInv DEF HandleQuit

\* DisconnectNick keeps the invariant.
LEMMA DisconnectNickInv == ASSUME Inv, NEW c \in Conns, DisconnectNick(c) PROVE Inv'
<1> USE RosterAssumption
<1>a. c \in Procs
  BY DEF Procs
<1>j. (\E locals \in Job : SetJob(c, locals)) \/ UNCHANGED job
  BY <1>a, JobFields, JobTypes, NickType
     DEF Inv, DisconnectNick, At, Goto, connVars, accountVars, cacheVars, causes, Types,
         HandlerInv, Accounts
<1>k. job' \in [Procs -> Job]
  BY <1>a, <1>j, JobUpdate DEF Inv
<1>1. Types'
  BY <1>a, <1>k, ContestType
     DEF Inv, DisconnectNick, At, Goto, connVars, accountVars, cacheVars, causes, Types,
         HandlerInv, Accounts, SetupTasks, Steps
<1>2. HandlerInv'
  BY <1>a
     DEF Inv, DisconnectNick, At, Goto, SetJob, connVars, accountVars, cacheVars, causes,
         Types, HandlerInv, Registration, FinSteps, NoJob, ListJob, NickJob, Procs,
         Accounts, WorkerIdle
<1>3. Registration'
  BY <1>a
     DEF Inv, DisconnectNick, At, Goto, SetJob, connVars, accountVars, cacheVars, causes,
         Types, Registration, HandlerInv, FinSteps, Procs, Accounts
<1>4. RosterExact'
  BY <1>a
     DEF Inv, DisconnectNick, At, Goto, SetJob, connVars, accountVars, cacheVars, causes,
         Types, RosterExact, Merged, HandlerInv, Registration, Procs, Accounts
<1>5. OwnListInv'
  BY <1>a
     DEF Inv, DisconnectNick, At, Goto, SetJob, connVars, accountVars, cacheVars, causes,
         Types, OwnListInv, HandlerInv, Registration, Procs, Accounts, NoJob, ListJob,
         NickJob, WorkerIdle
<1>6. AnonymousConnections'
  BY <1>a
     DEF Inv, DisconnectNick, At, Goto, SetJob, connVars, accountVars, cacheVars, causes,
         Types, AnonymousConnections, OwnListInv, HandlerInv, Registration, Procs,
         Accounts, WorkerIdle
<1>7. QED
  BY <1>1, <1>2, <1>3, <1>4, <1>5, <1>6 DEF Inv

\* DisconnectDrop keeps the invariant.
LEMMA DisconnectDropInv == ASSUME Inv, NEW c \in Conns, DisconnectDrop(c) PROVE Inv'
<1> USE RosterAssumption
<1>a. c \in Procs
  BY DEF Procs
<1>j. (\E locals \in Job : SetJob(c, locals)) \/ UNCHANGED job
  BY <1>a, JobFields, JobTypes, NickType
     DEF Inv, DisconnectDrop, At, Goto, Return, AccountRemoveCache, connVars,
         accountVars, cacheVars, causes, Types, HandlerInv, Accounts
<1>k. job' \in [Procs -> Job]
  BY <1>a, <1>j, JobUpdate DEF Inv
<1>1. Types'
  BY <1>a, <1>k, ContestType
     DEF Inv, DisconnectDrop, At, Goto, Return, AccountRemoveCache, connVars,
         accountVars, cacheVars, causes, Types, HandlerInv, Accounts, SetupTasks, Steps
<1>2. HandlerInv'
  BY <1>a
     DEF Inv, DisconnectDrop, At, Goto, Return, AccountRemoveCache, SetJob, connVars,
         accountVars, cacheVars, causes, Types, HandlerInv, Registration, FinSteps, NoJob,
         ListJob, NickJob, Procs, Accounts, WorkerIdle
<1>3. Registration'
  BY <1>a
     DEF Inv, DisconnectDrop, At, Goto, Return, AccountRemoveCache, SetJob, connVars,
         accountVars, cacheVars, causes, Types, Registration, HandlerInv, FinSteps, Procs,
         Accounts
<1>4. RosterExact'
  BY <1>a
     DEF Inv, DisconnectDrop, At, Goto, Return, AccountRemoveCache, SetJob, connVars,
         accountVars, cacheVars, causes, Types, RosterExact, Merged, HandlerInv, Registration,
         Procs, Accounts
<1>5. OwnListInv'
  BY <1>a
     DEF Inv, DisconnectDrop, At, Goto, Return, AccountRemoveCache, SetJob, connVars,
         accountVars, cacheVars, causes, Types, OwnListInv, HandlerInv, Registration, Procs,
         Accounts, NoJob, ListJob, NickJob, WorkerIdle
<1>6. AnonymousConnections'
  BY <1>a
     DEF Inv, DisconnectDrop, At, Goto, Return, AccountRemoveCache, SetJob, connVars,
         accountVars, cacheVars, causes, Types, AnonymousConnections, OwnListInv, HandlerInv,
         Registration, Procs, Accounts, WorkerIdle
<1>7. QED
  BY <1>1, <1>2, <1>3, <1>4, <1>5, <1>6 DEF Inv

-----------------------------------------------------------------------------
\* The state the server starts from satisfies the invariant.
LEMMA InitInv == Init => Inv
<1> SUFFICES ASSUME Init PROVE Inv
  OBVIOUS
<1> USE RosterAssumption DEF Init
<1>1. StartupNicks \in [Nicks -> Accounts \cup {NULL}]
  BY DEF StartupNicks, Accounts
<1>2. Types
  BY <1>1, JobTypes DEF Types, Accounts, Steps
<1>3. HandlerInv /\ Registration /\ RosterExact /\ OwnListInv /\ AnonymousConnections
  BY DEF HandlerInv, Registration, RosterExact, OwnListInv, AnonymousConnections,
         Merged, FinSteps, Accounts, Procs
<1>4. QED
  BY <1>2, <1>3 DEF Inv

\* Every step of every thread keeps the invariant.
LEMMA NextInv == Inv /\ [Next]_vars => Inv'
<1> SUFFICES ASSUME Inv, [Next]_vars PROVE Inv'
  OBVIOUS
<1>1. ASSUME NEW c \in Conns, Begin(c) PROVE Inv'
  BY <1>1, ConnectInv, CapEndInv, HandleUserInv, HandleUserTooLongInv,
     HandleFirstNickInv,
     HandleNickInv, AuthenticateInv, AuthenticateFailsInv, HandleQuitInv, DisconnectInv
     DEF Begin
<1>2. ASSUME NEW c \in Conns, Continue(c) PROVE Inv'
  BY <1>2, HandleNickOldInv, FinalizeNickInv, FinalizeMakeInv, FinalizeSyncInv,
     FinalizeAddInv,
     FinalizeCacheInv, MergeInv, MergeDropInv, DisconnectNickInv, DisconnectDropInv
     DEF Continue
<1>3. ASSUME NEW p \in Procs, SetNickStep(p) PROVE Inv'
  BY <1>3, SetNickHookInv, SetNickLookInv, SetNickTakenInv, SetNickWriteInv,
     SetNickStoreInv
     DEF SetNickStep
<1>4. ASSUME NEW s \in Snakes, NEW call \in PyCalls, PySetNick(s, call[1], call[2]) PROVE Inv'
  <2>1. call[1] \in Accounts /\ call[2] \in Nicks
    BY RosterAssumption
  <2>2. QED
    BY <1>4, <2>1, PySetNickInv
<1>5. CASE UNCHANGED vars
  BY <1>5
     DEF vars, connVars, accountVars, cacheVars, causes, Inv, Types, HandlerInv, Registration,
     RosterExact, OwnListInv, AnonymousConnections, Merged
<1>6. QED
  BY <1>1, <1>2, <1>3, <1>4, <1>5 DEF Next

\* The invariant holds in every reachable state.
THEOREM Invariance == Spec => []Inv
  BY InitInv, NextInv, PTL DEF Spec

\* setNick goes on with an account and a nick, or returns.
LEMMA EventsKept ==
    ASSUME Types, EventsUsable, [Next]_vars
    PROVE  EventsUsable'
<1> USE DEF Types, EventsUsable, Goto, SetJob, Return, At
<1>1. ASSUME NEW c \in Conns, Begin(c) PROVE EventsUsable'
  <2> USE DEF MayHandle, FinalizeStep, Procs
  <2>1. CASE Connect(c) \/ CapEnd(c) \/ HandleUser(c) \/ HandleUserTooLong(c)
    BY <2>1 DEF Connect, CapEnd, HandleUser, HandleUserTooLong
  <2>2. ASSUME NEW n \in Nicks, HandleFirstNick(c, n) \/ HandleNick(c, n) PROVE EventsUsable'
    BY <2>2 DEF HandleFirstNick, HandleNick
  <2>3. ASSUME NEW a \in Named, Authenticate(c, a) PROVE EventsUsable'
    BY <2>3 DEF Authenticate
  <2>4. CASE AuthenticateFails(c)
    BY <2>4 DEF AuthenticateFails
  <2>5. CASE Disconnect(c)
    BY <2>5 DEF Disconnect
  <2>6. CASE HandleQuit(c)
    BY <2>5, <2>6 DEF HandleQuit
  <2>7. QED
    BY <1>1, <2>1, <2>2, <2>3, <2>4, <2>5, <2>6 DEF Begin
<1>2. ASSUME NEW c \in Conns, Continue(c) PROVE EventsUsable'
  <2> USE DEF Procs
  <2>1. CASE HandleNickOld(c)
    BY <2>1 DEF HandleNickOld
  <2>2. CASE FinalizeNick(c) \/ FinalizeMake(c) \/ FinalizeSync(c)
    BY <2>2 DEF FinalizeNick, FinalizeMake, FinalizeSync
  <2>3. CASE FinalizeAdd(c) \/ FinalizeCache(c)
    BY <2>3 DEF FinalizeAdd, FinalizeCache
  <2>4. CASE Merge(c) \/ MergeDrop(c)
    BY <2>4 DEF Merge, MergeDrop
  <2>5. CASE DisconnectNick(c) \/ DisconnectDrop(c)
    BY <2>5 DEF DisconnectNick, DisconnectDrop
  <2>6. QED
    BY <1>2, <2>1, <2>2, <2>3, <2>4, <2>5 DEF Continue
<1>3. ASSUME NEW p \in Procs, SetNickStep(p) PROVE EventsUsable'
  <2>1. CASE SetNickHook(p)
    BY <2>1, RosterAssumption DEF SetNickHook, UsableNick, NickJob
  <2>2. CASE SetNickLook(p)
    BY <2>2 DEF SetNickLook, NickJob
  <2>3. CASE SetNickTaken(p) \/ SetNickWrite(p) \/ SetNickStore(p)
    BY <2>3 DEF SetNickTaken, SetNickWrite, SetNickStore
  <2>4. QED
    BY <1>3, <2>1, <2>2, <2>3 DEF SetNickStep
<1>4. ASSUME NEW s \in Snakes, NEW call \in PyCalls, PySetNick(s, call[1], call[2]) PROVE EventsUsable'
  BY <1>4 DEF PySetNick, Procs
<1>5. CASE UNCHANGED vars
  BY <1>5 DEF vars
<1>6. QED
  BY <1>1, <1>2, <1>3, <1>4, <1>5 DEF Next

\* Every variable keeps its type: in particular setNick never goes on without an
\* account or a nick, whatever a NICK_CHANGE handler put into the event.
THEOREM TypeCorrect == Spec => []TypeOK
<1>1. Init => EventsUsable
  BY DEF Init, EventsUsable
<1>2. Inv /\ EventsUsable /\ [Next]_vars => EventsUsable'
  BY EventsKept DEF Inv
<1>3. Inv /\ EventsUsable => TypeOK
  BY DEF Inv, TypeOK
<1>4. QED
  BY <1>1, <1>2, <1>3, Invariance, PTL DEF Spec

\* Merge and onConnectionDisconnected keep Ctx's account caches exact: no named
\* account is ever dropped, no anonymous one outlives its connection, none is
\* missing while its connection uses it.
THEOREM CachesExact == Spec => []RosterExact
<1>1. Inv => RosterExact
  BY DEF Inv
<1>2. QED
  BY <1>1, Invariance, PTL

\* The connection list of an anonymous account holds its own connection and no
\* other, from the welcome to the disconnect or merge, and never a freed one.
THEOREM AnonymousListsExact == Spec => []AnonymousConnections
<1>1. Inv => AnonymousConnections
  BY DEF Inv
<1>2. QED
  BY <1>1, Invariance, PTL

\* A connection is welcomed once, with an account, after its three setup tasks.
THEOREM RegistrationComplete == Spec => []Registration
<1>1. Inv => Registration
  BY DEF Inv
<1>2. QED
  BY <1>1, Invariance, PTL

-----------------------------------------------------------------------------
\* The lists of connections

\* A handler of one connection leaves the state of the others alone.
LEMMA OthersKept ==
    ASSUME Inv, NEW c \in Conns, Begin(c) \/ Continue(c)
    PROVE  \A d \in Conns : d # c =>
              /\ pc'[d] = pc[d] /\ job'[d] = job[d]
              /\ phase'[d] = phase[d] /\ tasks'[d] = tasks[d] /\ mNick'[d] = mNick[d]
              /\ acct'[d] = acct[d] /\ loggedIn'[d] = loggedIn[d] /\ ready'[d] = ready[d]
<1> USE DEF Goto, SetJob, Return, ForceDisconnect, connVars, Inv, Types, Procs
<1>1. CASE Disconnect(c)
  BY <1>1 DEF Disconnect
<1>2. CASE Begin(c)
  <2>1. CASE HandleQuit(c)
    BY <1>1, <2>1 DEF HandleQuit
  <2>2. CASE Connect(c) \/ CapEnd(c) \/ HandleUser(c) \/ HandleUserTooLong(c) \/ AuthenticateFails(c)
    BY <2>2 DEF Connect, CapEnd, HandleUser, HandleUserTooLong, AuthenticateFails
  <2>3. ASSUME NEW n \in Nicks, HandleFirstNick(c, n) \/ HandleNick(c, n)
        PROVE  \A d \in Conns : d # c =>
                  /\ pc'[d] = pc[d] /\ job'[d] = job[d]
                  /\ phase'[d] = phase[d] /\ tasks'[d] = tasks[d] /\ mNick'[d] = mNick[d]
                  /\ acct'[d] = acct[d] /\ loggedIn'[d] = loggedIn[d] /\ ready'[d] = ready[d]
    BY <2>3 DEF HandleFirstNick, HandleNick
  <2>4. ASSUME NEW a \in Named, Authenticate(c, a)
        PROVE  \A d \in Conns : d # c =>
                  /\ pc'[d] = pc[d] /\ job'[d] = job[d]
                  /\ phase'[d] = phase[d] /\ tasks'[d] = tasks[d] /\ mNick'[d] = mNick[d]
                  /\ acct'[d] = acct[d] /\ loggedIn'[d] = loggedIn[d] /\ ready'[d] = ready[d]
    BY <2>4 DEF Authenticate
  <2>5. QED
    BY <1>1, <1>2, <2>1, <2>2, <2>3, <2>4 DEF Begin
<1>3. CASE Continue(c)
  BY <1>3 DEF Continue, HandleNickOld, FinalizeNick, FinalizeMake, FinalizeSync, FinalizeAdd,
      FinalizeCache, Merge, MergeDrop, DisconnectNick, DisconnectDrop
<1>4. QED
  BY <1>2, <1>3

\* The end of a socket takes the connection out of its account's list.
LEMMA DisconnectTracked ==
    ASSUME Inv, TrackInv, NEW c \in Conns, Disconnect(c)
    PROVE  TrackInv'
<1> USE RosterAssumption
<1>1. \A d \in Conns : d # c =>
          pc'[d] = pc[d] /\ phase'[d] = phase[d] /\ acct'[d] = acct[d]
  BY OthersKept DEF Begin
<1>2. UNCHANGED <<acct, loggedIn, ready, raced>> /\ pc[c] = "idle" /\ phase[c] # "gone"
  BY DEF Disconnect, MayHandle, WorkerIdle, causes
<1>3. CASE acct[c] = NULL
  <2>1. pc'[c] = "idle" /\ phase'[c] = "gone" /\ UNCHANGED conns
    BY <1>2, <1>3 DEF Disconnect, Inv, Types
  <2>2. QED
    BY <1>1, <1>2, <1>3, <2>1 DEF TrackInv, Merged
<1>4. CASE acct[c] # NULL
  <2>1. PICK b \in Accounts : b = acct[c]
    BY <1>4 DEF Inv, Types
  <2>2. /\ conns' = [conns EXCEPT ![b] = @ \ {c}]
        /\ \/ pc'[c] = "idle" /\ phase'[c] = "gone"
           \/ pc'[c] = "dis_nick" /\ phase'[c] = phase[c]
    BY <1>2, <1>4, <2>1 DEF Disconnect, WithoutConnection, Goto, Inv, Types, Procs
  <2>3. conns'[b] = conns[b] \ {c} /\ \A x \in Accounts : x # b => conns'[x] = conns[x]
    BY <2>2 DEF Inv, Types
  <2>4. ASSUME NEW d \in Conns, d # c
        PROVE  /\ \A x \in Accounts : d \in conns'[x] <=> d \in conns[x]
               /\ acct[d] \in Accounts \cup {NULL} /\ (ready[d] => acct[d] # NULL)
               /\ pc[d] = "fin_cache" => acct[d] # NULL
    BY <2>3, <2>4 DEF Inv, Types, Registration, HandlerInv
  <2>5. QED
    BY <1>1, <1>2, <2>1, <2>2, <2>3, <2>4 DEF TrackInv, Merged
<1>5. QED
  BY <1>3, <1>4

\* A command or the end of a socket keeps the lists of connections in order.
LEMMA BeginTracked ==
    ASSUME Inv, TrackInv, NEW c \in Conns, Begin(c)
    PROVE  TrackInv'
<1> USE RosterAssumption DEF causes, accountVars
<1>1. c \in Procs
  BY DEF Procs
<1>2. ASSUME /\ UNCHANGED <<conns, raced, acct, loggedIn, ready>>
             /\ phase[c] # "gone" /\ phase'[c] # "gone"
             /\ pc[c] = "idle" /\ pc'[c] \notin {"fin_cache", "dis_nick", "dis_drop"}
      PROVE  TrackInv'
  BY <1>2, OthersKept DEF TrackInv, Merged
<1>3. ASSUME MayHandle(c) PROVE phase[c] # "gone" /\ pc[c] = "idle"
  BY <1>3 DEF MayHandle, WorkerIdle
<1>4. CASE Connect(c)
  BY <1>4, <1>2 DEF Connect, WorkerIdle, Inv, Types
<1>5. CASE CapEnd(c) \/ HandleUser(c)
  BY <1>1, <1>5, <1>2, <1>3 DEF CapEnd, HandleUser, FinalizeStep, Goto, Inv, Types
<1>6. CASE HandleUserTooLong(c) \/ AuthenticateFails(c)
  BY <1>6, <1>2, <1>3 DEF HandleUserTooLong, AuthenticateFails, ForceDisconnect, Inv, Types
<1>7. ASSUME NEW n \in Nicks, HandleFirstNick(c, n) \/ HandleNick(c, n) PROVE TrackInv'
  BY <1>1, <1>7, <1>2, <1>3 DEF HandleFirstNick, HandleNick, FinalizeStep, Goto, connVars, Inv, Types
<1>8. ASSUME NEW a \in Named, Authenticate(c, a) PROVE TrackInv'
  <2>1. /\ phase[c] # "gone" /\ pc[c] = "idle" /\ pc'[c] \in {"idle", "merge"}
        /\ UNCHANGED <<phase, ready, conns, raced>> /\ loggedIn'[c] = TRUE
        /\ acct'[c] = acct[c] \/ acct[c] = NULL
    BY <1>1, <1>8, <1>3 DEF Authenticate, Goto, Inv, Types
  <2>2. /\ Merged(c) => Merged(c)'
        /\ acct[c] # NULL => acct'[c] = acct[c]
        /\ loggedIn'[c] /\ (\A d \in Conns : d # c => Merged(d)' = Merged(d))
    BY <1>1, <1>8, <2>1, OthersKept DEF Merged, Begin, Inv, Types, Accounts
  <2>3. ready[c] => acct[c] # NULL
    BY DEF Inv, Registration
  <2>4. QED
    BY <2>1, <2>2, <2>3, OthersKept DEF TrackInv, Merged
<1>9. CASE Disconnect(c)
  BY <1>9, DisconnectTracked
<1>10. CASE HandleQuit(c)
  BY <1>10, <1>9, <1>2, <1>3 DEF HandleQuit, ForceDisconnect, connVars, Inv, Types
<1>11. QED
  BY <1>4, <1>5, <1>6, <1>7, <1>8, <1>9, <1>10 DEF Begin

\* merge hands the list of the anonymous account, its own connection at most, to the
\* named one.
LEMMA MergeTracked ==
    ASSUME Inv, TrackInv, NEW c \in Conns, Merge(c)
    PROVE  TrackInv'
<1> USE RosterAssumption
<1>1. /\ pc[c] = "merge" /\ loggedIn[c] /\ acct[c] # NULL /\ c \in Procs
      /\ UNCHANGED <<phase, acct, loggedIn, ready, raced>>
  BY DEF Merge, At, Inv, HandlerInv, connVars, causes, Procs
<1>2. \A d \in Conns : d # c => pc'[d] = pc[d]
  BY OthersKept DEF Continue
<1>3. PICK b : b = job[c].acct
  OBVIOUS
<1>4. b \in Named /\ (acct[c] \in Named \/ acct[c] = c)
  BY <1>1, <1>3 DEF Inv, HandlerInv, Registration, Types, Accounts
<1>5. CASE acct[c] \in Named
  <2>1. pc'[c] = "idle" /\ UNCHANGED conns
    BY <1>1, <1>5 DEF Merge, IsLoggedIn, Return, Goto, Inv, Types
  <2>2. QED
    BY <1>1, <1>2, <2>1 DEF TrackInv, Merged
<1>6. CASE acct[c] = c
  <2>1. /\ pc'[c] = "merge_drop" /\ conns' = [conns EXCEPT ![b] = @ \cup conns[c], ![c] = {}]
    BY <1>1, <1>3, <1>6 DEF Merge, IsLoggedIn, Goto, Inv, Types
  <2>2. /\ conns'[b] = conns[b] \cup conns[c] /\ conns'[c] = {}
        /\ \A x \in Accounts : x # b /\ x # c => conns'[x] = conns[x]
    BY <1>4, <2>1 DEF Inv, Types, Accounts
  <2>3. conns[c] \subseteq {c}
    BY DEF Inv, AnonymousConnections
  <2>4. acct \in [Conns -> Accounts \cup {NULL}]
    BY DEF Inv, Types
  <2>5. \A d \in Conns : d # c => acct[d] # c
    BY DEF Inv, Registration
  <2>6. ASSUME NEW d \in Conns, d # c, acct[d] # NULL, d \in conns[acct[d]]
        PROVE  d \in conns'[acct[d]]
    BY <2>2, <2>4, <2>5, <2>6
  <2>7. ASSUME NEW d \in Conns, NEW x \in Accounts \ raced, d \in conns'[x]
        PROVE  Merged(d) \/ (x = acct[d] /\ phase[d] # "gone")
    <3>1. d \in conns[x] \/ d = c
      BY <2>2, <2>3, <2>7
    <3>2. QED
      BY <1>1, <1>6, <2>7, <3>1 DEF TrackInv, Merged
  <2>8. \A d \in Conns : (ready[d] \/ pc[d] = "fin_cache") => acct[d] # NULL
    BY DEF Inv, Registration, HandlerInv
  <2>9. ASSUME NEW d \in Conns, d # c
        PROVE  /\ pc'[d] = "fin_cache" => d \in conns'[acct'[d]] \/ acct'[d] \in raced'
               /\ (ready'[d] /\ ~Merged(d)' /\ phase'[d] # "gone" /\ pc'[d] \notin {"dis_nick", "dis_drop"})
                    => d \in conns'[acct'[d]] \/ acct'[d] \in raced'
    BY <1>1, <1>2, <2>6, <2>8, <2>9 DEF TrackInv, Merged
  <2>10. Merged(c)' /\ \A d \in Conns : Merged(d)' = Merged(d)
    BY <1>1, <1>6 DEF Merged
  <2>11. QED
    BY <1>1, <2>1, <2>7, <2>9, <2>10 DEF TrackInv
<1>7. QED
  BY <1>4, <1>5, <1>6

\* add_connection puts the connection into the list, unless the list changed meanwhile.
LEMMA FinalizeAddTracked ==
    ASSUME Inv, TrackInv, NEW c \in Conns, FinalizeAdd(c)
    PROVE  TrackInv'
<1> USE RosterAssumption
<1>1. /\ pc[c] = "fin_add" /\ c \in Procs /\ acct[c] \in Accounts /\ ~ready[c]
      /\ phase[c] # "gone"
  BY DEF FinalizeAdd, At, Inv, HandlerInv, Types, FinSteps, Procs
<1>2. PICK b \in Accounts : b = acct[c]
  BY <1>1
<1>3. PICK list \in AppendOutcomes(c, conns[b], job[c].snap) :
          conns' = [conns EXCEPT ![b] = list]
  BY <1>2 DEF FinalizeAdd
<1>4. /\ UNCHANGED <<phase, acct, loggedIn, ready>> /\ pc'[c] = "fin_cache"
      /\ \A d \in Conns : d # c => pc'[d] = pc[d]
      /\ raced' = raced \cup {a \in {b} : conns[a] # job[c].snap}
  BY <1>1, <1>2, OthersKept DEF FinalizeAdd, Continue, connVars, Goto, Inv, Types
<1>5. conns'[b] = list /\ \A x \in Accounts : x # b => conns'[x] = conns[x]
  BY <1>3 DEF Inv, Types
<1>6. b \notin raced' => list = conns[b] \cup {c}
  BY <1>3, <1>4 DEF AppendOutcomes
<1>7. \A d \in Conns : /\ acct[d] \in Accounts \cup {NULL}
                       /\ (ready[d] \/ pc[d] = "fin_cache") => acct[d] # NULL
  BY DEF Inv, Registration, HandlerInv, Types
<1>8. \A d \in Conns, x \in Accounts \ raced' :
          x \notin raced /\ (d \in conns[x] => d \in conns'[x])
          /\ (d \in conns'[x] => d \in conns[x] \/ (d = c /\ x = b))
  BY <1>4, <1>5, <1>6
<1>9. QED
  BY <1>1, <1>2, <1>4, <1>5, <1>6, <1>7, <1>8 DEF TrackInv, Merged

\* So do the later steps of a handler.
LEMMA ContinueTracked ==
    ASSUME Inv, TrackInv, NEW c \in Conns, Continue(c)
    PROVE  TrackInv'
<1> USE RosterAssumption DEF causes, accountVars, connVars, At, Goto
<1>1. c \in Procs
  BY DEF Procs
<1>a. ASSUME /\ UNCHANGED <<conns, raced, acct, loggedIn>>
             /\ ready'[c] => ready[c] \/ pc[c] = "fin_cache"
             /\ phase[c] # "gone" /\ phase'[c] # "gone"
             /\ pc'[c] # "fin_cache"
             /\ pc[c] \in {"dis_nick", "dis_drop"} => pc'[c] \in {"dis_nick", "dis_drop"}
      PROVE  TrackInv'
  BY <1>a, OthersKept DEF TrackInv, Merged
<1>b. phase[c] # "gone"
  BY DEF Inv, HandlerInv, Continue, HandleNickOld, FinalizeNick, FinalizeMake, FinalizeSync,
         FinalizeAdd, FinalizeCache, Merge, MergeDrop, DisconnectNick, DisconnectDrop
<1>2. CASE HandleNickOld(c)
  BY <1>1, <1>2, <1>a, <1>b DEF HandleNickOld, Return, Inv, Types
<1>3. CASE FinalizeNick(c)
  BY <1>1, <1>3, <1>a, <1>b DEF FinalizeNick, ForceDisconnect, Inv, Types
<1>4. CASE FinalizeMake(c)
  <2>1. acct[c] = NULL /\ ~ready[c] /\ conns[c] = {}
    BY <1>4 DEF FinalizeMake, Inv, HandlerInv, OwnListInv, FinSteps, Accounts
  <2>2. /\ pc'[c] = "fin_sync" /\ acct'[c] = c
        /\ UNCHANGED <<phase, loggedIn, ready, conns, raced>>
    BY <1>1, <1>4 DEF FinalizeMake, Inv, Types
  <2>3. QED
    BY <1>b, <2>1, <2>2, OthersKept DEF TrackInv, Merged
<1>5. CASE FinalizeSync(c)
  BY <1>1, <1>5, <1>a, <1>b DEF FinalizeSync, Inv, Types
<1>6. CASE FinalizeAdd(c)
  BY <1>6, FinalizeAddTracked
<1>7. CASE FinalizeCache(c)
  BY <1>1, <1>7, <1>a, <1>b DEF FinalizeCache, Return, Inv, Types
<1>8. CASE Merge(c)
  BY <1>8, MergeTracked
<1>9. CASE MergeDrop(c)
  BY <1>1, <1>9, <1>a, <1>b DEF MergeDrop, Return, Inv, Types
<1>10. CASE DisconnectNick(c)
  BY <1>1, <1>10, <1>a, <1>b DEF DisconnectNick, Inv, Types
<1>11. CASE DisconnectDrop(c)
  <2>1. /\ acct[c] = c /\ conns[c] = {} /\ pc'[c] = "idle" /\ phase'[c] = "gone"
        /\ UNCHANGED <<conns, raced, acct, loggedIn, ready>>
    BY <1>1, <1>11 DEF DisconnectDrop, Return, Inv, Types, HandlerInv, OwnListInv
  <2>2. QED
    BY <1>b, <2>1, OthersKept DEF TrackInv, Merged
<1>12. QED
  BY <1>2, <1>3, <1>4, <1>5, <1>6, <1>7, <1>8, <1>9, <1>10, <1>11 DEF Continue

\* And the steps of setNick, by a worker or by a Python thread, which do not look at
\* lists.
LEMMA SetNickTracked ==
    ASSUME Inv, TrackInv, NEW p \in Procs,
           SetNickStep(p) \/ \E a \in Accounts, n \in Nicks : p \in Snakes /\ PySetNick(p, a, n)
    PROVE  TrackInv'
<1> USE RosterAssumption DEF Goto, SetJob, Inv, Types, Procs
<1>1. UNCHANGED <<phase, acct, loggedIn, ready, conns, raced>>
  BY DEF SetNickStep, SetNickHook, SetNickLook, SetNickTaken, SetNickWrite, SetNickStore,
         PySetNick, connVars, accountVars, causes
<1>2. \A d \in Conns : d # p => pc'[d] = pc[d]
  BY DEF SetNickStep, SetNickHook, SetNickLook, SetNickTaken, SetNickWrite, SetNickStore,
         PySetNick, Return
<1>3. p \in Conns => /\ pc[p] \in {"hook", "look", "taken", "write", "store"}
                     /\ pc'[p] \in {"idle", "look", "taken", "write", "store"}
  BY DEF SetNickStep, SetNickHook, SetNickLook, SetNickTaken, SetNickWrite, SetNickStore,
         Return, At
<1>4. QED
  BY <1>1, <1>2, <1>3 DEF TrackInv, Merged

\* A welcomed connection is in the list of its account until it leaves, and the only
\* freed connections in a list were adopted by merge, however the workers interleave:
\* only a list that changed while add_connection appended to it may be wrong.
THEOREM ListsTracked == Spec => []ConnectionsTracked
<1>1. Init => TrackInv
  BY RosterAssumption DEF Init, TrackInv, Accounts, Procs
<1>2. Inv /\ TrackInv /\ [Next]_vars => TrackInv'
  <2> SUFFICES ASSUME Inv, TrackInv, [Next]_vars PROVE TrackInv'
    OBVIOUS
  <2>1. ASSUME NEW s \in Snakes, NEW call \in PyCalls, PySetNick(s, call[1], call[2])
        PROVE  TrackInv'
    <3>1. call[1] \in Accounts /\ call[2] \in Nicks /\ s \in Procs
      BY RosterAssumption DEF Procs
    <3>2. QED
      BY <2>1, <3>1, SetNickTracked
  <2>2. CASE UNCHANGED vars
    BY <2>2 DEF vars, connVars, accountVars, causes, TrackInv, Merged
  <2>3. QED
    BY <2>1, <2>2, BeginTracked, ContinueTracked, SetNickTracked DEF Next
<1>3. Inv /\ TrackInv => ConnectionsTracked
  BY DEF TrackInv, ConnectionsTracked, Inv, Types
<1>4. QED
  BY <1>1, <1>2, <1>3, Invariance, PTL DEF Spec

-----------------------------------------------------------------------------
\* The nicks

SetNickSteps == {"hook", "look", "taken", "write", "store"}
OwnSteps == {"fin_sync", "fin_add", "fin_cache", "dis_nick", "dis_drop"}

\* The nicks a step of setNick deals with.
LEMMA ConcernsSetNick ==
    ASSUME Types, NEW q \in Procs, KnowsNick(q), pc[q] \in SetNickSteps
    PROVE  /\ {job[q].old, job[q].new, Lower[job[q].new], accNick[job[q].acct]} \subseteq Concerns(q)
           /\ job[q].acct \in Accounts
<1>1. job[q].acct \in Accounts /\ job[q].new \in Nicks /\ job[q].old \in Nicks
  BY JobFields DEF KnowsNick, SetNickSteps
<1>2. accNick[job[q].acct] \in Nicks /\ Lower[job[q].new] \in Nicks
  BY <1>1, RosterAssumption DEF KnowsNick, SetNickSteps, Types
<1>3. job[q].new # NULL
  BY <1>1, RosterAssumption
<1>4. QED
  BY <1>1, <1>2, <1>3 DEF SetNickSteps, Concerns

\* The nicks a step of try_finalize_setup or of the disconnect deals with.
LEMMA ConcernsOwn ==
    ASSUME Inv, NickedInv, NEW c \in Conns, KnowsOwn(c)
    PROVE  /\ pc[c] \in {"fin_nick", "fin_make"} => {mNick[c], Lower[mNick[c]]} \subseteq Concerns(c)
           /\ pc[c] \in OwnSteps => /\ acct[c] \in Accounts
                                    /\ accNick[acct[c]] \in Concerns(c)
           /\ pc[c] = "fin_cache" => job[c].new \in Concerns(c)
           /\ pc[c] \in {"dis_nick", "dis_drop"} => job[c].old \in Concerns(c)
<1> USE RosterAssumption DEF OwnSteps
<1>1. c \in Procs /\ Types
  BY DEF Procs, Inv
<1>2. pc[c] \in {"fin_nick", "fin_make"} => mNick[c] \in Nicks
  BY DEF Inv, Types, HandlerInv, NickedInv, FinSteps
<1>3. pc[c] \in OwnSteps => acct[c] \in Accounts /\ (acct[c] \in Named \/ acct[c] = c)
  BY DEF Inv, Types, HandlerInv, Registration, Accounts
<1>4. pc[c] \in OwnSteps => accNick[acct[c]] \in Nicks
  BY <1>3 DEF NickedInv, Inv, Types, Accounts
<1>5. QED
  BY <1>1, <1>2, <1>3, <1>4, JobFields DEF Concerns, KnowsOwn, Types

\* Two handlers that deal with one nick: what either deals with is contested as soon as
\* one of them writes.
LEMMA ContestPair ==
    ASSUME NEW p \in Procs, NEW q \in Procs, p # q, NEW odd, Contest(p, odd),
           NEW n, n \in Concerns(p), n \in Concerns(q)
    PROVE  Concerns(p) \subseteq contested' /\ Concerns(q) \subseteq contested'
<1>1. q \in Rivals(p)
  BY DEF Rivals
<1>2. QED
  BY <1>1 DEF Contest

\* What is contested stays so.
LEMMA ContestGrows ==
    ASSUME NEW p, NEW odd, Contest(p, odd)
    PROVE  contested \subseteq contested' /\ odd \subseteq contested'
  BY DEF Contest

\* A step of another handler leaves what q knows of irc_nicks and the accounts alone,
\* or makes what q deals with contested.
Undisturbed(q) ==
    /\ \A n \in Concerns(q) : ircNicks'[n] = ircNicks[n]
    /\ pc[q] \in SetNickSteps =>
          /\ accNick'[job[q].acct] = accNick[job[q].acct]
          /\ Alive(job[q].acct) => Alive(job[q].acct)'
    /\ (q \in Conns /\ pc[q] \in OwnSteps) => accNick'[acct[q]] = accNick[acct[q]]

Disturbed(q) ==
    /\ Concerns(q) \subseteq contested'
    /\ pc[q] \in SetNickSteps => accNick'[job[q].acct] \in contested'
    /\ (q \in Conns /\ pc[q] \in OwnSteps) => accNick'[acct[q]] \in contested'

\* Either way, what q knows stays true.
LEMMA StillKnows ==
    ASSUME Inv, NickInv, NEW q \in Procs,
           pc'[q] = pc[q], job'[q] = job[q],
           q \in Conns => acct'[q] = acct[q] /\ mNick'[q] = mNick[q],
           contested \subseteq contested', contested' \subseteq Nicks,
           Undisturbed(q) \/ Disturbed(q)
    PROVE  KnowsNick(q)' /\ (q \in Conns => KnowsOwn(q)')
<1> USE RosterAssumption
<1>1. Types /\ KnowsNick(q) /\ NickedInv /\ (q \in Conns => KnowsOwn(q))
  BY DEF Inv, NickInv, WriterInv
<1>2. KnowsNick(q)'
  <2>1. CASE pc[q] \notin SetNickSteps
    BY <1>1, <2>1 DEF KnowsNick, SetNickSteps
  <2>2. CASE pc[q] \in SetNickSteps /\ Undisturbed(q)
    <3>1. /\ ircNicks'[Lower[job[q].new]] = ircNicks[Lower[job[q].new]]
          /\ ircNicks'[accNick[job[q].acct]] = ircNicks[accNick[job[q].acct]]
          /\ accNick'[job[q].acct] = accNick[job[q].acct]
          /\ Alive(job[q].acct) => Alive(job[q].acct)'
      BY <1>1, <2>2, ConcernsSetNick DEF Undisturbed
    <3>2. QED
      BY <1>1, <2>2, <3>1 DEF KnowsNick, Synced, Free, SetNickSteps
  <2>3. CASE pc[q] \in SetNickSteps /\ Disturbed(q)
    <3>1. {job[q].old, job[q].new, Lower[job[q].new], accNick'[job[q].acct]} \subseteq contested'
      BY <1>1, <2>3, ConcernsSetNick DEF Disturbed
    <3>2. QED
      BY <1>1, <2>3, <3>1 DEF KnowsNick, Synced, Free, SetNickSteps
  <2>4. QED
    BY <2>1, <2>2, <2>3
<1>3. ASSUME q \in Conns PROVE KnowsOwn(q)'
  <2> USE DEF OwnSteps
  <2>1. CASE Undisturbed(q)
    <3>1. /\ pc[q] = "fin_make" => ircNicks'[Lower[mNick[q]]] = ircNicks[Lower[mNick[q]]]
          /\ pc[q] \in OwnSteps =>
                /\ accNick'[acct[q]] = accNick[acct[q]]
                /\ ircNicks'[accNick[acct[q]]] = ircNicks[accNick[acct[q]]]
      BY <1>1, <1>3, <2>1, ConcernsOwn DEF Undisturbed
    <3>2. pc[q] \in {"dis_nick", "dis_drop"} => acct[q] = q
      BY <1>3 DEF Inv, HandlerInv
    <3>3. QED
      BY <1>1, <1>3, <3>1, <3>2 DEF KnowsOwn, Synced, Free
  <2>2. CASE Disturbed(q)
    <3>1. /\ pc[q] = "fin_make" => Lower[mNick[q]] \in contested'
          /\ pc[q] \in OwnSteps => accNick'[acct[q]] \in contested'
          /\ pc[q] = "fin_cache" => job[q].new \in contested'
          /\ pc[q] \in {"dis_nick", "dis_drop"} => job[q].old \in contested'
      BY <1>1, <1>3, <2>2, ConcernsOwn DEF Disturbed
    <3>2. pc[q] \in {"dis_nick", "dis_drop"} => acct[q] = q
      BY <1>3 DEF Inv, HandlerInv
    <3>3. QED
      BY <1>1, <1>3, <3>1, <3>2 DEF KnowsOwn, Synced, Free
  <2>3. QED
    BY <2>1, <2>2
<1>4. QED
  BY <1>2, <1>3

\* What someone who speaks for an account finds: its nick is one, unless contested in
\* irc_nicks, or the account is moving to another nick, or is not yet or no longer in.
LEMMA AccountNicked ==
    ASSUME Inv, NickedInv, NEW a \in Accounts, a \in Named \/ acct[a] = a
    PROVE  accNick[a] \in Nicks
  BY DEF Inv, Types, NickedInv, Accounts

\* A step that writes neither a nick nor an entry of irc_nicks, and moves no account in
\* or out, needs only to give the handler that takes it what that handler must know.
LEMMA QuietStep ==
    ASSUME Inv, NickInv, NEW p \in Procs,
           UNCHANGED <<accNick, ircNicks, contested>>,
           \A q \in Procs : q # p => pc'[q] = pc[q] /\ job'[q] = job[q],
           \A d \in Conns : d # p =>
              /\ phase'[d] = phase[d] /\ tasks'[d] = tasks[d] /\ mNick'[d] = mNick[d]
              /\ acct'[d] = acct[d] /\ ready'[d] = ready[d],
           pc[p] \notin {"store", "dis_drop"}, pc'[p] \notin {"store", "dis_drop"},
           p \in Conns =>
              /\ acct'[p] = p <=> acct[p] = p
              /\ acct[p] = p => (phase'[p] \in {"open", "closing"} <=> phase[p] \in {"open", "closing"})
              /\ ready'[p] = ready[p]
              /\ (phase'[p] # "new" /\ "NICK" \notin tasks'[p]) => mNick'[p] # NULL
              /\ (acct[p] = p /\ ~ready[p]) => pc'[p] \in {"fin_sync", "fin_add", "fin_cache"}
              /\ KnowsOwn(p)',
           KnowsNick(p)'
    PROVE  NickInv'
<1> USE RosterAssumption
<1>1. \A a \in Accounts : (Alive(a)' <=> Alive(a)) /\ (Holding(a)' <=> Holding(a))
  <2>1. ASSUME NEW a \in Conns PROVE (Alive(a)' <=> Alive(a)) /\ (Holding(a)' <=> Holding(a))
    <3>1. CASE a = p
      BY <2>1, <3>1 DEF Alive, Holding
    <3>2. CASE a # p
      BY <2>1, <3>2 DEF Alive, Holding, Procs
    <3>3. QED
      BY <3>1, <3>2
  <2>2. QED
    BY <2>1 DEF Alive, Holding, Accounts
<1>2. NickedInv'
  BY DEF NickInv, NickedInv, Procs
<1>3. WriterInv'
  <2>1. ASSUME NEW q \in Procs, q # p PROVE KnowsNick(q)' /\ (q \in Conns => KnowsOwn(q)')
    <3>1. Types /\ KnowsNick(q)
      BY DEF Inv, NickInv, WriterInv
    <3>2. pc[q] \in SetNickSteps => job[q].acct \in Accounts
      BY <3>1, ConcernsSetNick
    <3>3. Undisturbed(q)
      BY <1>1, <2>1, <3>2 DEF Undisturbed
    <3>4. contested \subseteq contested' /\ contested' \subseteq Nicks
      BY <3>1 DEF Types
    <3>5. QED
      BY <2>1, <3>3, <3>4, StillKnows
  <2>2. QED
    BY <2>1 DEF WriterInv, Procs
<1>4. IndexInv'
  <2>1. \A a \in Accounts : Moving(a)' = Moving(a)
    BY DEF Moving
  <2>2. \A a \in Accounts : \A q \in Moving(a) : job'[q] = job[q]
    BY DEF Moving
  <2>3. QED
    BY <1>1, <2>1, <2>2 DEF NickInv, IndexInv
<1>5. QED
  BY <1>2, <1>3, <1>4 DEF NickInv

\* A command, or the end of a socket, only begins something.
LEMMA BeginNicks ==
    ASSUME Inv, NickInv, NEW c \in Conns, Begin(c)
    PROVE  NickInv'
<1> USE RosterAssumption DEF Goto, SetJob, Return, connVars, accountVars, cacheVars, causes
<1>1. c \in Procs /\ Types /\ NickedInv /\ KnowsNick(c) /\ KnowsOwn(c) /\ c \notin Named
  BY DEF Procs, Inv, NickInv, WriterInv
<1>2. \A d \in Conns : d # c =>
          /\ pc'[d] = pc[d] /\ job'[d] = job[d]
          /\ phase'[d] = phase[d] /\ tasks'[d] = tasks[d] /\ mNick'[d] = mNick[d]
          /\ acct'[d] = acct[d] /\ ready'[d] = ready[d]
  BY OthersKept
<1>3. UNCHANGED <<accNick, ircNicks, contested, ready>> /\ pc[c] = "idle"
  <2>1. CASE Disconnect(c)
    BY <2>1 DEF Disconnect, MayHandle, WorkerIdle
  <2>2. QED
    BY <2>1 DEF Begin, Connect, CapEnd, HandleUser, HandleUserTooLong, HandleFirstNick, HandleNick,
      Authenticate, AuthenticateFails, HandleQuit, ForceDisconnect, MayHandle, WorkerIdle
<1>4. \A q \in Procs : q # c => pc'[q] = pc[q] /\ job'[q] = job[q]
  <2>1. CASE Disconnect(c)
    BY <1>1, <2>1 DEF Disconnect, Types
  <2>2. QED
    BY <1>1, <2>1 DEF Begin, Connect, CapEnd, HandleUser, HandleUserTooLong, HandleFirstNick, HandleNick,
      Authenticate, AuthenticateFails, HandleQuit, ForceDisconnect, Types
<1>5. SUFFICES /\ pc'[c] \notin {"store", "dis_drop"}
               /\ acct'[c] = c <=> acct[c] = c
               /\ acct[c] = c => (phase'[c] \in {"open", "closing"} <=> phase[c] \in {"open", "closing"})
               /\ (phase'[c] # "new" /\ "NICK" \notin tasks'[c]) => mNick'[c] # NULL
               /\ (acct[c] = c /\ ~ready[c]) => pc'[c] \in {"fin_sync", "fin_add", "fin_cache"}
               /\ KnowsOwn(c)' /\ KnowsNick(c)'
  BY <1>1, <1>2, <1>3, <1>4, QuietStep
<1>6. /\ acct[c] = c => ready[c] /\ accNick[c] # NULL
      /\ (phase[c] # "new" /\ "NICK" \notin tasks[c]) => mNick[c] # NULL
  BY <1>1, <1>3 DEF NickedInv
<1>7. ASSUME pc'[c] \in {"idle", "fin_nick", "merge"} \/ (pc'[c] = "fin_sync" /\ acct'[c] # c)
      PROVE  KnowsOwn(c)' /\ KnowsNick(c)'
  BY <1>7 DEF KnowsOwn, KnowsNick
<1>8. CASE Disconnect(c)
  <2>1. UNCHANGED <<acct, tasks, mNick>> /\ phase[c] \in {"open", "closing"}
    BY <1>8 DEF Disconnect, MayHandle
  <2>2. CASE acct[c] = c
    <3>1. /\ pc'[c] = "dis_nick" /\ job'[c].old = accNick[c] /\ UNCHANGED phase
      BY <1>1, <1>8, <2>2 DEF Disconnect, IsLoggedIn, NickJob, Nick, Types, Accounts
    <3>2. KnowsOwn(c)' /\ KnowsNick(c)'
      BY <1>3, <1>6, <2>2, <3>1 DEF KnowsOwn, KnowsNick, Synced
    <3>3. QED
      BY <1>6, <2>1, <2>2, <3>1, <3>2
  <2>3. CASE acct[c] # c
    <3>1. pc'[c] = "idle" /\ phase'[c] = "gone"
      BY <1>1, <1>3, <1>8, <2>3 DEF Disconnect, IsLoggedIn, Inv, Types, Registration, Accounts
    <3>2. QED
      BY <1>6, <1>7, <2>1, <2>3, <3>1
  <2>4. QED
    BY <2>2, <2>3
<1>9. CASE Connect(c)
  <2>1. phase[c] = "new" /\ acct[c] # c /\ "NICK" \in tasks'[c] /\ UNCHANGED <<acct, pc>>
    BY <1>1, <1>9 DEF Connect, Inv, HandlerInv, SetupTasks, Types, Accounts
  <2>2. QED
    BY <1>3, <1>7, <2>1
<1>10. CASE CapEnd(c) \/ HandleUser(c) \/ \E n \in Nicks : HandleFirstNick(c, n)
  <2>1. /\ pc'[c] \in {"idle", "fin_nick"} \/ (pc'[c] = "fin_sync" /\ ~ready[c])
        /\ UNCHANGED <<acct, phase>>
    BY <1>1, <1>3, <1>10 DEF CapEnd, HandleUser, HandleFirstNick, FinalizeStep, Types
  <2>2. (phase'[c] # "new" /\ "NICK" \notin tasks'[c]) => mNick'[c] # NULL
    <3>1. ASSUME NEW n \in Nicks, HandleFirstNick(c, n) PROVE mNick'[c] # NULL
      BY <1>1, <3>1 DEF HandleFirstNick, Types
    <3>2. CASE CapEnd(c) \/ HandleUser(c)
      BY <1>1, <1>6, <3>2 DEF CapEnd, HandleUser, Types
    <3>3. QED
      BY <1>10, <3>1, <3>2
  <2>3. QED
    BY <1>6, <1>7, <2>1, <2>2
<1>11. CASE \E n \in Nicks : HandleNick(c, n)
  <2>1. pc'[c] = "nick_old" /\ job'[c].new # NULL /\ UNCHANGED <<acct, phase, tasks, mNick>>
    BY <1>1, <1>11 DEF HandleNick, NickJob, Types
  <2>2. KnowsOwn(c)' /\ KnowsNick(c)'
    BY <2>1 DEF KnowsOwn, KnowsNick
  <2>3. QED
    BY <1>6, <2>1, <2>2
<1>12. CASE \E a \in Named : Authenticate(c, a)
  <2>1. /\ pc'[c] \in {"idle", "merge"} /\ (acct'[c] = acct[c] \/ (acct[c] = NULL /\ acct'[c] \in Named))
        /\ UNCHANGED <<phase, tasks, mNick>>
    BY <1>1, <1>3, <1>12 DEF Authenticate, Types
  <2>2. QED
    BY <1>1, <1>6, <1>7, <2>1 DEF Accounts
<1>13. CASE HandleUserTooLong(c) \/ AuthenticateFails(c) \/ (HandleQuit(c) /\ ~Disconnect(c))
  <2>1. /\ UNCHANGED <<pc, acct, tasks, mNick>> /\ phase[c] \in {"open", "closing"}
        /\ phase'[c] \in {"open", "closing"}
    BY <1>1, <1>13 DEF HandleUserTooLong, AuthenticateFails, HandleQuit, ForceDisconnect, MayHandle, Types
  <2>2. QED
    BY <1>3, <1>6, <1>7, <2>1
<1>14. QED
  BY <1>8, <1>9, <1>10, <1>11, <1>12, <1>13 DEF Begin

\* What m_account is for a handler that works on its own account.
LEMMA OwnAccount ==
    ASSUME Inv, NickedInv, NEW c \in Conns, acct[c] # NULL
    PROVE  /\ acct[c] \in Accounts /\ (acct[c] \in Named \/ acct[c] = c)
           /\ accNick[acct[c]] \in Nicks /\ accNick[acct[c]] # NULL
  BY RosterAssumption DEF Inv, Types, Registration, NickedInv, Accounts

\* So do the steps of a handler that only read.
LEMMA ContinueQuiet ==
    ASSUME Inv, NickInv, NEW c \in Conns,
           \/ HandleNickOld(c) \/ FinalizeNick(c) \/ FinalizeSync(c) \/ FinalizeAdd(c)
           \/ Merge(c) \/ MergeDrop(c)
    PROVE  NickInv'
<1> USE RosterAssumption DEF Goto, SetJob, Return, connVars, accountVars, cacheVars, causes, At
<1>1. c \in Procs /\ Types /\ NickedInv /\ KnowsNick(c) /\ KnowsOwn(c) /\ c \notin Named
  BY DEF Procs, Inv, NickInv, WriterInv
<1>2. \A d \in Conns : d # c =>
          /\ pc'[d] = pc[d] /\ job'[d] = job[d]
          /\ phase'[d] = phase[d] /\ tasks'[d] = tasks[d] /\ mNick'[d] = mNick[d]
          /\ acct'[d] = acct[d] /\ ready'[d] = ready[d]
  BY OthersKept DEF Continue
<1>3. /\ UNCHANGED <<accNick, ircNicks, contested, ready, acct, tasks>>
      /\ pc[c] \in {"nick_old", "fin_nick", "fin_sync", "fin_add", "merge", "merge_drop"}
  BY DEF HandleNickOld, FinalizeNick, FinalizeSync, FinalizeAdd, Merge, MergeDrop
<1>4. \A q \in Procs : q # c => pc'[q] = pc[q] /\ job'[q] = job[q]
  BY <1>1 DEF HandleNickOld, FinalizeNick, FinalizeSync, FinalizeAdd, Merge, MergeDrop, Types
<1>5. /\ phase[c] \in {"open", "closing"} /\ phase'[c] \in {"open", "closing"}
      /\ "NICK" \notin tasks[c] => mNick[c] # NULL
      /\ (acct[c] = c /\ ~ready[c]) => pc[c] \in {"fin_sync", "fin_add", "fin_cache"}
  <2>1. phase[c] \in {"open", "closing"}
    BY <1>3 DEF Inv, HandlerInv
  <2>2. phase'[c] \in {"open", "closing"}
    BY <1>1, <2>1 DEF HandleNickOld, FinalizeNick, FinalizeSync, FinalizeAdd, Merge, MergeDrop,
        ForceDisconnect, Types
  <2>3. QED
    BY <1>1, <2>1, <2>2 DEF NickedInv
<1>6. SUFFICES /\ pc'[c] \notin {"store", "dis_drop"}
               /\ "NICK" \notin tasks[c] => mNick'[c] # NULL
               /\ (acct[c] = c /\ ~ready[c]) => pc'[c] \in {"fin_sync", "fin_add", "fin_cache"}
               /\ KnowsOwn(c)' /\ KnowsNick(c)'
  BY <1>1, <1>2, <1>3, <1>4, <1>5, QuietStep
<1>7. ASSUME pc'[c] \in {"idle", "merge_drop"}, UNCHANGED mNick,
             pc[c] \notin {"fin_sync", "fin_add", "fin_cache"}
      PROVE  /\ pc'[c] \notin {"store", "dis_drop"}
             /\ "NICK" \notin tasks[c] => mNick'[c] # NULL
             /\ (acct[c] = c /\ ~ready[c]) => pc'[c] \in {"fin_sync", "fin_add", "fin_cache"}
             /\ KnowsOwn(c)' /\ KnowsNick(c)'
  BY <1>5, <1>7 DEF KnowsOwn, KnowsNick
<1>8. CASE HandleNickOld(c)
  <2>1. CASE pc'[c] = "idle"
    BY <1>7, <1>8, <2>1 DEF HandleNickOld
  <2>2. CASE pc'[c] # "idle"
    <3>1. /\ pc'[c] = "hook" /\ acct[c] # NULL /\ pc[c] = "nick_old" /\ UNCHANGED mNick
          /\ job'[c].acct = acct[c] /\ job'[c].old = accNick[acct[c]] /\ job'[c].new = job[c].new
      BY <1>1, <1>8, <2>2 DEF HandleNickOld, NickJob, Nick, Types
    <3>2. KnowsNick(c)'
      BY <1>1, <1>3, <3>1, OwnAccount DEF KnowsNick, Synced
    <3>3. KnowsOwn(c)'
      BY <3>1 DEF KnowsOwn
    <3>4. QED
      BY <1>5, <3>1, <3>2, <3>3
  <2>3. QED
    BY <2>1, <2>2
<1>9. CASE FinalizeNick(c)
  <2>1. pc[c] = "fin_nick" /\ acct[c] = NULL /\ UNCHANGED mNick /\ pc'[c] \in {"idle", "fin_make"}
    BY <1>1, <1>9 DEF FinalizeNick, Inv, HandlerInv, Types
  <2>2. pc'[c] = "fin_make" => ircNicks[Lower[mNick[c]]] = NULL
    BY <1>1, <1>9 DEF FinalizeNick, Types
  <2>3. KnowsOwn(c)' /\ KnowsNick(c)'
    BY <1>3, <2>1, <2>2 DEF KnowsOwn, KnowsNick, Free
  <2>4. QED
    BY <1>5, <2>1, <2>3 DEF Accounts
<1>10. CASE FinalizeSync(c)
  <2>1. /\ pc[c] = "fin_sync" /\ pc'[c] = "fin_add" /\ acct[c] # NULL
        /\ mNick'[c] = accNick[acct[c]]
    BY <1>1, <1>10 DEF FinalizeSync, Inv, HandlerInv, Types
  <2>2. KnowsOwn(c)' /\ KnowsNick(c)'
    BY <1>1, <1>3, <2>1 DEF KnowsOwn, KnowsNick, Free
  <2>3. QED
    BY <1>1, <2>1, <2>2, OwnAccount
<1>11. CASE FinalizeAdd(c)
  <2>1. /\ pc[c] = "fin_add" /\ pc'[c] = "fin_cache" /\ acct[c] # NULL
        /\ job'[c].new = accNick[acct[c]] /\ UNCHANGED mNick
    BY <1>1, <1>11 DEF FinalizeAdd, NickJob, Inv, HandlerInv, Types
  <2>2. KnowsOwn(c)' /\ KnowsNick(c)'
    BY <1>1, <1>3, <2>1, OwnAccount DEF KnowsOwn, KnowsNick, Free, Synced
  <2>3. QED
    BY <1>5, <2>1, <2>2
<1>12. CASE Merge(c) \/ MergeDrop(c)
  BY <1>1, <1>7, <1>12 DEF Merge, MergeDrop, Types
<1>13. QED
  BY <1>8, <1>9, <1>10, <1>11, <1>12

\* And those of setNick, with the call from Python.
LEMMA SetNickQuiet ==
    ASSUME Inv, NickInv, NEW p \in Procs,
           \/ SetNickHook(p) \/ SetNickLook(p) \/ SetNickTaken(p)
           \/ \E a \in Accounts, n \in Nicks : p \in Snakes /\ PySetNick(p, a, n)
    PROVE  NickInv'
<1> USE RosterAssumption DEF Goto, SetJob, Return, connVars, accountVars, cacheVars, causes, At
<1>1. Types /\ NickedInv /\ KnowsNick(p) /\ (p \in Conns => KnowsOwn(p))
  BY DEF Procs, Inv, NickInv, WriterInv
<1>2. UNCHANGED <<phase, tasks, mNick, acct, ready, accNick, ircNicks, contested>>
  BY DEF SetNickHook, SetNickLook, SetNickTaken, PySetNick
<1>3. /\ pc[p] \in {"hook", "look", "taken"} \/ (pc[p] = "idle" /\ p \notin Conns)
      /\ pc'[p] \in {"idle", "hook", "look", "taken", "write"}
  BY <1>1 DEF SetNickHook, SetNickLook, SetNickTaken, PySetNick, Types
<1>4. \A q \in Procs : q # p => pc'[q] = pc[q] /\ job'[q] = job[q]
  BY <1>1 DEF SetNickHook, SetNickLook, SetNickTaken, PySetNick, Types
<1>5. ASSUME p \in Conns
      PROVE  /\ (phase[p] # "new" /\ "NICK" \notin tasks[p]) => mNick[p] # NULL
             /\ ~(acct[p] = p /\ ~ready[p])
             /\ KnowsOwn(p)'
  BY <1>1, <1>3, <1>5 DEF NickedInv, KnowsOwn
<1>6. SUFFICES KnowsNick(p)'
  BY <1>2, <1>3, <1>4, <1>5, QuietStep
<1>7. \A a \in roster : Alive(a) /\ accNick[a] # NULL
  BY <1>1 DEF Inv, Types, RosterExact, NickedInv, Alive, Accounts
<1>8. CASE pc'[p] = "idle"
  BY <1>8 DEF KnowsNick
<1>9. CASE SetNickHook(p) /\ pc'[p] # "idle"
  <2>1. PICK n \in Nicks \cup {NULL} :
            /\ pc[p] = "hook" /\ pc'[p] = "look" /\ job[p].acct \in roster /\ n # NULL
            /\ job'[p].acct = job[p].acct /\ job'[p].old = job[p].old /\ job'[p].new = n
    <3>1. ~Return(p)
      BY <1>1, <1>9 DEF Types
    <3>2. PICK n \in (IF NickHook THEN Nicks \cup {NULL} ELSE {job[p].new}) :
            UsableNick(n) /\ job' = [job EXCEPT ![p] = NickJob(job[p].acct, job[p].old, n, FALSE)]
      BY <1>9, <3>1 DEF SetNickHook
    <3>3. /\ n \in Nicks \cup {NULL}
          /\ job'[p].acct = job[p].acct /\ job'[p].old = job[p].old /\ job'[p].new = n
      BY <1>1, <3>2, JobFields DEF NickJob, Types
    <3>4. pc[p] = "hook" /\ pc'[p] = "look" /\ job[p].acct \in roster
      BY <1>1, <1>9, <3>1 DEF SetNickHook, Types
    <3>5. QED
      BY <3>2, <3>3, <3>4 DEF UsableNick
  <2>2. job'[p].acct = job[p].acct /\ job'[p].old = job[p].old /\ job'[p].new = n
    BY <2>1
  <2>3. UNCHANGED Alive(job[p].acct)
    BY <1>2, <2>2 DEF Alive
  <2>4. QED
    BY <1>1, <1>2, <1>7, <2>1, <2>2, <2>3 DEF KnowsNick, Synced
<1>10. CASE SetNickLook(p)
  <2>1. /\ pc[p] = "look" /\ pc'[p] = "taken"
        /\ job'[p].acct = job[p].acct /\ job'[p].old = job[p].old /\ job'[p].new = job[p].new
        /\ job'[p].taken = (ircNicks[Lower[job[p].new]] # NULL)
    BY <1>1, <1>10 DEF SetNickLook, NickJob, Types
  <2>2. UNCHANGED Alive(job[p].acct)
    BY <1>2, <2>1 DEF Alive
  <2>3. QED
    BY <1>1, <1>2, <2>1, <2>2 DEF KnowsNick, Synced
<1>11. CASE SetNickTaken(p) /\ pc'[p] # "idle"
  <2>1. pc[p] = "taken" /\ pc'[p] = "write" /\ job'[p] = job[p] /\ ~TakenByOther(p)
    BY <1>1, <1>11 DEF SetNickTaken, Types
  <2>2. UNCHANGED Alive(job[p].acct)
    BY <1>2, <2>1 DEF Alive
  <2>3. QED
    BY <1>1, <1>2, <2>1, <2>2 DEF KnowsNick, Synced, Free, TakenByOther
<1>12. CASE \E a \in Accounts, n \in Nicks : p \in Snakes /\ PySetNick(p, a, n)
  <2>1. PICK a \in roster, n \in Nicks :
            pc' = [pc EXCEPT ![p] = "hook"] /\ job' = [job EXCEPT ![p] = NickJob(a, accNick[a], n, FALSE)]
    BY <1>12 DEF PySetNick
  <2>2. pc'[p] = "hook" /\ job'[p].acct = a /\ job'[p].old = accNick[a] /\ job'[p].new = n
    BY <1>1, <2>1 DEF NickJob, Types
  <2>3. a # NULL /\ n # NULL
    BY DEF Inv, Types
  <2>4. QED
    BY <1>2, <1>7, <2>1, <2>2, <2>3 DEF KnowsNick, Synced
<1>13. QED
  BY <1>8, <1>9, <1>10, <1>11, <1>12 DEF SetNickLook

\* What is contested are nicks.
LEMMA ContestNicks ==
    ASSUME Types, NEW p, Contest(p, {}) \/ \E n : Contest(p, Capitals(n))
    PROVE  contested \subseteq contested' /\ contested' \subseteq Nicks
  BY ContestType DEF Contest

\* A handler that writes an entry of irc_nicks, or an account's nick, leaves every other
\* handler with what it knew, or with contested nicks.
LEMMA OthersKnow ==
    ASSUME Inv, NickInv, NEW p \in Procs,
           Contest(p, {}) \/ \E n : Contest(p, Capitals(n)),
           \A n \in Nicks \ Concerns(p) : ircNicks'[n] = ircNicks[n],
           \A a \in Accounts : \/ accNick'[a] = accNick[a] /\ (Alive(a) => Alive(a)')
                               \/ {accNick[a], accNick'[a]} \subseteq Concerns(p),
           NEW q \in Procs, q # p, pc'[q] = pc[q], job'[q] = job[q],
           q \in Conns => acct'[q] = acct[q] /\ mNick'[q] = mNick[q]
    PROVE  KnowsNick(q)' /\ (q \in Conns => KnowsOwn(q)')
<1>1. Types /\ NickedInv /\ KnowsNick(q) /\ (q \in Conns => KnowsOwn(q))
  BY DEF Inv, NickInv, WriterInv
<1>2. contested \subseteq contested' /\ contested' \subseteq Nicks
  BY <1>1, ContestNicks
<1>3. pc[q] \in SetNickSteps => job[q].acct \in Accounts /\ accNick[job[q].acct] \in Concerns(q)
  BY <1>1, ConcernsSetNick
<1>4. (q \in Conns /\ pc[q] \in OwnSteps) => acct[q] \in Accounts /\ accNick[acct[q]] \in Concerns(q)
  BY <1>1, ConcernsOwn
<1>5. Concerns(q) \subseteq Nicks
  BY DEF Concerns
<1>6. CASE Concerns(p) \cap Concerns(q) = {}
  <2>1. \A n \in Concerns(q) : ircNicks'[n] = ircNicks[n]
    BY <1>5, <1>6
  <2>2. pc[q] \in SetNickSteps => /\ accNick'[job[q].acct] = accNick[job[q].acct]
                                  /\ Alive(job[q].acct) => Alive(job[q].acct)'
    BY <1>3, <1>6
  <2>3. (q \in Conns /\ pc[q] \in OwnSteps) => accNick'[acct[q]] = accNick[acct[q]]
    BY <1>4, <1>6
  <2>4. Undisturbed(q)
    BY <2>1, <2>2, <2>3 DEF Undisturbed
  <2>5. QED
    BY <1>2, <2>4, StillKnows
<1>7. CASE Concerns(p) \cap Concerns(q) # {}
  <2>1. Concerns(p) \subseteq contested' /\ Concerns(q) \subseteq contested'
    BY <1>7, ContestPair
  <2>2. pc[q] \in SetNickSteps => accNick'[job[q].acct] \in contested'
    BY <1>3, <2>1
  <2>3. (q \in Conns /\ pc[q] \in OwnSteps) => accNick'[acct[q]] \in contested'
    BY <1>4, <2>1
  <2>4. Disturbed(q)
    BY <2>1, <2>2, <2>3 DEF Disturbed
  <2>5. QED
    BY <1>2, <2>4, StillKnows
<1>8. QED
  BY <1>6, <1>7

\* The nick of an account that p is about to write is the account's entry of irc_nicks,
\* or others deal with it too: those that are moving it, or the handler that registers or
\* disconnects its connection.
LEMMA EntryOrContested ==
    ASSUME Inv, NickInv, NEW p \in Procs, NEW odd, Contest(p, odd),
           NEW a \in Accounts, accNick[a] \in Concerns(p), Alive(a), p \notin Moving(a),
           p = a => pc[a] \notin {"fin_sync", "fin_add", "fin_cache", "dis_drop"}
    PROVE  \/ Concerns(p) \subseteq contested'
           \/ Holding(a) /\ (accNick[a] \in contested' \/ ircNicks[accNick[a]] = a)
<1> USE RosterAssumption
<1>1. Types /\ NickedInv
  BY DEF Inv, NickInv
<1>2. ASSUME NEW q \in Procs, q # p, accNick[a] \in Concerns(q) PROVE Concerns(p) \subseteq contested'
  BY <1>2, ContestPair
<1>3. CASE Moving(a) # {}
  <2>1. PICK q \in Procs : pc[q] = "store" /\ job[q].acct = a
    BY <1>3 DEF Moving
  <2>2. accNick[a] \in Concerns(q)
    BY <1>1, <2>1, ConcernsSetNick DEF NickInv, WriterInv, SetNickSteps
  <2>3. q # p
    BY <2>1 DEF Moving
  <2>4. QED
    BY <1>2, <2>2, <2>3
<1>4. CASE Moving(a) = {} /\ Holding(a)
  BY <1>4, ContestGrows DEF NickInv, IndexInv
<1>5. CASE ~Holding(a)
  <2>1. a \in Conns /\ acct[a] = a /\ (~ready[a] \/ pc[a] = "dis_drop")
    BY <1>5 DEF Holding, Alive, Accounts
  <2>2. pc[a] \in {"fin_sync", "fin_add", "fin_cache", "dis_drop"}
    BY <1>1, <2>1 DEF NickedInv
  <2>3. accNick[a] \in Concerns(a) /\ a \in Procs /\ a # p
    BY <1>1, <2>1, <2>2, ConcernsOwn DEF NickInv, WriterInv, OwnSteps, Procs
  <2>4. QED
    BY <1>2, <2>3
<1>6. QED
  BY <1>3, <1>4, <1>5

\* The same for others that move an account whose nick p deals with.
LEMMA MovedContested ==
    ASSUME Inv, NickInv, NEW p \in Procs, NEW odd, Contest(p, odd),
           NEW a \in Accounts, accNick[a] \in Concerns(p), NEW q \in Moving(a), q # p
    PROVE  Concerns(p) \subseteq contested' /\ job[q].new \in contested'
<1>1. q \in Procs /\ pc[q] = "store" /\ job[q].acct = a /\ KnowsNick(q) /\ Types
  BY DEF Moving, NickInv, WriterInv, Inv
<1>2. accNick[a] \in Concerns(q) /\ job[q].new \in Concerns(q)
  BY <1>1, ConcernsSetNick DEF SetNickSteps
<1>3. QED
  BY <1>1, <1>2, ContestPair

\* A nick entered with capitals is contested, as it is spelled and as it is looked up.
LEMMA CapitalsContested ==
    ASSUME NEW p, NEW n \in Nicks, Contest(p, Capitals(n)), Lower[n] # n
    PROVE  n \in contested' /\ Lower[n] \in contested'
<1>1. n \in Capitals(n) /\ Lower[n] \in Capitals(n)
  BY RosterAssumption DEF Capitals
<1>2. QED
  BY <1>1, ContestGrows

\* The account a connection registers with is under no nick yet.
LEMMA FinalizeMakeNicks ==
    ASSUME Inv, NickInv, NEW c \in Conns, FinalizeMake(c)
    PROVE  NickInv'
<1> USE RosterAssumption
<1>1. Types /\ NickedInv /\ KnowsOwn(c) /\ c \in Procs /\ c \in Accounts /\ c \notin Named
  BY DEF Inv, NickInv, WriterInv, Procs, Accounts
<1>2. /\ pc[c] = "fin_make" /\ acct[c] = NULL /\ ~ready[c] /\ tasks[c] = {}
      /\ phase[c] \in {"open", "closing"} /\ accNick[c] = NULL /\ mNick[c] # NULL
  BY <1>1 DEF FinalizeMake, At, Inv, HandlerInv, NickedInv, FinSteps, Accounts
<1>3. /\ pc'[c] = "fin_sync" /\ acct'[c] = c /\ accNick'[c] = mNick[c]
      /\ \A q \in Procs : q # c => pc'[q] = pc[q]
      /\ \A d \in Conns : d # c => acct'[d] = acct[d]
      /\ \A a \in Accounts : a # c => accNick'[a] = accNick[a]
      /\ UNCHANGED <<job, ircNicks, contested, ready, phase, tasks, mNick>>
  BY <1>1 DEF FinalizeMake, Goto, causes, Types
<1>4. NickedInv'
  BY <1>1, <1>2, <1>3 DEF NickedInv, Accounts, Procs
<1>5. \A a \in Accounts : (Alive(a) => Alive(a)') /\ (a # c => (Alive(a)' <=> Alive(a)))
  BY <1>2, <1>3 DEF Alive, Accounts
<1>6. ASSUME NEW q \in Procs, q # c PROVE KnowsNick(q)' /\ (q \in Conns => KnowsOwn(q)')
  <2>1. KnowsNick(q)
    BY DEF NickInv, WriterInv
  <2>2. pc[q] \in SetNickSteps => job[q].acct \in Accounts /\ job[q].acct # c
    BY <1>1, <1>2, <2>1, ConcernsSetNick DEF KnowsNick, SetNickSteps
  <2>3. (q \in Conns /\ pc[q] \in OwnSteps) => acct[q] \in Accounts /\ acct[q] # c
    BY <1>1, <1>6, ConcernsOwn, OwnAccount DEF NickInv, WriterInv
  <2>4. Undisturbed(q)
    BY <1>3, <1>5, <2>2, <2>3 DEF Undisturbed
  <2>5. contested \subseteq contested' /\ contested' \subseteq Nicks
    BY <1>1, <1>3 DEF Types
  <2>6. QED
    BY <1>3, <1>6, <2>4, <2>5, StillKnows
<1>7. KnowsNick(c)' /\ KnowsOwn(c)'
  BY <1>1, <1>2, <1>3 DEF KnowsNick, KnowsOwn, Free
<1>8. IndexInv'
  <2>1. \A a \in Accounts : Moving(a)' = Moving(a)
    BY <1>2, <1>3 DEF Moving
  <2>2. ~Holding(c) /\ ~Holding(c)'
    BY <1>2, <1>3 DEF Holding
  <2>3. \A a \in Accounts : a # c => (Holding(a)' <=> Holding(a))
    BY <1>3, <1>5 DEF Holding, Procs
  <2>4. QED
    BY <1>3, <2>1, <2>2, <2>3 DEF NickInv, IndexInv
<1>9. QED
  BY <1>4, <1>6, <1>7, <1>8 DEF NickInv, WriterInv, Procs

\* setNick enters a nick that is free, or contested.
LEMMA SetNickWriteNicks ==
    ASSUME Inv, NickInv, NEW p \in Procs, SetNickWrite(p)
    PROVE  NickInv'
<1> USE RosterAssumption
<1>1. Types /\ NickedInv /\ KnowsNick(p) /\ (p \in Conns => KnowsOwn(p)) /\ pc[p] = "write"
  BY DEF Inv, NickInv, WriterInv, SetNickWrite, At
<1>2. PICK a, o, w, m : a = job[p].acct /\ o = job[p].old /\ w = job[p].new /\ m = Lower[w]
  OBVIOUS
<1>3. /\ a \in Accounts /\ o \in Nicks /\ w \in Nicks /\ m \in Nicks
      /\ {o, w, m, accNick[a]} \subseteq Concerns(p)
  BY <1>1, <1>2, ConcernsSetNick, JobFields DEF KnowsNick, SetNickSteps
<1>4. /\ Contest(p, Capitals(w)) /\ ircNicks' = [ircNicks EXCEPT ![o] = NULL, ![m] = a]
      /\ pc'[p] = "store" /\ \A q \in Procs : q # p => pc'[q] = pc[q]
      /\ UNCHANGED <<phase, tasks, mNick, acct, ready, accNick, job>>
  BY <1>1, <1>2 DEF SetNickWrite, RenamedIndex, Goto, connVars, accountVars, Types
<1>5. /\ ircNicks'[m] = a /\ (o # m => ircNicks'[o] = NULL)
      /\ \A n \in Nicks : n # o /\ n # m => ircNicks'[n] = ircNicks[n]
  BY <1>1, <1>3, <1>4 DEF Types
<1>6. contested \subseteq contested' /\ contested' \subseteq Nicks
  BY <1>1, <1>4, ContestNicks
<1>7. /\ o = accNick[a] \/ {o, accNick[a]} \subseteq contested
      /\ Alive(a) \/ {o, m} \subseteq contested
      /\ m \in contested \/ ircNicks[m] \in {NULL, a}
      /\ w # NULL /\ o # NULL /\ a # NULL /\ accNick[a] # NULL
  BY <1>1, <1>2 DEF KnowsNick, Synced, Free
<1>8. m # w => w \in contested' /\ m \in contested'
  BY <1>3, <1>2, <1>4, CapitalsContested
<1>9. \A b \in Accounts : (Alive(b)' <=> Alive(b)) /\ (Holding(b)' <=> Holding(b))
  BY <1>1, <1>4 DEF Alive, Holding, Accounts, Procs
<1>10. NickedInv'
  BY <1>1, <1>4 DEF NickedInv, Procs
<1>11. ASSUME NEW q \in Procs, q # p PROVE KnowsNick(q)' /\ (q \in Conns => KnowsOwn(q)')
  <2>1. \A n \in Nicks \ Concerns(p) : ircNicks'[n] = ircNicks[n]
    BY <1>3, <1>5
  <2>2. QED
    BY <1>4, <1>9, <1>11, <2>1, OthersKnow
<1>12. KnowsNick(p)' /\ (p \in Conns => KnowsOwn(p)')
  <2>1. Synced(o, a)'
    BY <1>4, <1>6, <1>7 DEF Synced
  <2>2. Alive(a)' \/ {o, m} \subseteq contested'
    BY <1>3, <1>6, <1>7, <1>9
  <2>3. ircNicks'[accNick[a]] # a \/ accNick[a] \in contested' \cup {w}
    BY <1>3, <1>5, <1>6, <1>7, <1>8
  <2>4. KnowsNick(p)'
    BY <1>2, <1>4, <1>5, <1>7, <1>8, <2>1, <2>2, <2>3 DEF KnowsNick
  <2>5. QED
    BY <1>4, <2>4 DEF KnowsOwn
<1>13. IndexInv'
  <2>1. /\ p \in Moving(a)'
        /\ \A b \in Accounts : /\ Moving(b) \subseteq Moving(b)'
                               /\ b # a => Moving(b)' = Moving(b)
    BY <1>1, <1>2, <1>4 DEF Moving
  <2>2. p \notin Moving(a)
    BY <1>1 DEF Moving
  <2>3. Alive(a) => \/ {o, w, m} \subseteq contested'
                    \/ Holding(a) /\ (accNick[a] \in contested' \/ ircNicks[accNick[a]] = a)
    BY <1>1, <1>3, <1>4, <2>2, EntryOrContested
  <2>4. ASSUME NEW b \in Accounts, Holding(b)
        PROVE  accNick[b] \in contested' \/ ircNicks'[accNick[b]] = b \/ Moving(b)' # {}
    <3>1. CASE b = a
      BY <2>1, <3>1
    <3>2. CASE b # a /\ ircNicks[accNick[b]] = b
      <4>1. accNick[b] = m => m \in contested'
        BY <1>3, <1>6, <1>7, <2>4, <3>2
      <4>2. accNick[b] = o => o \in contested'
        BY <1>3, <1>6, <1>7, <2>3, <2>4, <3>2
      <4>3. accNick[b] \in Nicks
        BY <1>1, <2>4 DEF Types, NickedInv, Holding, Alive, Accounts
      <4>4. QED
        BY <1>5, <3>2, <4>1, <4>2, <4>3
    <3>3. CASE b # a /\ ircNicks[accNick[b]] # b
      BY <1>6, <2>1, <2>4, <3>3 DEF NickInv, IndexInv
    <3>4. QED
      BY <3>1, <3>2, <3>3
  <2>5. ASSUME NEW b \in Accounts, NEW n \in Nicks \ contested', ircNicks'[n] = b
        PROVE  Holding(b) /\ (accNick[b] = n \/ \E q \in Moving(b)' : job[q].new = n)
    <3>1. CASE n = m
      <4>1. b = a /\ m = w
        BY <1>5, <1>8, <2>5, <3>1
      <4>2. Alive(a) /\ Holding(a)
        BY <1>3, <1>6, <1>7, <2>3, <2>5, <3>1
      <4>3. QED
        BY <1>2, <2>1, <3>1, <4>1, <4>2
    <3>2. CASE n # m
      <4>1. b # NULL
        OBVIOUS
      <4>2. n # o /\ ircNicks[n] = b
        BY <1>5, <2>5, <3>2, <4>1
      <4>3. Holding(b) /\ (accNick[b] = n \/ \E q \in Moving(b) : job[q].new = n)
        BY <1>6, <2>5, <4>2 DEF NickInv, IndexInv
      <4>4. QED
        BY <2>1, <4>3
    <3>3. QED
      BY <3>1, <3>2
  <2>6. \A b \in Accounts : Holding(b)' =>
            accNick'[b] \in contested' \/ ircNicks'[accNick'[b]] = b \/ Moving(b)' # {}
    BY <1>4, <1>9, <2>4
  <2>7. \A b \in Accounts : \A n \in Nicks \ contested' : ircNicks'[n] = b =>
            Holding(b)' /\ (accNick'[b] = n \/ \E q \in Moving(b)' : job'[q].new = n)
    BY <1>4, <1>9, <2>5
  <2>8. QED
    BY <2>6, <2>7 DEF IndexInv
<1>14. QED
  BY <1>10, <1>11, <1>12, <1>13 DEF NickInv, WriterInv, Procs

\* setNick leaves the account under the nick it has entered.
LEMMA SetNickStoreNicks ==
    ASSUME Inv, NickInv, NEW p \in Procs, SetNickStore(p)
    PROVE  NickInv'
<1> USE RosterAssumption
<1>1. Types /\ NickedInv /\ KnowsNick(p) /\ (p \in Conns => KnowsOwn(p)) /\ pc[p] = "store"
  BY DEF Inv, NickInv, WriterInv, SetNickStore, At
<1>2. PICK a, w : a = job[p].acct /\ w = job[p].new
  OBVIOUS
<1>3. a \in Accounts /\ w \in Nicks /\ {w, accNick[a]} \subseteq Concerns(p)
  BY <1>1, <1>2, ConcernsSetNick, JobFields DEF KnowsNick, SetNickSteps
<1>4. /\ Contest(p, {}) /\ pc'[p] = "idle"
      /\ accNick'[a] = w /\ \A b \in Accounts : b # a => accNick'[b] = accNick[b]
      /\ \A q \in Procs : q # p => pc'[q] = pc[q] /\ job'[q] = job[q]
      /\ UNCHANGED <<phase, tasks, mNick, acct, ready, ircNicks>>
  BY <1>1, <1>2, <1>3 DEF SetNickStore, Return, Goto, SetJob, connVars, cacheVars, Types
<1>5. contested \subseteq contested' /\ contested' \subseteq Nicks
  BY <1>1, <1>4, ContestNicks
<1>6. /\ w # NULL /\ accNick[a] # NULL
      /\ ircNicks[Lower[w]] = a \/ Lower[w] \in contested
      /\ Lower[w] = w \/ w \in contested
      /\ ircNicks[accNick[a]] # a \/ accNick[a] \in contested \cup {w}
  BY <1>1, <1>2 DEF KnowsNick
<1>7. \A b \in Accounts : (Alive(b)' <=> Alive(b)) /\ (Holding(b)' <=> Holding(b))
  BY <1>1, <1>4 DEF Alive, Holding, Accounts, Procs
<1>8. NickedInv'
  <2>1. \A b \in Accounts : accNick'[b] # NULL <=> accNick[b] # NULL
    BY <1>4, <1>6
  <2>2. QED
    BY <1>1, <1>4, <2>1 DEF NickedInv, Procs, Accounts
<1>9. ASSUME NEW q \in Procs, q # p PROVE KnowsNick(q)' /\ (q \in Conns => KnowsOwn(q)')
  <2>1. \A b \in Accounts : \/ accNick'[b] = accNick[b] /\ (Alive(b) => Alive(b)')
                            \/ {accNick[b], accNick'[b]} \subseteq Concerns(p)
    BY <1>3, <1>4, <1>7
  <2>2. QED
    BY <1>4, <1>9, <2>1, OthersKnow
<1>10. KnowsNick(p)' /\ (p \in Conns => KnowsOwn(p)')
  BY <1>4 DEF KnowsNick, KnowsOwn
<1>11. IndexInv'
  <2>1. \A b \in Accounts : \A q \in Moving(b) : q = p \/ (q \in Moving(b)' /\ job'[q].new = job[q].new)
    BY <1>4 DEF Moving
  <2>2. \A b \in Accounts : b # a => p \notin Moving(b)
    BY <1>2 DEF Moving
  <2>3. ASSUME NEW b \in Accounts, Holding(b)
        PROVE  accNick'[b] \in contested' \/ ircNicks[accNick'[b]] = b \/ Moving(b)' # {}
    <3>1. CASE b = a
      BY <1>4, <1>5, <1>6, <3>1
    <3>2. CASE b # a
      BY <1>4, <1>5, <2>1, <2>2, <2>3, <3>2 DEF NickInv, IndexInv
    <3>3. QED
      BY <3>1, <3>2
  <2>4. ASSUME NEW b \in Accounts, NEW n \in Nicks \ contested', ircNicks[n] = b
        PROVE  Holding(b) /\ (accNick'[b] = n \/ \E q \in Moving(b)' : job'[q].new = n)
    <3>1. Holding(b) /\ (accNick[b] = n \/ \E q \in Moving(b) : job[q].new = n)
      BY <1>5, <2>4 DEF NickInv, IndexInv
    <3>2. CASE b # a
      BY <1>4, <2>1, <2>2, <3>1, <3>2
    <3>3. CASE b = a /\ accNick[b] = n
      BY <1>4, <1>5, <1>6, <2>4, <3>1, <3>3
    <3>4. CASE b = a /\ \E q \in Moving(b) : job[q].new = n
      <4>1. PICK q \in Moving(a) : job[q].new = n
        BY <3>4
      <4>2. q = p
        BY <1>3, <1>4, <2>4, <4>1, MovedContested
      <4>3. QED
        BY <1>2, <1>4, <3>1, <3>4, <4>1, <4>2
    <3>5. QED
      BY <3>1, <3>2, <3>3, <3>4
  <2>5. \A b \in Accounts : Holding(b)' =>
            accNick'[b] \in contested' \/ ircNicks'[accNick'[b]] = b \/ Moving(b)' # {}
    BY <1>4, <1>7, <2>3
  <2>6. \A b \in Accounts : \A n \in Nicks \ contested' : ircNicks'[n] = b =>
            Holding(b)' /\ (accNick'[b] = n \/ \E q \in Moving(b)' : job'[q].new = n)
    BY <1>4, <1>7, <2>4
  <2>7. QED
    BY <2>5, <2>6 DEF IndexInv
<1>12. QED
  BY <1>8, <1>9, <1>10, <1>11 DEF NickInv, WriterInv, Procs

\* try_finalize_setup enters a nick that no other account is under, unless contested.
LEMMA FinalizeCacheFree ==
    ASSUME Inv, NickInv, NEW c \in Conns, FinalizeCache(c)
    PROVE  /\ job[c].new \in contested' \/ ircNicks[job[c].new] \in {NULL, acct[c]}
           /\ job[c].new = accNick[acct[c]] \/ {job[c].new, accNick[acct[c]]} \subseteq contested'
<1> USE RosterAssumption
<1>1. Types /\ NickedInv /\ KnowsOwn(c) /\ c \in Procs /\ pc[c] = "fin_cache" /\ acct[c] # NULL
  BY DEF Inv, HandlerInv, NickInv, WriterInv, FinalizeCache, At, Procs
<1>2. PICK a, k : a = acct[c] /\ k = job[c].new
  OBVIOUS
<1>3. /\ Contest(c, Capitals(k)) /\ contested \subseteq contested'
      /\ k \in Nicks /\ a \in Accounts /\ (a \in Named \/ a = c)
  BY <1>1, <1>2, OwnAccount, JobFields DEF FinalizeCache, Contest, KnowsOwn
<1>4. k = accNick[a] \/ {k, accNick[a]} \subseteq contested
  BY <1>1, <1>2 DEF KnowsOwn, Synced
<1>5. k \in Concerns(c)
  BY <1>1, <1>2, ConcernsOwn
<1>6. ASSUME k = accNick[a] PROVE k \in contested' \/ ircNicks[k] \in {NULL, a}
  <2>1. CASE a \in Named
    <3>1. Alive(a) /\ a # c /\ c \notin Moving(a)
      BY <1>1, <2>1 DEF Alive, Moving
    <3>2. QED
      BY <1>1, <1>3, <1>5, <1>6, <3>1, EntryOrContested
  <2>2. CASE a = c
    <3>1. Lower[k] # k \/ k \in contested \/ ircNicks[k] = NULL
      BY <1>1, <1>2, <1>6, <2>2 DEF KnowsOwn, Free
    <3>2. QED
      BY <1>3, <3>1, CapitalsContested
  <2>3. QED
    BY <1>3, <2>1, <2>2
<1>7. QED
  BY <1>2, <1>3, <1>4, <1>6

LEMMA FinalizeCacheNicks ==
    ASSUME Inv, NickInv, NEW c \in Conns, FinalizeCache(c)
    PROVE  NickInv'
<1> USE RosterAssumption
<1>1. /\ Types /\ NickedInv /\ KnowsOwn(c) /\ c \in Procs /\ pc[c] = "fin_cache" /\ acct[c] # NULL
      /\ phase[c] \in {"open", "closing"} /\ ~ready[c] /\ c \notin Named
  BY DEF Inv, HandlerInv, NickInv, WriterInv, FinalizeCache, At, Procs, FinSteps
<1>2. PICK a, k : a = acct[c] /\ k = job[c].new
  OBVIOUS
<1>3. k \in Nicks /\ a \in Accounts /\ (a \in Named \/ a = c) /\ k \in Concerns(c)
  BY <1>1, <1>2, OwnAccount, ConcernsOwn, JobFields DEF KnowsOwn
<1>4. /\ Contest(c, Capitals(k)) /\ ircNicks' = [ircNicks EXCEPT ![k] = a]
      /\ pc'[c] = "idle" /\ ready'[c] /\ \A d \in Conns : d # c => ready'[d] = ready[d]
      /\ \A q \in Procs : q # c => pc'[q] = pc[q] /\ job'[q] = job[q]
      /\ UNCHANGED <<phase, tasks, mNick, acct, accNick>>
  BY <1>1, <1>2 DEF FinalizeCache, Return, Goto, SetJob, accountVars, Types
<1>5. ircNicks'[k] = a /\ \A n \in Nicks : n # k => ircNicks'[n] = ircNicks[n]
  BY <1>1, <1>3, <1>4 DEF Types
<1>6. contested \subseteq contested' /\ contested' \subseteq Nicks
  BY <1>1, <1>4, ContestNicks
<1>7. /\ k \in contested' \/ ircNicks[k] \in {NULL, a}
      /\ k = accNick[a] \/ {k, accNick[a]} \subseteq contested'
  BY <1>2, FinalizeCacheFree
<1>8. \A b \in Accounts : /\ Alive(b)' <=> Alive(b)
                          /\ b # a => (Holding(b)' <=> Holding(b))
                          /\ Holding(b) => Holding(b)'
  <2>1. \A b \in Accounts : Alive(b)' <=> Alive(b)
    BY <1>4 DEF Alive
  <2>2. \A b \in Accounts : b \in Conns /\ b # c => (Holding(b)' <=> Holding(b))
    BY <1>4, <2>1 DEF Holding, Procs
  <2>3. \A b \in Accounts : b \in Named => (Holding(b)' <=> Holding(b))
    BY <2>1 DEF Holding
  <2>4. ~Holding(c) /\ (a # c => ~Holding(c)')
    BY <1>1, <1>2, <1>4 DEF Holding, Alive
  <2>5. QED
    BY <2>1, <2>2, <2>3, <2>4 DEF Accounts
<1>9. Holding(a)'
  BY <1>1, <1>2, <1>3, <1>4 DEF Holding, Alive
<1>10. NickedInv'
  BY <1>1, <1>4 DEF NickedInv, Procs
<1>11. ASSUME NEW q \in Procs, q # c PROVE KnowsNick(q)' /\ (q \in Conns => KnowsOwn(q)')
  <2>1. \A n \in Nicks \ Concerns(c) : ircNicks'[n] = ircNicks[n]
    BY <1>3, <1>5
  <2>2. QED
    BY <1>1, <1>4, <1>8, <1>11, <2>1, OthersKnow
<1>12. KnowsNick(c)' /\ KnowsOwn(c)'
  BY <1>4 DEF KnowsNick, KnowsOwn
<1>13. IndexInv'
  <2>1. \A b \in Accounts : Moving(b)' = Moving(b) /\ \A q \in Moving(b) : job'[q].new = job[q].new
    BY <1>1, <1>4 DEF Moving
  <2>2. \A b \in Accounts : Holding(b)' =>
            accNick'[b] \in contested' \/ ircNicks'[accNick'[b]] = b \/ Moving(b)' # {}
    <3>1. ASSUME NEW b \in Accounts, b # a, Holding(b), ircNicks[accNick[b]] = b
          PROVE  accNick[b] \in contested' \/ ircNicks'[accNick[b]] = b
      <4>1. accNick[b] \in Nicks
        BY <1>1, <3>1 DEF Types, NickedInv, Holding, Alive, Accounts
      <4>2. accNick[b] = k => k \in contested'
        BY <1>7, <3>1
      <4>3. QED
        BY <1>5, <3>1, <4>1, <4>2
    <3>2. accNick[a] \in contested' \/ ircNicks'[accNick[a]] = a
      BY <1>5, <1>7
    <3>3. ASSUME NEW b \in Accounts, b # a, Holding(b)
          PROVE  accNick[b] \in contested' \/ ircNicks'[accNick[b]] = b \/ Moving(b)' # {}
      BY <1>6, <2>1, <3>1, <3>3 DEF NickInv, IndexInv
    <3>4. QED
      BY <1>4, <1>8, <3>2, <3>3
  <2>3. ASSUME NEW b \in Accounts, NEW n \in Nicks \ contested', ircNicks'[n] = b
        PROVE  Holding(b)' /\ (accNick'[b] = n \/ \E q \in Moving(b)' : job'[q].new = n)
    <3>1. CASE n = k
      BY <1>4, <1>5, <1>7, <1>9, <2>3, <3>1
    <3>2. CASE n # k
      <4>1. ircNicks[n] = b
        BY <1>5, <2>3, <3>2
      <4>2. Holding(b) /\ (accNick[b] = n \/ \E q \in Moving(b) : job[q].new = n)
        BY <1>6, <2>3, <4>1 DEF NickInv, IndexInv
      <4>3. QED
        BY <1>4, <1>8, <2>1, <4>2
    <3>3. QED
      BY <3>1, <3>2
  <2>4. QED
    BY <2>2, <2>3 DEF IndexInv
<1>14. QED
  BY <1>10, <1>11, <1>12, <1>13 DEF NickInv, WriterInv, Procs

\* onConnectionDisconnected takes the entry out: the account's own, unless contested.
LEMMA DisconnectNickNicks ==
    ASSUME Inv, NickInv, NEW c \in Conns, DisconnectNick(c)
    PROVE  NickInv'
<1> USE RosterAssumption
<1>1. /\ Types /\ NickedInv /\ KnowsOwn(c) /\ c \in Procs /\ c \in Accounts /\ pc[c] = "dis_nick"
      /\ acct[c] = c /\ phase[c] \in {"open", "closing"} /\ c \notin Named
  BY DEF Inv, HandlerInv, NickInv, WriterInv, DisconnectNick, At, Procs, Accounts
<1>2. PICK k : k = job[c].old
  OBVIOUS
<1>3. k \in Nicks /\ k \in Concerns(c) /\ accNick[c] \in Concerns(c)
  BY <1>1, <1>2, ConcernsOwn, JobFields DEF KnowsOwn, OwnSteps
<1>4. /\ Contest(c, {}) /\ ircNicks' = [ircNicks EXCEPT ![k] = NULL]
      /\ pc'[c] = "dis_drop" /\ \A q \in Procs : q # c => pc'[q] = pc[q]
      /\ UNCHANGED <<phase, tasks, mNick, acct, ready, accNick, job>>
  BY <1>1, <1>2 DEF DisconnectNick, Goto, connVars, accountVars, Types
<1>5. ircNicks'[k] = NULL /\ \A n \in Nicks : n # k => ircNicks'[n] = ircNicks[n]
  BY <1>1, <1>3, <1>4 DEF Types
<1>6. contested \subseteq contested' /\ contested' \subseteq Nicks
  BY <1>1, <1>4, ContestNicks
<1>7. k = accNick[c] \/ {k, accNick[c]} \subseteq contested
  BY <1>1, <1>2 DEF KnowsOwn, Synced
<1>8. \A b \in Accounts : /\ Alive(b)' <=> Alive(b)
                          /\ b # c => (Holding(b)' <=> Holding(b))
  BY <1>1, <1>4 DEF Alive, Holding, Accounts, Procs
<1>9. ~Holding(c)' /\ Alive(c) /\ c \notin Moving(c)
  BY <1>1, <1>4 DEF Alive, Holding, Moving
<1>10. NickedInv'
  BY <1>1, <1>4 DEF NickedInv, Procs
<1>11. ASSUME NEW q \in Procs, q # c PROVE KnowsNick(q)' /\ (q \in Conns => KnowsOwn(q)')
  <2>1. \A n \in Nicks \ Concerns(c) : ircNicks'[n] = ircNicks[n]
    BY <1>3, <1>5
  <2>2. QED
    BY <1>1, <1>4, <1>8, <1>11, <2>1, OthersKnow
<1>12. KnowsNick(c)' /\ KnowsOwn(c)'
  BY <1>1, <1>2, <1>4, <1>6, <1>7, JobFields DEF KnowsNick, KnowsOwn, Synced
<1>13. IndexInv'
  <2>1. \A b \in Accounts : Moving(b)' = Moving(b)
    BY <1>1, <1>4 DEF Moving
  <2>2. k \in contested' \/ ircNicks[k] = c
    BY <1>1, <1>3, <1>4, <1>6, <1>7, <1>9, EntryOrContested
  <2>3. ASSUME NEW b \in Accounts, b # c, Holding(b)
        PROVE  accNick[b] \in contested' \/ ircNicks'[accNick[b]] = b \/ Moving(b)' # {}
    <3>1. accNick[b] \in Nicks
      BY <1>1, <2>3 DEF Types, NickedInv, Holding, Alive, Accounts
    <3>2. accNick[b] \in contested' \/ ircNicks[accNick[b]] = b \/ Moving(b)' # {}
      BY <1>6, <2>1, <2>3 DEF NickInv, IndexInv
    <3>3. QED
      BY <1>5, <2>2, <2>3, <3>1, <3>2
  <2>4. ASSUME NEW b \in Accounts, NEW n \in Nicks \ contested', ircNicks'[n] = b
        PROVE  Holding(b)' /\ (accNick'[b] = n \/ \E q \in Moving(b)' : job'[q].new = n)
    <3>1. n # k /\ ircNicks[n] = b
      BY <1>5, <2>4
    <3>2. Holding(b) /\ (accNick[b] = n \/ \E q \in Moving(b) : job[q].new = n)
      BY <1>6, <2>4, <3>1 DEF NickInv, IndexInv
    <3>3. CASE b # c
      BY <1>4, <1>8, <2>1, <3>2, <3>3
    <3>4. CASE b = c
      <4>1. accNick[c] # n
        BY <1>6, <1>7, <2>4, <3>1
      <4>2. PICK q \in Moving(c) : job[q].new = n
        BY <3>2, <3>4, <4>1
      <4>3. QED
        BY <1>1, <1>3, <1>4, <1>9, <2>4, <4>2, MovedContested
    <3>5. QED
      BY <3>3, <3>4
  <2>5. \A b \in Accounts : Holding(b)' =>
            accNick'[b] \in contested' \/ ircNicks'[accNick'[b]] = b \/ Moving(b)' # {}
    BY <1>4, <1>8, <1>9, <2>3
  <2>6. QED
    BY <2>4, <2>5 DEF IndexInv
<1>14. QED
  BY <1>10, <1>11, <1>12, <1>13 DEF NickInv, WriterInv, Procs

\* The account that leaves the caches is under no nick any more, unless contested.
LEMMA DisconnectDropNicks ==
    ASSUME Inv, NickInv, NEW c \in Conns, DisconnectDrop(c)
    PROVE  NickInv'
<1> USE RosterAssumption
<1>1. /\ Types /\ NickedInv /\ KnowsOwn(c) /\ c \in Procs /\ c \in Accounts /\ pc[c] = "dis_drop"
      /\ acct[c] = c /\ phase[c] \in {"open", "closing"} /\ c \notin Named
  BY DEF Inv, HandlerInv, NickInv, WriterInv, DisconnectDrop, At, Procs, Accounts
<1>2. accNick[c] \in Concerns(c)
  BY <1>1, ConcernsOwn DEF OwnSteps
<1>3. /\ Contest(c, {}) /\ pc'[c] = "idle" /\ phase'[c] = "gone"
      /\ \A q \in Procs : q # c => pc'[q] = pc[q] /\ job'[q] = job[q]
      /\ \A d \in Conns : d # c => phase'[d] = phase[d]
      /\ UNCHANGED <<tasks, mNick, acct, ready, accNick, ircNicks>>
  BY <1>1 DEF DisconnectDrop, Return, Goto, SetJob, accountVars, Types
<1>4. contested \subseteq contested' /\ contested' \subseteq Nicks
  BY <1>1, <1>3, ContestNicks
<1>5. \A b \in Accounts : b # c => (Alive(b)' <=> Alive(b)) /\ (Holding(b)' <=> Holding(b))
  BY <1>1, <1>3 DEF Alive, Holding, Accounts, Procs
<1>6. ~Holding(c) /\ ~Holding(c)'
  BY <1>1, <1>3 DEF Alive, Holding
<1>7. NickedInv'
  BY <1>1, <1>3 DEF NickedInv, Procs
<1>8. ASSUME NEW q \in Procs, q # c PROVE KnowsNick(q)' /\ (q \in Conns => KnowsOwn(q)')
  <2>1. \A b \in Accounts : \/ accNick'[b] = accNick[b] /\ (Alive(b) => Alive(b)')
                            \/ {accNick[b], accNick'[b]} \subseteq Concerns(c)
    BY <1>2, <1>3, <1>5
  <2>2. QED
    BY <1>1, <1>3, <1>8, <2>1, OthersKnow
<1>9. KnowsNick(c)' /\ KnowsOwn(c)'
  BY <1>3 DEF KnowsNick, KnowsOwn
<1>10. IndexInv'
  <2>1. \A b \in Accounts : Moving(b)' = Moving(b) /\ \A q \in Moving(b) : job'[q].new = job[q].new
    BY <1>1, <1>3 DEF Moving
  <2>2. QED
    BY <1>3, <1>4, <1>5, <1>6, <2>1 DEF NickInv, IndexInv
<1>11. QED
  BY <1>7, <1>8, <1>9, <1>10 DEF NickInv, WriterInv, Procs

\* At the start every named account is under its own nick, and nothing else is.
LEMMA InitNicks == Init => NickInv
<1> SUFFICES ASSUME Init PROVE NickInv
  OBVIOUS
<1> USE RosterAssumption DEF Init
<1>1. NickedInv
  BY DEF NickedInv, Accounts
<1>2. WriterInv
  BY DEF WriterInv, KnowsNick, KnowsOwn, Procs
<1>3. \A a \in Accounts : Moving(a) = {} /\ (Holding(a) <=> a \in Named)
  BY DEF Moving, Holding, Alive, Accounts, Procs
<1>4. \A a \in Named : DbNick[a] \in Nicks /\ ircNicks[DbNick[a]] = a
  <2>1. ASSUME NEW a \in Named PROVE DbNick[a] \in Nicks /\ ircNicks[DbNick[a]] = a
    <3>1. DbNick[a] \in Nicks
      OBVIOUS
    <3>2. \A b \in Named : DbNick[b] = DbNick[a] => b = a
      OBVIOUS
    <3>3. (CHOOSE b \in Named : DbNick[b] = DbNick[a]) = a
      BY <3>2
    <3>4. QED
      BY <3>1, <3>3 DEF StartupNicks
  <2>2. QED
    BY <2>1
<1>5. \A n \in Nicks : ircNicks[n] # NULL => ircNicks[n] \in Named /\ DbNick[ircNicks[n]] = n
  BY DEF StartupNicks
<1>6. IndexInv
  <2>1. \A a \in Accounts : Holding(a) => ircNicks[accNick[a]] = a
    BY <1>3, <1>4 DEF Accounts
  <2>2. \A a \in Accounts : \A n \in Nicks : ircNicks[n] = a => Holding(a) /\ accNick[a] = n
    BY <1>3, <1>5 DEF Accounts
  <2>3. QED
    BY <2>1, <2>2 DEF IndexInv
<1>7. QED
  BY <1>1, <1>2, <1>6 DEF NickInv

\* However the handlers of workers and Python threads interleave, irc_nicks and the
\* accounts' nicks agree but for contested nicks.
LEMMA NickInvariance == Spec => []NickInv
<1>1. Inv /\ NickInv /\ [Next]_vars => NickInv'
  <2> SUFFICES ASSUME Inv, NickInv, [Next]_vars PROVE NickInv'
    OBVIOUS
  <2>1. ASSUME NEW c \in Conns, Continue(c) PROVE NickInv'
    BY <2>1, ContinueQuiet, FinalizeMakeNicks, FinalizeCacheNicks, DisconnectNickNicks,
       DisconnectDropNicks DEF Continue
  <2>2. ASSUME NEW p \in Procs, SetNickStep(p) PROVE NickInv'
    BY <2>2, SetNickQuiet, SetNickWriteNicks, SetNickStoreNicks DEF SetNickStep
  <2>3. ASSUME NEW s \in Snakes, NEW call \in PyCalls, PySetNick(s, call[1], call[2])
        PROVE  NickInv'
    <3>1. call[1] \in Accounts /\ call[2] \in Nicks /\ s \in Procs
      BY RosterAssumption DEF Procs
    <3>2. QED
      BY <2>3, <3>1, SetNickQuiet
  <2>4. CASE UNCHANGED vars
    BY <2>4 DEF vars, connVars, accountVars, cacheVars, causes, NickInv, NickedInv, WriterInv,
      KnowsNick, KnowsOwn, Synced, Free, IndexInv, Holding, Alive, Moving
  <2>5. QED
    BY <2>1, <2>2, <2>3, <2>4, BeginNicks DEF Next
<1>2. QED
  BY <1>1, InitNicks, Invariance, PTL DEF Spec

\* Between two handlers irc_nicks is exactly the nicks in use, whatever workers and
\* Python threads did at the same time: only nicks that two handlers dealt with at
\* once, or that were entered with capitals, may be wrong.
THEOREM NicksIndexed == Spec => []NickIndexExact
<1>1. Inv /\ NickInv => NickIndexExact
  <2> SUFFICES ASSUME Inv, NickInv, Quiescent
               PROVE  /\ \A a \in roster : accNick[a] \in contested \/ ircNicks[accNick[a]] = a
                      /\ \A n \in Nicks \ contested : ircNicks[n] # NULL =>
                            /\ accNick[ircNicks[n]] = n
                            /\ \/ ircNicks[n] \in roster
                               \/ ircNicks[n] \in Conns /\ phase[ircNicks[n]] # "gone"
    BY DEF NickIndexExact
  <2> USE RosterAssumption
  <2>1. \A a \in Accounts : Moving(a) = {}
    BY DEF Quiescent, Moving
  <2>2. roster \subseteq Accounts /\ \A a \in roster : Holding(a)
    BY DEF Inv, Types, RosterExact, NickInv, NickedInv, Holding, Alive, Accounts, Quiescent, Procs
  <2>3. \A a \in roster : accNick[a] \in contested \/ ircNicks[accNick[a]] = a
    BY <2>1, <2>2 DEF NickInv, IndexInv
  <2>4. ASSUME NEW n \in Nicks \ contested, ircNicks[n] # NULL
        PROVE  /\ accNick[ircNicks[n]] = n
               /\ \/ ircNicks[n] \in roster
                  \/ ircNicks[n] \in Conns /\ phase[ircNicks[n]] # "gone"
    <3>1. ircNicks[n] \in Accounts
      BY <2>4 DEF Inv, Types
    <3>2. Holding(ircNicks[n]) /\ accNick[ircNicks[n]] = n
      BY <2>1, <2>4, <3>1 DEF NickInv, IndexInv
    <3>3. QED
      BY <3>1, <3>2 DEF Inv, RosterExact, Holding, Alive, Accounts
  <2>5. QED
    BY <2>3, <2>4
<1>2. QED
  BY <1>1, Invariance, NickInvariance, PTL

\* No step hands a nick from one account to another, unless two handlers dealt with it
\* at the same time or it was entered with capitals.
THEOREM NicksKept == Spec => NoNickTheft
<1>1. Inv /\ NickInv /\ [Next]_vars => [NickStays]_vars
  <2> SUFFICES ASSUME Inv, NickInv, Next PROVE NickStays
    OBVIOUS
  <2> USE RosterAssumption
  <2>1. ASSUME UNCHANGED ircNicks PROVE NickStays
    BY <2>1 DEF NickStays
  <2>2. ASSUME NEW c \in Conns, Begin(c) PROVE NickStays
    <3>1. CASE Disconnect(c)
      BY <2>1, <3>1 DEF Disconnect, cacheVars
    <3>2. QED
      BY <2>1, <2>2, <3>1 DEF Begin, Connect, CapEnd, HandleUser, HandleUserTooLong, HandleFirstNick,
        HandleNick, Authenticate, AuthenticateFails, HandleQuit, cacheVars
  <2>3. ASSUME NEW c \in Conns, Continue(c) PROVE NickStays
    <3>1. CASE FinalizeCache(c)
      <4>1. PICK k : k = job[c].new
        OBVIOUS
      <4>2. ircNicks' = [ircNicks EXCEPT ![k] = acct[c]]
        BY <3>1, <4>1 DEF FinalizeCache
      <4>3. k \in contested' \/ ircNicks[k] \in {NULL, acct[c]}
        BY <3>1, <4>1, FinalizeCacheFree
      <4>4. QED
        BY <4>2, <4>3 DEF NickStays, Inv, Types
    <3>2. CASE DisconnectNick(c)
      BY <3>2 DEF DisconnectNick, NickStays, Inv, Types
    <3>3. QED
      BY <2>1, <2>3, <3>1, <3>2 DEF Continue, HandleNickOld, FinalizeNick, FinalizeMake, FinalizeSync,
        FinalizeAdd, Merge, MergeDrop, DisconnectDrop, cacheVars
  <2>4. ASSUME NEW p \in Procs, SetNickStep(p) PROVE NickStays
    <3>1. CASE SetNickWrite(p)
      <4>1. PICK a, o, m : a = job[p].acct /\ o = job[p].old /\ m = Lower[job[p].new]
        OBVIOUS
      <4>2. ircNicks' = [ircNicks EXCEPT ![o] = NULL, ![m] = a] /\ contested \subseteq contested'
        BY <3>1, <4>1, ContestGrows DEF SetNickWrite, RenamedIndex
      <4>3. m \in contested \/ ircNicks[m] \in {NULL, a}
        BY <3>1, <4>1 DEF SetNickWrite, At, NickInv, WriterInv, KnowsNick, Free
      <4>4. QED
        BY <4>2, <4>3 DEF NickStays, Inv, Types
    <3>2. QED
      BY <2>1, <2>4, <3>1 DEF SetNickStep, SetNickHook, SetNickLook, SetNickTaken, SetNickStore, cacheVars
  <2>5. ASSUME NEW s \in Snakes, NEW call \in PyCalls, PySetNick(s, call[1], call[2])
        PROVE  NickStays
    BY <2>1, <2>5 DEF PySetNick, cacheVars
  <2>6. QED
    BY <2>2, <2>3, <2>4, <2>5 DEF Next
<1>2. QED
  BY <1>1, Invariance, NickInvariance, PTL DEF Spec, NoNickTheft
=============================================================================
