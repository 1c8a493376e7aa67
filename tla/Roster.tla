------------------------------- MODULE Roster -------------------------------
(***************************************************************************)
(* The identity core of the server: how a connection registers (CAP, NICK, *)
(* USER, SASL), which Account it speaks for, and the three process-wide    *)
(* tables of Ctx that record it: the account caches, irc_nicks, and every  *)
(* Account's list of connections.                                          *)
(*                                                                         *)
(* A connection lives on one worker thread, which runs one handler at a    *)
(* time; handlers of different workers interleave.  One action is one      *)
(* critical section: the part of a handler between two acquisitions of     *)
(* Ctx::mtx_cache or of an account's mtx_lock.  pc says where a running    *)
(* handler stands and job carries its local variables.  A command that is  *)
(* refused with a numeric reply changes nothing and is not an action.      *)
(***************************************************************************)
EXTENDS Naturals, FiniteSets

CONSTANTS
    Conns,      \* client_connection objects that ever exist
    Worker,     \* the worker thread each connection is pinned to
    Snakes,     \* Python threads
    PyCalls,    \* the calls <<account, nick>> of Account.set_nick they make
    Named,      \* accounts loaded from the database (name non-empty)
    DbNick,     \* the nick a named account starts with: its name
    Nicks,      \* spellings of nicks
    Lower,      \* QByteArray::toLower on Nicks
    NickHook,   \* is a Python handler for NICK_CHANGE registered?
    NULL

\* Account::create() gives every connection that registers without SASL an
\* account object of its own: it is named after the connection.
Accounts == Conns \cup Named

Procs == Conns \cup Snakes

ASSUME RosterAssumption ==
    /\ Conns \cap Named = {}
    /\ Conns \cap Snakes = {}
    /\ NULL \notin Accounts \cup Nicks
    /\ DbNick \in [Named -> Nicks]
    /\ \A a, b \in Named : DbNick[a] = DbNick[b] => a = b
    /\ Lower \in [Nicks -> Nicks]
    /\ \A n \in Nicks : Lower[Lower[n]] = Lower[n]
    /\ NickHook \in BOOLEAN
    /\ PyCalls \subseteq Accounts \X Nicks

VARIABLES
    \* one client_connection
    phase,      \* "new", "open", "closing" (forceDisconnect called) or "gone" (freed)
    tasks,      \* setup_tasks
    mNick,      \* m_nick
    acct,       \* m_account
    loggedIn,   \* logged_in
    ready,      \* is_ready
    \* one Account
    accNick,    \* m_nick
    conns,      \* connections
    \* Ctx
    roster,     \* accounts, accounts_lookup_uuid and accounts_lookup_name
    ircNicks,   \* irc_nicks
    \* threads
    pc, job,
    crashed,    \* the process died: m_account was null, or the connection freed
    \* history: which accounts and nicks two threads got hold of at once
    raced,      \* accounts whose list changed while a connection appended to it
    contested   \* nicks two handlers dealt with at once, or with capitals entered

connVars == <<phase, tasks, mNick, acct, loggedIn, ready>>
accountVars == <<accNick, conns>>
cacheVars == <<roster, ircNicks>>
causes == <<raced, contested>>
vars == <<connVars, accountVars, cacheVars, pc, job, crashed, causes>>

SetupTasks == {"CAP_EXCHANGE", "NICK", "USER"}

Steps == {"idle",
          "nick_old",                                  \* handleNICK
          "hook", "look", "taken", "write", "store",   \* Account::setNick
          "fin_nick", "fin_make", "fin_sync", "fin_add", "fin_cache",
          "merge", "merge_drop",                       \* Account::merge
          "dis_nick", "dis_drop"}                      \* onConnectionDisconnected

\* The local variables of a handler: the account it works for, the old and the
\* new nick, what irc_nick_get returned, and the connection list it appends to.
Job == [acct  : Accounts \cup {NULL},
        old   : Nicks \cup {NULL},
        new   : Nicks \cup {NULL},
        taken : BOOLEAN,
        snap  : SUBSET Conns]

NickJob(a, old, new, taken) ==
    [acct |-> a, old |-> old, new |-> new, taken |-> taken, snap |-> {}]

ListJob(snap) ==
    [acct |-> NULL, old |-> NULL, new |-> NULL, taken |-> FALSE, snap |-> snap]

NoJob == ListJob({})

\* From its look-up on, setNick has an account and a nick, whatever the NICK_CHANGE
\* handler put into the event.
EventsUsable ==
    \A p \in Procs :
        pc[p] \in {"look", "taken", "write", "store"} =>
            job[p].acct # NULL /\ job[p].new # NULL

Types ==
    /\ phase \in [Conns -> {"new", "open", "closing", "gone"}]
    /\ tasks \in [Conns -> SUBSET SetupTasks]
    /\ mNick \in [Conns -> Nicks \cup {NULL}]
    /\ acct \in [Conns -> Accounts \cup {NULL}]
    /\ loggedIn \in [Conns -> BOOLEAN]
    /\ ready \in [Conns -> BOOLEAN]
    /\ accNick \in [Accounts -> Nicks \cup {NULL}]
    /\ conns \in [Accounts -> SUBSET Conns]
    /\ roster \in SUBSET Accounts
    /\ ircNicks \in [Nicks -> Accounts \cup {NULL}]
    /\ pc \in [Procs -> Steps]
    /\ job \in [Procs -> Job]
    /\ crashed \in BOOLEAN
    /\ raced \in SUBSET Accounts
    /\ contested \in SUBSET Nicks

\* Every variable of the identity model keeps its type: connections, account
\* lists, caches and the handlers' local variables, those of setNick included.
TypeOK == Types /\ EventsUsable

\* What Ctx's startup leaves behind: Account::create_from_db has cached every
\* account of the database and entered its nick, as spelled, into irc_nicks.
StartupNicks ==
    [n \in Nicks |->
        IF \E a \in Named : DbNick[a] = n
        THEN CHOOSE a \in Named : DbNick[a] = n
        ELSE NULL]

Init ==
    /\ phase = [c \in Conns |-> "new"]
    /\ tasks = [c \in Conns |-> {}]
    /\ mNick = [c \in Conns |-> NULL]
    /\ acct = [c \in Conns |-> NULL]
    /\ loggedIn = [c \in Conns |-> FALSE]
    /\ ready = [c \in Conns |-> FALSE]
    /\ accNick = [a \in Accounts |-> IF a \in Named THEN DbNick[a] ELSE NULL]
    /\ conns = [a \in Accounts |-> {}]
    /\ roster = Named
    /\ ircNicks = StartupNicks
    /\ pc = [p \in Procs |-> "idle"]
    /\ job = [p \in Procs |-> NoJob]
    /\ crashed = FALSE
    /\ raced = {}
    /\ contested = {}

-----------------------------------------------------------------------------
\* Threads

\* The worker of c is between two events of its loop.
WorkerIdle(c) == \A d \in Conns : Worker[d] = Worker[c] => pc[d] = "idle"

\* A line of c can be handled.  forceDisconnect() only asks the socket to close:
\* lines already in m_buffer are still parsed, so "closing" is no obstacle.
MayHandle(c) ==
    /\ ~crashed
    /\ phase[c] \in {"open", "closing"}
    /\ WorkerIdle(c)

At(p, step) == ~crashed /\ pc[p] = step

Goto(p, step) == pc' = [pc EXCEPT ![p] = step]

SetJob(p, locals) == job' = [job EXCEPT ![p] = locals]

\* The handler returns.
Return(p) ==
    /\ Goto(p, "idle")
    /\ SetJob(p, NoJob)

\* Mutant of ForceDisconnect: the error reply without the disconnect.
ReplyOnly(c) == UNCHANGED phase

\* An error reply precedes every call but the one of QUIT, so that the socket has
\* something to write and closes later.
ForceDisconnect(c) == phase' = [phase EXCEPT ![c] = "closing"]

\* client_connection::nick(), with NULL for "*"
Nick(c) == IF acct[c] # NULL THEN accNick[acct[c]] ELSE mNick[c]

IsLoggedIn(a) == a \in Named

\* Mutant of AccountRemoveCache: the entry is forgotten.
AccountKept(a) == UNCHANGED roster

\* Ctx::account_remove_cache
AccountRemoveCache(a) == roster' = roster \ {a}

\* Mutant of FinalizeStep: a task still pending is overlooked.
FinalizeEarly(c, left) ==
    IF ready[c] \/ "NICK" \in left THEN "idle"
    ELSE IF acct[c] = NULL THEN "fin_nick" ELSE "fin_sync"

\* Where try_finalize_setup() takes c once the tasks left are `left`.  Nothing
\* ever sets the server's m_password, so the password check lets everyone pass.
FinalizeStep(c, left) ==
    IF ready[c] \/ left # {} THEN "idle"
    ELSE IF acct[c] = NULL THEN "fin_nick" ELSE "fin_sync"

\* History: the nicks the handler that p runs reads, checks or is about to write.
Concerns(p) ==
    {n \in Nicks :
        \/ /\ pc[p] \in {"hook", "look", "taken", "write", "store"}
           /\ \/ n \in {job[p].old, job[p].new, accNick[job[p].acct]}
              \/ job[p].new # NULL /\ n = Lower[job[p].new]
        \/ /\ pc[p] \in {"fin_nick", "fin_make"}
           /\ n \in {mNick[p], Lower[mNick[p]]}
        \/ /\ pc[p] \in {"fin_sync", "fin_add", "fin_cache", "dis_nick", "dis_drop"}
           /\ n \in {job[p].old, job[p].new, accNick[acct[p]]}}

\* Those whose handlers deal with one of the nicks p deals with.
Rivals(p) == {q \in Procs : q # p /\ Concerns(q) \cap Concerns(p) # {}}

\* Nicks that are not looked up as they are entered.
Capitals(n) == {m \in Nicks : m \in {n, Lower[n]} /\ Lower[n] # n}

\* p writes an entry, or a nick, while others deal with it.
Contest(p, odd) ==
    contested' = contested \cup odd \cup UNION {Concerns(p) \cup Concerns(q) : q \in Rivals(p)}

-----------------------------------------------------------------------------
\* Connecting and registering

Connect(c) ==
    /\ ~crashed
    /\ phase[c] = "new"
    /\ WorkerIdle(c)
    /\ phase' = [phase EXCEPT ![c] = "open"]
    /\ tasks' = [tasks EXCEPT ![c] = SetupTasks]
    /\ UNCHANGED <<mNick, acct, loggedIn, ready, accountVars, cacheVars, pc, job, crashed, causes>>

CapEnd(c) ==
    /\ MayHandle(c)
    /\ "CAP_EXCHANGE" \in tasks[c]
    /\ tasks' = [tasks EXCEPT ![c] = @ \ {"CAP_EXCHANGE"}]
    /\ Goto(c, FinalizeStep(c, tasks[c] \ {"CAP_EXCHANGE"}))
    /\ UNCHANGED <<phase, mNick, acct, loggedIn, ready, accountVars, cacheVars, job, crashed, causes>>

HandleUser(c) ==
    /\ MayHandle(c)
    /\ "USER" \in tasks[c]
    /\ tasks' = [tasks EXCEPT ![c] = @ \ {"USER"}]
    /\ Goto(c, FinalizeStep(c, tasks[c] \ {"USER"}))
    /\ UNCHANGED <<phase, mNick, acct, loggedIn, ready, accountVars, cacheVars, job, crashed, causes>>

\* A user name of more than 16 bytes: the task stays pending.
HandleUserTooLong(c) ==
    /\ MayHandle(c)
    /\ "USER" \in tasks[c]
    /\ ForceDisconnect(c)
    /\ UNCHANGED <<tasks, mNick, acct, loggedIn, ready, accountVars, cacheVars, pc, job, crashed, causes>>

\* handleNICK up to the end of registration: the first NICK of a connection.
HandleFirstNick(c, n) ==
    /\ MayHandle(c)
    /\ acct[c] # NULL => ircNicks[Lower[n]] = NULL
    /\ "NICK" \in tasks[c]
    /\ mNick' = [mNick EXCEPT ![c] = n]
    /\ tasks' = [tasks EXCEPT ![c] = @ \ {"NICK"}]
    /\ Goto(c, FinalizeStep(c, tasks[c] \ {"NICK"}))
    /\ UNCHANGED <<phase, acct, loggedIn, ready, accountVars, cacheVars, job, crashed, causes>>

\* handleNICK with no task pending: the nick is free, the change goes ahead.
HandleNick(c, n) ==
    /\ MayHandle(c)
    /\ acct[c] # NULL => ircNicks[Lower[n]] = NULL
    /\ tasks[c] = {}
    /\ Goto(c, "nick_old")
    /\ SetJob(c, NickJob(NULL, NULL, n, FALSE))
    /\ UNCHANGED <<connVars, accountVars, cacheVars, crashed, causes>>

\* "past connect bootstrap at this point": m_account is dereferenced.
HandleNickOld(c) ==
    /\ At(c, "nick_old")
    /\ \/ /\ job[c].new = Nick(c)
          /\ Return(c)
          /\ UNCHANGED crashed
       \/ /\ job[c].new # Nick(c)
          /\ acct[c] # NULL
          /\ SetJob(c, NickJob(acct[c], Nick(c), job[c].new, FALSE))
          /\ Goto(c, "hook")
          /\ UNCHANGED crashed
       \/ /\ job[c].new # Nick(c)
          /\ acct[c] = NULL
          /\ crashed' = TRUE
          /\ Return(c)
    /\ UNCHANGED <<connVars, accountVars, cacheVars, causes>>

\* The Python binding Account::setNick(QByteArray)
PySetNick(s, a, n) ==
    /\ At(s, "idle")
    /\ a \in roster
    /\ SetJob(s, NickJob(a, accNick[a], n, FALSE))
    /\ Goto(s, "hook")
    /\ UNCHANGED <<connVars, accountVars, cacheVars, crashed, causes>>

-----------------------------------------------------------------------------
\* Account::setNick(event)

\* Mutant of UsableNick: the check is missing.
AnyNick(n) == TRUE

\* ! event->new_nick.isEmpty()
UsableNick(n) == n # NULL

\* The NICK_CHANGE handler may cancel, or put another nick, or none, into the event;
\* then get_by_uid(m_uid) finds the account, or the change fails.
SetNickHook(p) ==
    /\ At(p, "hook")
    /\ \/ /\ job[p].acct \in roster
          /\ \E n \in (IF NickHook THEN Nicks \cup {NULL} ELSE {job[p].new}) :
                /\ UsableNick(n)
                /\ SetJob(p, NickJob(job[p].acct, job[p].old, n, FALSE))
          /\ Goto(p, "look")
       \/ /\ NickHook \/ job[p].acct \notin roster
          /\ Return(p)
    /\ UNCHANGED <<connVars, accountVars, cacheVars, crashed, causes>>

SetNickLook(p) ==
    /\ At(p, "look")
    /\ SetJob(p, NickJob(job[p].acct, job[p].old, job[p].new,
                         ircNicks[Lower[job[p].new]] # NULL))
    /\ Goto(p, "taken")
    /\ UNCHANGED <<connVars, accountVars, cacheVars, crashed, causes>>

\* Mutant of TakenByOther: the check is missing.
NeverTaken(p) == FALSE

TakenByOther(p) == job[p].taken /\ ircNicks[Lower[job[p].new]] # job[p].acct

SetNickTaken(p) ==
    /\ At(p, "taken")
    /\ IF TakenByOther(p)
       THEN Return(p)
       ELSE Goto(p, "write") /\ UNCHANGED job
    /\ UNCHANGED <<connVars, accountVars, cacheVars, crashed, causes>>

\* Mutant of RenamedIndex: the old nick stays behind.
OldNickKept(a, old, new) == [ircNicks EXCEPT ![Lower[new]] = a]

RenamedIndex(a, old, new) == [ircNicks EXCEPT ![old] = NULL, ![Lower[new]] = a]

SetNickWrite(p) ==
    /\ At(p, "write")
    /\ ircNicks' = RenamedIndex(job[p].acct, job[p].old, job[p].new)
    /\ Goto(p, "store")
    /\ Contest(p, Capitals(job[p].new))
    /\ UNCHANGED <<connVars, accountVars, roster, job, crashed, raced>>

SetNickStore(p) ==
    /\ At(p, "store")
    /\ accNick' = [accNick EXCEPT ![job[p].acct] = job[p].new]
    /\ Return(p)
    /\ Contest(p, {})
    /\ UNCHANGED <<connVars, conns, cacheVars, crashed, raced>>

-----------------------------------------------------------------------------
\* try_finalize_setup

\* Without SASL the nick must be free; if not, 433 and forceDisconnect().
FinalizeNick(c) ==
    /\ At(c, "fin_nick")
    /\ \/ /\ ircNicks[Lower[mNick[c]]] = NULL
          /\ Goto(c, "fin_make")
          /\ UNCHANGED phase
       \/ /\ ircNicks[Lower[mNick[c]]] # NULL
          /\ Goto(c, "idle")
          /\ ForceDisconnect(c)
    /\ UNCHANGED <<tasks, mNick, acct, loggedIn, ready, accountVars, cacheVars, job, crashed, causes>>

\* Account::create, setNickByForce, account_insert_cache
FinalizeMake(c) ==
    /\ At(c, "fin_make")
    /\ acct' = [acct EXCEPT ![c] = c]
    /\ accNick' = [accNick EXCEPT ![c] = mNick[c]]
    /\ roster' = roster \cup {c}
    /\ Goto(c, "fin_sync")
    /\ UNCHANGED <<phase, tasks, mNick, loggedIn, ready, conns, ircNicks, job, crashed, causes>>

\* "sync nick (account has precedence)"; add_connection starts to append.
FinalizeSync(c) ==
    /\ At(c, "fin_sync")
    /\ mNick' = [mNick EXCEPT ![c] = accNick[acct[c]]]
    /\ SetJob(c, ListJob(conns[acct[c]]))
    /\ Goto(c, "fin_add")
    /\ UNCHANGED <<phase, tasks, acct, loggedIn, ready, accountVars, cacheVars, crashed, causes>>

\* add_connection takes no lock.  If the list changed since the append began,
\* either change may be lost.
AppendOutcomes(c, now, snap) ==
    IF now = snap THEN {now \cup {c}}
    ELSE {now \cup {c}, snap \cup {c}, now}

FinalizeAdd(c) ==
    /\ At(c, "fin_add")
    /\ \E list \in AppendOutcomes(c, conns[acct[c]], job[c].snap) :
          conns' = [conns EXCEPT ![acct[c]] = list]
    /\ SetJob(c, NickJob(NULL, NULL, accNick[acct[c]], FALSE))
    /\ raced' = raced \cup {a \in {acct[c]} : conns[a] # job[c].snap}
    /\ Goto(c, "fin_cache")
    /\ UNCHANGED <<connVars, accNick, cacheVars, crashed, contested>>

\* irc_nicks_insert_cache(nick(), m_account), the welcome, is_ready.
FinalizeCache(c) ==
    /\ At(c, "fin_cache")
    /\ ircNicks' = [ircNicks EXCEPT ![job[c].new] = acct[c]]
    /\ ready' = [ready EXCEPT ![c] = TRUE]
    /\ Return(c)
    /\ Contest(c, Capitals(job[c].new))
    /\ UNCHANGED <<phase, tasks, mNick, acct, loggedIn, accountVars, roster, crashed, raced>>

-----------------------------------------------------------------------------
\* handleAUTHENTICATE and Account::merge

\* The password of `a` is accepted by verifyPassword.  logged_in is set after the
\* merge, but by the same handler, and no other thread reads it.
Authenticate(c, a) ==
    /\ MayHandle(c)
    /\ a \in roster
    /\ loggedIn' = [loggedIn EXCEPT ![c] = TRUE]
    /\ \/ /\ acct[c] = NULL
          /\ acct' = [acct EXCEPT ![c] = a]
          /\ UNCHANGED <<pc, job>>
       \/ /\ acct[c] # NULL
          /\ SetJob(c, NickJob(a, NULL, NULL, FALSE))
          /\ Goto(c, "merge")
          /\ UNCHANGED acct
    /\ UNCHANGED <<phase, tasks, mNick, ready, accountVars, cacheVars, crashed, causes>>

\* Unknown user, or verifyPassword cancelled.
AuthenticateFails(c) ==
    /\ MayHandle(c)
    /\ ForceDisconnect(c)
    /\ UNCHANGED <<tasks, mNick, acct, loggedIn, ready, accountVars, cacheVars, pc, job, crashed, causes>>

\* account->merge(m_account): m_account itself is not reassigned.
Merge(c) ==
    /\ At(c, "merge")
    /\ \/ /\ IsLoggedIn(acct[c])
          /\ Return(c)
          /\ UNCHANGED conns
       \/ /\ ~IsLoggedIn(acct[c])
          /\ conns' = [conns EXCEPT ![job[c].acct] = @ \cup conns[acct[c]],
                                    ![acct[c]] = {}]
          /\ Goto(c, "merge_drop")
          /\ UNCHANGED job
    /\ UNCHANGED <<connVars, accNick, cacheVars, crashed, causes>>

MergeDrop(c) ==
    /\ At(c, "merge_drop")
    /\ AccountRemoveCache(acct[c])
    /\ Return(c)
    /\ UNCHANGED <<connVars, accountVars, ircNicks, crashed, causes>>

-----------------------------------------------------------------------------
\* Leaving

\* Mutant of WithoutConnection: connections.removeAll(conn) is missing.
ConnectionKept(a, c) == conns

WithoutConnection(a, c) == [conns EXCEPT ![a] = @ \ {c}]

\* onSocketDisconnected; the worker then frees the connection.
Disconnect(c) ==
    /\ MayHandle(c)
    /\ \/ /\ acct[c] = NULL
          /\ phase' = [phase EXCEPT ![c] = "gone"]
          /\ UNCHANGED <<conns, pc, job>>
       \/ /\ acct[c] # NULL
          /\ conns' = WithoutConnection(acct[c], c)
          /\ IF IsLoggedIn(acct[c])
             THEN /\ phase' = [phase EXCEPT ![c] = "gone"]
                  /\ UNCHANGED <<pc, job>>
             ELSE /\ SetJob(c, NickJob(NULL, Nick(c), NULL, FALSE))
                  /\ Goto(c, "dis_nick")
                  /\ UNCHANGED phase
    /\ UNCHANGED <<tasks, mNick, acct, loggedIn, ready, accNick, cacheVars, crashed, causes>>

\* With earlier replies still unsent, disconnectFromHost() lets them out first and
\* disconnected() comes later.  QUIT itself replies nothing: when nothing is left to
\* write, the signal comes inside the call, the worker frees the connection, and
\* parseIncoming() and onReadyRead() go on with the freed object, unharmed or not.
HandleQuit(c) ==
    \/ /\ MayHandle(c)
       /\ ForceDisconnect(c)
       /\ UNCHANGED <<tasks, mNick, acct, loggedIn, ready, accountVars, cacheVars, pc, job, crashed, causes>>
    \/ Disconnect(c)
    \/ /\ MayHandle(c)
       /\ crashed' = TRUE
       /\ UNCHANGED <<connVars, accountVars, cacheVars, pc, job, causes>>

\* irc_nicks_remove_cache(nick_to_delete), the nick as spelled
DisconnectNick(c) ==
    /\ At(c, "dis_nick")
    /\ ircNicks' = [ircNicks EXCEPT ![job[c].old] = NULL]
    /\ Goto(c, "dis_drop")
    /\ Contest(c, {})
    /\ UNCHANGED <<connVars, accountVars, roster, job, crashed, raced>>

\* get_by_uid and account_remove_cache
DisconnectDrop(c) ==
    /\ At(c, "dis_drop")
    /\ AccountRemoveCache(acct[c])
    /\ phase' = [phase EXCEPT ![c] = "gone"]
    /\ Return(c)
    /\ Contest(c, {})
    /\ UNCHANGED <<tasks, mNick, acct, loggedIn, ready, accountVars, ircNicks, crashed, raced>>

-----------------------------------------------------------------------------
SetNickStep(p) ==
    \/ SetNickHook(p) \/ SetNickLook(p) \/ SetNickTaken(p)
    \/ SetNickWrite(p) \/ SetNickStore(p)

\* A handler that has begun runs on.
Continue(c) ==
    \/ HandleNickOld(c)
    \/ FinalizeNick(c) \/ FinalizeMake(c) \/ FinalizeSync(c)
    \/ FinalizeAdd(c) \/ FinalizeCache(c)
    \/ Merge(c) \/ MergeDrop(c)
    \/ DisconnectNick(c) \/ DisconnectDrop(c)

\* A line of the client, or the end of its socket.
Begin(c) ==
    \/ Connect(c)
    \/ CapEnd(c) \/ HandleUser(c) \/ HandleUserTooLong(c)
    \/ \E n \in Nicks : HandleFirstNick(c, n) \/ HandleNick(c, n)
    \/ \E a \in Named : Authenticate(c, a)
    \/ AuthenticateFails(c)
    \/ HandleQuit(c) \/ Disconnect(c)

Next ==
    \/ \E c \in Conns : Begin(c) \/ Continue(c)
    \/ \E p \in Procs : SetNickStep(p)
    \/ \E s \in Snakes, call \in PyCalls : PySetNick(s, call[1], call[2])

Spec == Init /\ [][Next]_vars

\* A worker's event loop and a Python thread finish what they began, and a
\* socket that was told to close does close.  Nothing makes a client speak.
Fairness ==
    /\ \A c \in Conns : WF_vars(Continue(c))
    /\ \A p \in Procs : WF_vars(SetNickStep(p))
    /\ \A c \in Conns : WF_vars(phase[c] = "closing" /\ Disconnect(c))

FairSpec == Spec /\ Fairness

-----------------------------------------------------------------------------
\* Properties that hold however the workers interleave

\* m_account of a live connection that merged into a named account still is the
\* anonymous account it registered with.
Merged(c) == acct[c] = c /\ loggedIn[c]

\* Ctx's account caches hold the database's accounts for good, and an anonymous
\* account exactly while the connection that made it lives: merge and
\* onConnectionDisconnected drop no named account and leave no anonymous one
\* behind, whatever the other workers do in between.
RosterExact ==
    /\ Named \subseteq roster
    /\ \A c \in Conns : c \in roster => acct[c] = c /\ phase[c] \in {"open", "closing"}
    /\ \A c \in Conns : (acct[c] = c /\ ~Merged(c) /\ phase[c] # "gone") => c \in roster

\* The connection list of an anonymous account never holds another client's
\* connection nor, once its own was freed, a dangling one; after the welcome it
\* holds its own until it merges or leaves (what Channel and Account deliver to).
AnonymousConnections ==
    \A c \in Conns :
        /\ conns[c] \subseteq {c}
        /\ phase[c] = "gone" => conns[c] = {}
        /\ (ready[c] /\ acct[c] = c /\ ~loggedIn[c] /\ pc[c] \notin {"dis_nick", "dis_drop"}
              /\ phase[c] # "gone")
             => conns[c] = {c}

\* handleNICK, handleUSER and handleCAP reach try_finalize_setup at most once with
\* success: a connection is welcomed only after all three tasks, with an account,
\* and setNick's "use account->nick()" exception cannot be thrown.
Registration ==
    \A c \in Conns :
        /\ ready[c] => tasks[c] = {} /\ acct[c] # NULL
        /\ "NICK" \in tasks[c] => mNick[c] = NULL
        /\ acct[c] \in Conns => acct[c] = c

\* A connection whose last task is done is welcomed or dropped: the checks of
\* try_finalize_setup leave no client waiting with neither.
RegistrationSettles ==
    \A c \in Conns :
        (phase[c] = "open" /\ tasks[c] = {})
            ~> (ready[c] \/ phase[c] \in {"closing", "gone"} \/ crashed)

-----------------------------------------------------------------------------
\* The inductive invariant behind RosterExact and AnonymousConnections

FinSteps == {"fin_nick", "fin_make", "fin_sync", "fin_add", "fin_cache"}

\* What a running handler may rely on: its connection lives, and m_account is what
\* the steps before it left there.
HandlerInv ==
    \A c \in Conns :
        /\ pc[c] # "idle" => phase[c] \in {"open", "closing"}
        /\ phase[c] = "new" => mNick[c] = NULL /\ acct[c] = NULL /\ ~ready[c]
        /\ pc[c] \in FinSteps => tasks[c] = {} /\ ~ready[c]
        /\ pc[c] \in {"fin_nick", "fin_make"} => acct[c] = NULL
        /\ pc[c] \in {"fin_sync", "fin_add", "fin_cache"} => acct[c] # NULL
        /\ pc[c] \in {"merge", "merge_drop"} =>
              job[c].acct \in Named /\ acct[c] # NULL /\ loggedIn[c]
        /\ pc[c] \in {"merge_drop", "dis_nick", "dis_drop"} => acct[c] = c

\* While its finalize step is between reading and writing the list of an anonymous
\* account, no other thread touches that list.
OwnListInv ==
    \A c \in Conns :
        /\ acct[c] # c => conns[c] = {}
        /\ (pc[c] = "fin_add" /\ acct[c] = c) => job[c].snap = conns[c]
        /\ (pc[c] = "fin_cache" /\ acct[c] = c) => conns[c] = {c}
        /\ pc[c] \in {"dis_nick", "dis_drop"} => conns[c] = {}

Inv ==
    /\ Types
    /\ HandlerInv
    /\ Registration
    /\ RosterExact
    /\ OwnListInv
    /\ AnonymousConnections

-----------------------------------------------------------------------------
\* Properties with their causes: what may break them is in the history

Quiescent == \A p \in Procs : pc[p] = "idle"

\* Between two handlers irc_nicks is exactly the nicks in use, whatever the workers
\* and Python threads did before: every cached account is found under its nick, and
\* an entry leads to an account of that nick that is cached or, after a merge,
\* still has its connection.  The only nicks this may fail for are those that two
\* handlers dealt with at the same time, and those entered with capitals.
NickIndexExact ==
    Quiescent =>
        /\ \A a \in roster : accNick[a] \in contested \/ ircNicks[accNick[a]] = a
        /\ \A n \in Nicks \ contested : ircNicks[n] # NULL =>
              /\ accNick[ircNicks[n]] = n
              /\ \/ ircNicks[n] \in roster
                 \/ ircNicks[n] \in Conns /\ phase[ircNicks[n]] # "gone"

\* A nick in use that is not contested stays with its account or becomes free.
NickStays ==
    \A n \in Nicks : ircNicks[n] # NULL =>
        ircNicks'[n] \in {ircNicks[n], NULL} \/ n \in contested'

\* No step hands a nick from one account to another: an entry of irc_nicks is
\* removed by its owner before anyone else enters it, unless two handlers dealt
\* with the nick at the same time or it was entered with capitals.
NoNickTheft == [][NickStays]_vars

\* A welcomed connection stays in the list of its account, named or not, until it
\* leaves, so that messages to the account reach it; and the only freed
\* connections a list holds were adopted by merge.  Only a list that changed while
\* add_connection, which takes no lock, appended to it may be wrong.
ConnectionsTracked ==
    \A c \in Conns :
        /\ (ready[c] /\ ~Merged(c) /\ phase[c] # "gone" /\ pc[c] = "idle")
             => c \in conns[acct[c]] \/ acct[c] \in raced
        /\ \A a \in Accounts \ raced : (c \in conns[a] /\ phase[c] = "gone") => Merged(c)

\* Behind ConnectionsTracked: a connection that appended without a race is in the
\* list of its account until it leaves, and a list that is not its account's has a
\* connection only by merge.
TrackInv ==
    \A c \in Conns :
        /\ pc[c] = "fin_cache" => c \in conns[acct[c]] \/ acct[c] \in raced
        /\ (ready[c] /\ ~Merged(c) /\ phase[c] # "gone" /\ pc[c] \notin {"dis_nick", "dis_drop"})
             => c \in conns[acct[c]] \/ acct[c] \in raced
        /\ \A a \in Accounts \ raced :
              c \in conns[a] => Merged(c) \/ (a = acct[c] /\ phase[c] # "gone")

\* An account someone may still speak for
Alive(a) == a \in Named \/ (acct[a] = a /\ phase[a] \in {"open", "closing"})

\* The accounts that own an entry of irc_nicks: an anonymous one from its welcome
\* until its connection leaves, merged or not.
Holding(a) == Alive(a) /\ (a \in Conns => ready[a] /\ pc[a] # "dis_drop")

\* Between the two writes of setNick an account is under its new nick in irc_nicks
\* and under its old one in itself.
Moving(a) == {p \in Procs : pc[p] = "store" /\ job[p].acct = a}

\* Whoever speaks has a nick, and an anonymous account is welcomed by the handler
\* that made it.
NickedInv ==
    /\ \A a \in Named : accNick[a] # NULL
    /\ \A c \in Conns :
        /\ acct[c] = c <=> accNick[c] # NULL
        /\ (phase[c] # "new" /\ "NICK" \notin tasks[c]) => mNick[c] # NULL
        /\ (acct[c] = c /\ ~ready[c]) => pc[c] \in {"fin_sync", "fin_add", "fin_cache"}

\* The nick a handler read from its account still is the account's, or both are
\* contested.
Synced(nick, a) == nick = accNick[a] \/ {nick, accNick[a]} \subseteq contested

\* Nick n is free for account a, unless contested.
Free(n, a) == n \in contested \/ ircNicks[n] \in {NULL, a}

\* What a step of setNick knows of the nicks it is about to write.
KnowsNick(p) ==
    /\ pc[p] = "nick_old" => job[p].new # NULL
    /\ pc[p] \in {"hook", "look", "taken", "write", "store"} =>
          /\ job[p].acct # NULL /\ job[p].new # NULL /\ job[p].old # NULL
          /\ accNick[job[p].acct] # NULL
          /\ Synced(job[p].old, job[p].acct)
    /\ pc[p] \in {"look", "taken", "write", "store"} =>
          \/ Alive(job[p].acct)
          \/ {job[p].old, Lower[job[p].new]} \subseteq contested
    /\ pc[p] = "taken" =>
          \/ job[p].taken \/ ircNicks[Lower[job[p].new]] = NULL
          \/ Lower[job[p].new] \in contested
    /\ pc[p] = "write" => Free(Lower[job[p].new], job[p].acct)
    /\ pc[p] = "store" =>
          /\ ircNicks[Lower[job[p].new]] = job[p].acct \/ Lower[job[p].new] \in contested
          /\ Lower[job[p].new] = job[p].new \/ job[p].new \in contested
          /\ \/ ircNicks[accNick[job[p].acct]] # job[p].acct
             \/ accNick[job[p].acct] \in contested \cup {job[p].new}

\* What a step of try_finalize_setup or of the disconnect knows.
KnowsOwn(c) ==
    /\ pc[c] = "fin_make" => Free(Lower[mNick[c]], NULL)
    /\ (pc[c] \in {"fin_sync", "fin_add", "fin_cache"} /\ acct[c] = c) =>
          Lower[accNick[c]] # accNick[c] \/ Free(accNick[c], NULL)
    /\ pc[c] = "fin_cache" => job[c].new # NULL /\ Synced(job[c].new, acct[c])
    /\ pc[c] \in {"dis_nick", "dis_drop"} => job[c].old # NULL /\ Synced(job[c].old, c)

WriterInv == (\A p \in Procs : KnowsNick(p)) /\ (\A c \in Conns : KnowsOwn(c))

\* irc_nicks and the accounts' own nicks agree, whatever handlers are at work.
IndexInv ==
    \A a \in Accounts :
        /\ Holding(a) =>
              accNick[a] \in contested \/ ircNicks[accNick[a]] = a \/ Moving(a) # {}
        /\ \A n \in Nicks \ contested : ircNicks[n] = a =>
              Holding(a) /\ (accNick[a] = n \/ \E p \in Moving(a) : job[p].new = n)

NickInv == NickedInv /\ WriterInv /\ IndexInv

-----------------------------------------------------------------------------
\* What the comments of the code say

\* ctx.h: "need to keep track of nicks too, as on IRC they are unique"
NicksUnique ==
    Quiescent => \A a, b \in roster : accNick[a] = accNick[b] => a = b
=============================================================================
