-------------------------------- MODULE Chat ---------------------------------
(***************************************************************************)
(* Capabilities, messages and modes, with the locks they take.             *)
(*                                                                         *)
(* Every connection is served by a worker thread that runs one handler at  *)
(* a time, to its end.  A handler calls client_connection::message of the  *)
(* receivers itself; what they send is queued for their own thread, so     *)
(* inbox is what a connection will write, in that order.                   *)
(*                                                                         *)
(* There is one channel, Room.  Who its members are, and registration, are *)
(* the business of Channels and Roster.                                    *)
(***************************************************************************)
EXTENDS Integers, Sequences, FiniteSets

CONSTANTS
    Conns, Accts,
    AccountOf, WorkerOf,    \* the account and the worker of each connection
    Members,                \* accounts in Room
    Room,                   \* the channel
    ServerCaps,             \* m_server->capabilities
    Joining, InitialCaps,   \* connections that still negotiate, and the others' choices
    CapLines,               \* what each client requests: sets of <<name, wanted>>
    Modes, ArgModes,        \* channel modes, and those that take an argument
    DefaultModes,           \* of a new channel
    ModeLines,              \* mode changes: [adding, letters, args]
    Hooks,                  \* what Python does to a message
    MaxMessages, MaxChanges \* bounds

ASSUME ChatAssumption ==
    /\ AccountOf \in [Conns -> Accts] /\ DOMAIN WorkerOf = Conns
    /\ Members \subseteq Accts /\ Room \notin Accts
    /\ InitialCaps \subseteq [Conns -> SUBSET ServerCaps]
    /\ \A caps \in InitialCaps, c \in Joining : caps[c] = {}
    /\ ArgModes \subseteq Modes /\ DefaultModes \subseteq Modes \ ArgModes
    /\ Hooks \subseteq {"none", "pass", "cancel", "fail"}
    /\ MaxMessages \in Nat /\ MaxChanges \in Nat

VARIABLES
    negotiating,    \* CAP_EXCHANGE is still among setup_tasks
    capabilities,   \* of each connection
    channel_modes, m_limit,
    pc, todo,       \* where a handler stands, and the receivers it has left
    current,        \* the message it works on, or 0
    change,         \* the mode change it works on
    messages,       \* all messages and what became of them
    inbox,          \* what each connection is sent: indices into messages
    changes         \* mode and nick changes so far

vars == <<negotiating, capabilities, channel_modes, m_limit, pc, todo, current, change,
          messages, inbox, changes>>
settings == <<negotiating, capabilities>>
modes == <<channel_modes, m_limit>>

ConnsOf(a) == {c \in Conns : AccountOf[c] = a}
Ready(c) == ~negotiating[c]
WorkerIdle(c) == \A d \in Conns : WorkerOf[d] = WorkerOf[c] => pc[d] = "idle"
At(c, step) == pc[c] = step
Goto(c, step) == pc' = [pc EXCEPT ![c] = step]

Nothing == [adding |-> FALSE, letters |-> <<>>, args |-> <<>>]

Init ==
    /\ negotiating = [c \in Conns |-> c \in Joining]
    /\ capabilities \in InitialCaps
    /\ channel_modes = DefaultModes /\ m_limit = 0
    /\ pc = [c \in Conns |-> "idle"]
    /\ todo = [c \in Conns |-> {}]
    /\ current = [c \in Conns |-> 0]
    /\ change = [c \in Conns |-> Nothing]
    /\ messages = <<>>
    /\ inbox = [c \in Conns |-> <<>>]
    /\ changes = 0

----------------------------------------------------------------------------
(* Capabilities                                                            *)

\* CAP REQ is acknowledged as a whole or not at all.  A name with a minus is
\* acknowledged too and changes nothing.
CapReq(c, line) ==
    /\ WorkerIdle(c) /\ negotiating[c]
    /\ capabilities' = [capabilities EXCEPT ![c] =
           IF \A r \in line : r[1] \in ServerCaps THEN @ \cup {r[1] : r \in {q \in line : q[2]}}
           ELSE @]
    /\ UNCHANGED <<negotiating, modes, pc, todo, current, messages, inbox, changes, change>>

\* CAP END; from here on CAP is ignored.
CapEnd(c) ==
    /\ WorkerIdle(c) /\ negotiating[c]
    /\ negotiating' = [negotiating EXCEPT ![c] = FALSE]
    /\ UNCHANGED <<capabilities, modes, pc, todo, current, messages, inbox, changes, change>>

----------------------------------------------------------------------------
(* Locks: QReadWriteLock, not recursive, where a waiting writer goes before *)
(* new readers.                                                            *)

\* setMode holds the channel's lock and its helper asks for it again.
Stuck(c) == At(c, "relock")

ChannelReadable == \A c \in Conns : ~At(c, "mode") /\ ~Stuck(c)
ChannelWritable == \A c \in Conns : ~At(c, "channel") /\ ~Stuck(c)

\* Account::message holds the sender's lock while it delivers.
Holds(c) == pc[c] \in {"dest", "own"}

AccountReadable(a) == \A c \in ConnsOf(a) : ~At(c, "nick")
AccountWritable(a) == \A c \in ConnsOf(a) : ~Holds(c)

----------------------------------------------------------------------------
(* Messages                                                                *)

Message(c) == messages[current[c]]
Mark(c, fate) == messages' = [messages EXCEPT ![current[c]].fate = fate]

Done(c) ==
    /\ Goto(c, "idle")
    /\ current' = [current EXCEPT ![c] = 0]

MayStart(c) == Ready(c) /\ WorkerIdle(c)

\* handlePRIVMSG and handleTAGMSG, for a target that exists (otherwise 401 is all
\* that happens).  Neither membership nor the mode n is looked at.
handlePRIVMSG(c, target) ==
    /\ MayStart(c) /\ Len(messages) < MaxMessages
    /\ messages' = Append(messages, [from |-> c, to |-> target,
                                     audience |-> {d \in Conns : Ready(d)},
                                     fate |-> "open"])
    /\ Goto(c, "hook")
    /\ current' = [current EXCEPT ![c] = Len(messages) + 1]
    /\ UNCHANGED <<settings, modes, todo, inbox, changes, change>>

\* A module may cancel the message.  When its handler fails, a message to the
\* channel is dropped and one to an account goes on.
Dropped(to, outcome) == outcome = "cancel" \/ (outcome = "fail" /\ to = Room)

MessageHook(c) ==
    /\ At(c, "hook")
    /\ \E outcome \in Hooks :
           IF Dropped(Message(c).to, outcome)
           THEN Done(c) /\ Mark(c, "dropped")
           ELSE /\ Goto(c, "lock")
                /\ UNCHANGED <<current, messages>>
    /\ UNCHANGED <<settings, modes, todo, inbox, changes, change>>

\* Channel::message saves the message (a failure is only logged, and nothing
\* reads the table) and takes the channel's read lock.
LockChannel(c) ==
    /\ At(c, "lock") /\ Message(c).to = Room /\ ChannelReadable
    /\ todo' = [todo EXCEPT ![c] = {d \in Conns : Ready(d) /\ AccountOf[d] \in Members}]
    /\ Goto(c, "channel")
    /\ UNCHANGED <<settings, modes, current, messages, inbox, changes, change>>

\* Account::message takes the sender's read lock.
LockAccount(c) ==
    /\ At(c, "lock") /\ Message(c).to # Room /\ AccountReadable(AccountOf[c])
    /\ todo' = [todo EXCEPT ![c] = {d \in ConnsOf(Message(c).to) : Ready(d)}]
    /\ Goto(c, "dest")
    /\ UNCHANGED <<settings, modes, current, messages, inbox, changes, change>>

\* Mutant of Wanted: other connections of the sender are left out.
WantedEchoOnly(d, c) ==
    \/ AccountOf[d] # AccountOf[c]
    \/ "echo-message" \in capabilities[d]

\* client_connection::message: a connection of the sender wants its message if
\* it asked for echoes, or for those of the account's other connections.
Wanted(d, c) ==
    \/ AccountOf[d] # AccountOf[c]
    \/ "echo-message" \in capabilities[d]
    \/ "znc.in/self-message" \in capabilities[d] /\ d # c

\* Mutant of CanSend: Channel::name() locks, as accountOwner() does.
CanSendLocked(d, c) ==
    /\ Wanted(d, c) => AccountReadable(AccountOf[c])
    /\ IF Message(c).to = Room THEN ChannelReadable ELSE AccountReadable(Message(c).to)

\* The prefix needs the sender's lock for reading, also where the sender holds
\* it already; a private message also needs the nick of its receiver.
CanSend(d, c) ==
    /\ Wanted(d, c) => AccountReadable(AccountOf[c])
    /\ Message(c).to # Room => AccountReadable(Message(c).to)

\* The receivers in the order of the lists they are in.
Send(c) ==
    LET d == CHOOSE x \in todo[c] : TRUE IN
        /\ todo[c] # {} /\ CanSend(d, c)
        /\ inbox' = [inbox EXCEPT ![d] = IF Wanted(d, c) THEN Append(@, current[c]) ELSE @]
        /\ todo' = [todo EXCEPT ![c] = @ \ {d}]
        /\ UNCHANGED <<settings, modes, pc, current, messages, changes, change>>

SendToMember(c) == At(c, "channel") /\ Send(c)
SendToDest(c) == At(c, "dest") /\ Send(c)
SendToOwn(c) == At(c, "own") /\ Send(c)

\* After the receivers, the sender's own connections.
TurnToOwn(c) ==
    /\ At(c, "dest") /\ todo[c] = {}
    /\ todo' = [todo EXCEPT ![c] = {d \in ConnsOf(AccountOf[c]) : Ready(d)}]
    /\ Goto(c, "own")
    /\ UNCHANGED <<settings, modes, current, messages, inbox, changes, change>>

Sent(c) ==
    /\ pc[c] \in {"channel", "own"} /\ todo[c] = {}
    /\ Mark(c, "sent")
    /\ Done(c)
    /\ UNCHANGED <<settings, modes, todo, inbox, changes, change>>

----------------------------------------------------------------------------
(* Modes                                                                   *)

\* handleMODE on the channel.
handleMODE(c, line) ==
    /\ MayStart(c) /\ changes < MaxChanges
    /\ changes' = changes + 1
    /\ change' = [change EXCEPT ![c] = line]
    /\ Goto(c, "letters")
    /\ UNCHANGED <<settings, modes, todo, current, messages, inbox>>

\* The next letter; one that is unknown, or lacks its argument, is passed over.
ModeLetter(c) ==
    /\ At(c, "letters") /\ change[c].letters # <<>>
    /\ LET l == Head(change[c].letters)
           known == l \in Modes /\ (l \in ArgModes => change[c].args # <<>>)
       IN  IF known THEN Goto(c, "mode") /\ UNCHANGED change
           ELSE /\ change' = [change EXCEPT ![c].letters = Tail(@)]
                /\ UNCHANGED pc
    /\ UNCHANGED <<settings, modes, todo, current, messages, inbox, changes>>

\* toInt succeeds and is not negative, else the limit is ignored.  An argument
\* that is no number is a negative one here.
LimitFor(adding, arg) == adding => arg >= 0

\* Channel::setMode under the write lock.  setKey, addBan and removeBan take the
\* same lock again and never return.
SetMode(c) ==
    /\ At(c, "mode") /\ ChannelWritable
    /\ LET line == change[c]
           l == Head(line.letters)
           arg == IF l \in ArgModes THEN Head(line.args) ELSE 0
           on == [line EXCEPT !.letters = Tail(@),
                              !.args = IF l \in ArgModes THEN Tail(@) ELSE @]
       IN  IF l \in {"k", "b"}
           THEN Goto(c, "relock") /\ UNCHANGED <<modes, change>>
           ELSE /\ IF l = "l" /\ ~LimitFor(line.adding, arg)
                   THEN UNCHANGED modes
                   ELSE /\ channel_modes' = IF line.adding THEN channel_modes \cup {l}
                                                           ELSE channel_modes \ {l}
                        /\ m_limit' = IF l # "l" THEN m_limit
                                      ELSE IF line.adding THEN arg ELSE 0
                /\ change' = [change EXCEPT ![c] = on]
                /\ Goto(c, "letters")
    /\ UNCHANGED <<settings, todo, current, messages, inbox, changes>>

\* The changed letters, or 501, are sent.
ModeDone(c) ==
    /\ At(c, "letters") /\ change[c].letters = <<>>
    /\ Goto(c, "idle")
    /\ UNCHANGED <<settings, modes, todo, current, change, messages, inbox, changes>>

----------------------------------------------------------------------------
\* NICK, a disconnect and a login write to the account under its lock; what
\* they do is in Roster.
WantAccount(c) ==
    /\ MayStart(c) /\ changes < MaxChanges
    /\ changes' = changes + 1
    /\ Goto(c, "nick")
    /\ UNCHANGED <<settings, modes, todo, current, change, messages, inbox>>

WriteAccount(c) ==
    /\ At(c, "nick") /\ AccountWritable(AccountOf[c])
    /\ Goto(c, "idle")
    /\ UNCHANGED <<settings, modes, todo, current, change, messages, inbox, changes>>

Start(c) ==
    \/ CapEnd(c) \/ \E line \in CapLines[c] : CapReq(c, line)
    \/ \E target \in Accts \cup {Room} : handlePRIVMSG(c, target)
    \/ \E line \in ModeLines : handleMODE(c, line)
    \/ WantAccount(c)

Step(c) ==
    \/ MessageHook(c) \/ LockChannel(c) \/ LockAccount(c)
    \/ SendToMember(c) \/ SendToDest(c) \/ SendToOwn(c) \/ TurnToOwn(c) \/ Sent(c)
    \/ ModeLetter(c) \/ SetMode(c) \/ ModeDone(c)
    \/ WriteAccount(c)

Next == \E c \in Conns : Start(c) \/ Step(c)

Spec == Init /\ [][Next]_vars /\ \A c \in Conns : WF_vars(Step(c))

----------------------------------------------------------------------------
(* Properties                                                              *)

\* A connection of the sender is sent what it asked for, another one everything.
Welcome(m, d) ==
    AccountOf[d] = AccountOf[m.from] =>
        \/ "echo-message" \in capabilities[d]
        \/ "znc.in/self-message" \in capabilities[d] /\ d # m.from

\* The copies of a message a connection is due: one as a receiver and, if the
\* message is to an account, one as a connection of the sender.
DueFirst(m, d) ==
    IF Welcome(m, d) /\ IF m.to = Room THEN AccountOf[d] \in Members ELSE AccountOf[d] = m.to
    THEN 1 ELSE 0
DueOwn(m, d) ==
    IF Welcome(m, d) /\ m.to # Room /\ AccountOf[d] = AccountOf[m.from] THEN 1 ELSE 0
Due(m, d) == DueFirst(m, d) + DueOwn(m, d)

CopiesIn(list, i) == Cardinality({j \in DOMAIN list : list[j] = i})
Copies(i, d) == CopiesIn(inbox[d], i)

\* A message that was sent has reached every connection that was ready for it
\* as often as it is due: one to oneself twice, an echo where asked for.  One
\* that was dropped reached nobody.
DeliveredExactly ==
    \A i \in 1 .. Len(messages), d \in Conns :
        LET m == messages[i] IN
        /\ m.fate = "dropped" => Copies(i, d) = 0
        /\ Copies(i, d) <= Due(m, d)
        /\ (m.fate = "sent" /\ d \in m.audience) => Copies(i, d) = Due(m, d)

\* The inductive invariant.
Sending == {"hook", "lock", "channel", "dest", "own"}
Steps == Sending \cup {"idle", "letters", "mode", "relock", "nick"}

TypeOK ==
    /\ negotiating \in [Conns -> BOOLEAN]
    /\ capabilities \in [Conns -> SUBSET ServerCaps]
    /\ pc \in [Conns -> Steps]
    /\ todo \in [Conns -> SUBSET Conns]
    /\ current \in [Conns -> Nat]
    /\ messages \in Seq([from : Conns, to : Accts \cup {Room}, audience : SUBSET Conns,
                         fate : {"open", "sent", "dropped"}])
    /\ inbox \in [Conns -> Seq(Nat)]

\* A connection that still negotiates is nobody's receiver.
NegotiatingInv ==
    \A d \in Conns : negotiating[d] =>
        /\ inbox[d] = <<>>
        /\ \A i \in 1 .. Len(messages) : d \notin messages[i].audience
        /\ \A c \in Conns : d \notin todo[c]

\* What is queued is a message that exists.
InboxInv == \A d \in Conns : \A j \in 1 .. Len(inbox[d]) : inbox[d][j] \in 1 .. Len(messages)

\* What a handler works on: a message of its own, and receivers of that message.
WorkingInv ==
    \A c \in Conns : pc[c] \in Sending =>
        /\ current[c] \in 1 .. Len(messages)
        /\ Message(c).from = c /\ Message(c).fate = "open"
        /\ pc[c] = "channel" => Message(c).to = Room /\ \A d \in todo[c] : AccountOf[d] \in Members
        /\ pc[c] \in {"dest", "own"} => Message(c).to # Room
        /\ pc[c] = "dest" => \A d \in todo[c] : AccountOf[d] = Message(c).to
        /\ pc[c] = "own" => \A d \in todo[c] : AccountOf[d] = AccountOf[c]

\* The copies a connection has from a handler that is under way.
Sofar(c, d) ==
    IF pc[c] \in {"hook", "lock"} THEN 0
    ELSE IF pc[c] = "own" THEN IF d \in todo[c] THEN DueFirst(Message(c), d) ELSE Due(Message(c), d)
    ELSE IF d \in todo[c] THEN 0 ELSE DueFirst(Message(c), d)

ProgressInv ==
    \A c \in Conns : pc[c] \in Sending => \A d \in Conns :
        /\ Copies(current[c], d) <= Sofar(c, d)
        /\ d \in Message(c).audience => Copies(current[c], d) = Sofar(c, d)

Inv == TypeOK /\ NegotiatingInv /\ InboxInv /\ WorkingInv /\ ProgressInv /\ DeliveredExactly

\* The two ways workers wait forever: a mode that takes its lock twice, and an
\* account whose lock another connection wants to write while a private message
\* that holds it for reading asks for it again.
Hung ==
    \/ \E c \in Conns : Stuck(c)
    \/ \E c, d \in Conns : Holds(c) /\ At(d, "nick") /\ AccountOf[c] = AccountOf[d]

\* Every handler returns, unless the workers are hung in one of the known ways.
Answered == (\E c \in Conns : pc[c] # "idle") ~> (Hung \/ \A c \in Conns : pc[c] = "idle")
=============================================================================
