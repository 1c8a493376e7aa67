------------------------------ MODULE Channels ------------------------------
(***************************************************************************)
(* Channel membership: Ctx::channels, the Channel objects and their        *)
(* m_members, the channels an Account is in (restored to each connection   *)
(* it logs in with), and what every client_connection believes about them. *)
(*                                                                         *)
(* JOIN reaches other connections at once, from the joiner's thread, under *)
(* the channel's write lock.  PART reaches them later, as a call queued to *)
(* each connection's thread.  One action is one critical section of a      *)
(* handler, or one queued call; handlers of one worker do not interleave.  *)
(* The connections of one account are served by any workers: the server    *)
(* deals them round-robin.  Commands that are only answered with an error  *)
(* change nothing and are not actions.                                     *)
(*                                                                         *)
(* Not modelled: what a Python handler writes into the channel or account  *)
(* of an event, and the races on Ctx::channels, which takes no lock.       *)
(***************************************************************************)
EXTENDS Naturals, Sequences, FiniteSets

CONSTANTS
    Accts,          \* accounts
    Conns,          \* client_connections that ever register
    AcctOf,         \* the account each connection registers as
    Worker,         \* the worker thread each connection is pinned to
    Names,          \* channel names
    Chans,          \* Channel objects
    LoadedName,     \* the names of the channels loaded from the database
    LoadedMembers,  \* and their members
    Renames,        \* the pairs <<old, new>> clients ask RENAME for
    Hooked,         \* do Python handlers cancel JOIN and PART and rewrite RENAME?
    MaxCommands,    \* bound on the JOIN, PART and RENAME commands of a behaviour
    Null,           \* a null QSharedPointer<Channel>
    Absent          \* no entry in a map

LoadedChans == DOMAIN LoadedName

ASSUME ChannelsAssumption ==
    /\ AcctOf \in [Conns -> Accts]
    /\ LoadedChans \subseteq Chans
    /\ LoadedName \in [LoadedChans -> Names]
    /\ \A k, l \in LoadedChans : LoadedName[k] = LoadedName[l] => k = l
    /\ LoadedMembers \in [LoadedChans -> Seq(Accts)]
    /\ \A k \in LoadedChans : \A i, j \in 1 .. Len(LoadedMembers[k]) :
           LoadedMembers[k][i] = LoadedMembers[k][j] => i = j
    /\ Renames \subseteq Names \X Names
    /\ Hooked \in BOOLEAN
    /\ MaxCommands \in Nat
    /\ Null \notin Chans \cup Names
    /\ Absent \notin Chans \cup {Null}

VARIABLES
    registry,       \* Ctx::channels
    name,           \* Channel::m_name, Null before the object exists
    members,        \* Channel::m_members
    accChans,       \* Account::channels
    conns,          \* Account::connections
    open,           \* "new", "open" or "gone"
    connChans,      \* client_connection::channels
    connMembers,    \* client_connection::channel_members
    inbox,          \* channel_part calls queued to a connection
    pc,             \* where the handler a connection runs stands
    arg,            \* its channel name
    chan,           \* the Channel it works on
    ptr,            \* chan_ptr of Channel::join
    todo,           \* names in Account::channels that try_finalize_setup has yet to visit
    touched,        \* connections in that loop under which the map has grown
    crashed,        \* a null pointer was dereferenced
    former,         \* history: names each channel had before
    overtaken,      \* history: <<account, channel>> of the last JOIN, where it fell into a PART
    commands        \* commands so far

chanVars == <<registry, name, members>>
connVars == <<open, connChans, connMembers>>
localVars == <<arg, chan, ptr, todo>>
history == <<former, overtaken>>
vars == <<chanVars, accChans, conns, connVars, inbox, pc, localVars, touched, crashed,
          history, commands>>

Elements(list) == {list[i] : i \in DOMAIN list}

\* The Ctx constructor: channels[name] and addMembers, which also enters the
\* channel in the map of every member.
Init ==
    /\ registry = [n \in Names |->
                      IF \E k \in LoadedChans : LoadedName[k] = n
                      THEN CHOOSE k \in LoadedChans : LoadedName[k] = n
                      ELSE Null]
    /\ name = [k \in Chans |-> IF k \in LoadedChans THEN LoadedName[k] ELSE Null]
    /\ members = [k \in Chans |-> IF k \in LoadedChans THEN LoadedMembers[k] ELSE << >>]
    /\ accChans = [a \in Accts |-> [n \in Names |->
                      IF registry[n] # Null /\ a \in Elements(members[registry[n]])
                      THEN registry[n] ELSE Absent]]
    /\ conns = [a \in Accts |-> {}]
    /\ open = [c \in Conns |-> "new"]
    /\ connChans = [c \in Conns |-> [n \in Names |-> Null]]
    /\ connMembers = [c \in Conns |-> [k \in Chans \cup {Null} |-> {}]]
    /\ inbox = [c \in Conns |-> << >>]
    /\ pc = [c \in Conns |-> "idle"]
    /\ arg = [c \in Conns |-> Null]
    /\ chan = [c \in Conns |-> Null]
    /\ ptr = [c \in Conns |-> Null]
    /\ todo = [c \in Conns |-> {}]
    /\ touched = {}
    /\ crashed = FALSE
    /\ former = [k \in Chans |-> {}]
    /\ overtaken = {}
    /\ commands = 0

WorkerIdle(c) == \A d \in Conns : Worker[d] = Worker[c] => pc[d] = "idle"

MayHandle(c) == ~crashed /\ open[c] = "open" /\ WorkerIdle(c)

\* A command arrives on c.
Command(c) ==
    /\ MayHandle(c)
    /\ commands < MaxCommands
    /\ commands' = commands + 1

At(c, step) == ~crashed /\ pc[c] = step

Goto(c, step) == pc' = [pc EXCEPT ![c] = step]

\* A connection in the loop of try_finalize_setup: a JOIN command has a name in arg.
InLoop(c) == pc[c] = "rejoin" \/ (pc[c] = "join" /\ arg[c] = Null)

\* The handler is done, or try_finalize_setup goes on with its loop.
Finish(c) ==
    /\ Goto(c, IF InLoop(c) THEN "rejoin" ELSE "idle")
    /\ arg' = [arg EXCEPT ![c] = Null]
    /\ chan' = [chan EXCEPT ![c] = Null]
    /\ ptr' = [ptr EXCEPT ![c] = Null]
    /\ UNCHANGED todo

----------------------------------------------------------------------------
(* A connection comes and goes                                              *)

\* The names in an account's map.
Saved(a) == {n \in Names : accChans[a][n] # Absent}

\* try_finalize_setup: the connection is in the account's list and is about to
\* be put into every channel of the account.
Attach(c) ==
    LET a == AcctOf[c]
    IN  /\ ~crashed
        /\ open[c] = "new"
        /\ WorkerIdle(c)
        /\ open' = [open EXCEPT ![c] = "open"]
        /\ conns' = [conns EXCEPT ![a] = @ \cup {c}]
        /\ todo' = [todo EXCEPT ![c] = Saved(a)]
        /\ Goto(c, "rejoin")
        /\ UNCHANGED <<chanVars, accChans, connChans, connMembers, inbox, arg,
                       chan, ptr, touched, crashed, history, commands>>

\* The loop walks the map itself.  When that has grown, which entries are still
\* to come is anybody's guess.
Resume(c) ==
    /\ At(c, "rejoin") /\ c \in touched
    /\ touched' = touched \ {c}
    /\ \E left \in SUBSET Saved(AcctOf[c]) : todo' = [todo EXCEPT ![c] = left]
    /\ UNCHANGED <<chanVars, accChans, conns, connVars, inbox, pc, arg, chan, ptr, crashed,
                   history, commands>>

\* One turn of its loop: channel->join(event) with from_system set.  Joining
\* through a null pointer reads m_name and ends the process.
Rejoin(c) ==
    /\ At(c, "rejoin") /\ c \notin touched
    /\ \E n \in todo[c] :
          LET k == accChans[AcctOf[c]][n] IN
          \/ /\ k = Null
             /\ crashed' = TRUE
             /\ UNCHANGED <<pc, chan, ptr, todo>>
          \/ /\ k # Null
             /\ chan' = [chan EXCEPT ![c] = k]
             /\ ptr' = [ptr EXCEPT ![c] = registry[name[k]]]
             /\ todo' = [todo EXCEPT ![c] = @ \ {n}]
             /\ Goto(c, "join")
             /\ UNCHANGED crashed
    /\ UNCHANGED <<chanVars, accChans, conns, connVars, inbox, arg, touched, history, commands>>

\* is_ready = true
Ready(c) ==
    /\ At(c, "rejoin") /\ c \notin touched /\ todo[c] = {}
    /\ Goto(c, "idle")
    /\ UNCHANGED <<chanVars, accChans, conns, connVars, inbox, localVars, touched, crashed,
                   history, commands>>

\* The connection is freed, and with it the calls queued to it.  The account
\* stays a member of its channels.
Disconnect(c) ==
    /\ MayHandle(c)
    /\ open' = [open EXCEPT ![c] = "gone"]
    /\ conns' = [conns EXCEPT ![AcctOf[c]] = @ \ {c}]
    /\ inbox' = [inbox EXCEPT ![c] = << >>]
    /\ connChans' = [connChans EXCEPT ![c] = [n \in Names |-> Null]]
    /\ connMembers' = [connMembers EXCEPT ![c] = [k \in Chans \cup {Null} |-> {}]]
    /\ UNCHANGED <<chanVars, accChans, pc, localVars, touched, crashed, history, commands>>

----------------------------------------------------------------------------
(* JOIN                                                                     *)

\* Channel::get_or_create, first half: the lookup, which takes no lock.
HandleJoin(c, n) ==
    /\ Command(c)
    /\ arg' = [arg EXCEPT ![c] = n]
    /\ chan' = [chan EXCEPT ![c] = registry[n]]
    /\ Goto(c, IF registry[n] = Null THEN "create" ELSE "enter")
    /\ UNCHANGED <<chanVars, accChans, conns, connVars, inbox, ptr, todo, touched, crashed, history>>

\* An object that has not been made yet; which one makes no difference.
FreshChannel == CHOOSE k \in Chans : name[k] = Null

\* Second half: a new Channel replaces whatever is registered by now.
JoinCreate(c) ==
    /\ At(c, "create")
    /\ \E k \in Chans :
          /\ name[k] = Null /\ k = FreshChannel
          /\ name' = [name EXCEPT ![k] = arg[c]]
          /\ registry' = [registry EXCEPT ![arg[c]] = k]
          /\ chan' = [chan EXCEPT ![c] = k]
    /\ Goto(c, "enter")
    /\ UNCHANGED <<members, accChans, conns, connVars, inbox, arg, ptr, todo, touched, crashed,
                   history, commands>>

\* Channel::join up to its write lock: chan_ptr is looked up under the current
\* name of the channel, then Python is asked.
JoinEnter(c) ==
    /\ At(c, "enter")
    /\ \/ /\ ptr' = [ptr EXCEPT ![c] = registry[name[chan[c]]]]
          /\ Goto(c, "join")
          /\ UNCHANGED <<arg, chan, todo>>
       \/ Hooked /\ Finish(c)
    /\ UNCHANGED <<chanVars, accChans, conns, connVars, inbox, touched, crashed, history, commands>>

\* Mutant: the members are not searched first.
AddAlways(list, a) == Append(list, a)

\* if (!m_members.contains(account)) m_members << account
AddMember(list, a) == IF a \in Elements(list) THEN list ELSE Append(list, a)

\* Mutant: the account's own map is not written.
Forget(map, a, k, p) == map

\* account->channels[m_name] = chan_ptr, for a new member.
Remember(map, a, k, p) ==
    IF a \in Elements(members[k]) THEN map
    ELSE [map EXCEPT ![a][name[k]] = p]

\* client_connection::channel_join, for a connection of the account itself.
EntersChannel(c, k) == connChans[c][name[k]] = Null

\* The connections told of a new participant: those of the other members that
\* do not list him yet under chan_ptr.
Notified(a, k, p) ==
    {d \in UNION {conns[b] : b \in Elements(members[k]) \ {a}} : a \notin connMembers[d][p]}

\* A PART of the account has told its connections and is about to remove it.
Parting(a, k) == \E d \in Conns : AcctOf[d] = a /\ chan[d] = k /\ pc[d] = "drop"

\* Channel::join under the channel's write lock.
JoinApply(c) ==
    LET a == AcctOf[c]
        k == chan[c]
        joined == AddMember(members[k], a)
        entering == {d \in conns[a] : EntersChannel(d, k)}
        told == Notified(a, k, ptr[c])
    IN  /\ At(c, "join")
        /\ members' = [members EXCEPT ![k] = joined]
        /\ accChans' = Remember(accChans, a, k, ptr[c])
        /\ connChans' = [d \in Conns |->
               IF d \in entering THEN [connChans[d] EXCEPT ![name[k]] = k] ELSE connChans[d]]
        /\ connMembers' = [d \in Conns |->
               IF d \in entering THEN [connMembers[d] EXCEPT ![k] = @ \cup Elements(joined)]
               ELSE IF d \in told THEN [connMembers[d] EXCEPT ![k] = @ \cup {a}]
               ELSE connMembers[d]]
        /\ touched' = IF accChans[a][name[k]] = Absent /\ accChans' # accChans
                      THEN touched \cup {d \in Conns : AcctOf[d] = a /\ InLoop(d)}
                      ELSE touched
        /\ overtaken' = IF Parting(a, k) THEN overtaken \cup {<<a, k>>} ELSE overtaken \ {<<a, k>>}
        /\ Finish(c)
        /\ UNCHANGED <<registry, name, conns, open, inbox, crashed, former, commands>>

----------------------------------------------------------------------------
(* PART                                                                     *)

\* handlePART: the lookup, which takes no lock.
HandlePart(c, n) ==
    /\ Command(c)
    /\ registry[n] # Null
    /\ chan' = [chan EXCEPT ![c] = registry[n]]
    /\ Goto(c, "part")
    /\ UNCHANGED <<chanVars, accChans, conns, connVars, inbox, arg, ptr, todo, touched, crashed,
                   history>>

\* Channel::part asks Python, then looks for the account under the read lock.
PartCheck(c) ==
    /\ At(c, "part")
    /\ \/ /\ AcctOf[c] \in Elements(members[chan[c]])
          /\ Goto(c, "cast")
          /\ UNCHANGED localVars
       \/ /\ Hooked \/ AcctOf[c] \notin Elements(members[chan[c]])
          /\ Finish(c)
    /\ UNCHANGED <<chanVars, accChans, conns, connVars, inbox, touched, crashed, history, commands>>

\* Mutant: the broadcast skips the connections of the account that leaves.
OthersOnly(c) == UNION {conns[b] : b \in Elements(members[chan[c]]) \ {AcctOf[c]}}

\* The connections of the members of the channel that c parts from.
PartTargets(c) == UNION {conns[b] : b \in Elements(members[chan[c]])}

\* The broadcast, under the read lock again.
PartBroadcast(c) ==
    /\ At(c, "cast")
    /\ inbox' = [d \in Conns |-> IF d \in PartTargets(c)
                                 THEN Append(inbox[d], <<chan[c], AcctOf[c]>>)
                                 ELSE inbox[d]]
    /\ Goto(c, "drop")
    /\ UNCHANGED <<chanVars, accChans, conns, connVars, localVars, touched, crashed, history,
                   commands>>

\* m_members.removeAll(account)
removeAll(list, a) ==
    LET kept[i \in 0 .. Len(list)] ==
            IF i = 0 THEN << >>
            ELSE IF list[i] = a THEN kept[i - 1] ELSE Append(kept[i - 1], list[i])
    IN  kept[Len(list)]

\* The account leaves the list, under the write lock.
PartDrop(c) ==
    /\ At(c, "drop")
    /\ members' = [members EXCEPT ![chan[c]] = removeAll(@, AcctOf[c])]
    /\ Finish(c)
    /\ UNCHANGED <<registry, name, accChans, conns, connVars, inbox, touched, crashed, history,
                   commands>>

\* Mutant: only the list of members is cleared.
ChannelKept(map, k) == map

\* channels.remove(channel_name): the entry under the channel's current name.
WithoutChannel(map, k) == [map EXCEPT ![name[k]] = Null]

\* client_connection::channel_part, run by the event loop of d's worker.
ChannelPart(d) ==
    LET k == Head(inbox[d])[1]
        a == Head(inbox[d])[2]
    IN  /\ MayHandle(d)
        /\ inbox[d] # << >>
        /\ inbox' = [inbox EXCEPT ![d] = Tail(@)]
        /\ \/ /\ a = AcctOf[d]
              /\ connMembers' = [connMembers EXCEPT ![d][k] = {}]
              /\ connChans' = [connChans EXCEPT ![d] = WithoutChannel(@, k)]
           \/ /\ a # AcctOf[d]
              /\ connMembers' = IF a \in connMembers[d][k]
                                THEN [connMembers EXCEPT ![d][k] = {}]
                                ELSE connMembers
              /\ UNCHANGED connChans
        /\ UNCHANGED <<chanVars, accChans, conns, open, pc, localVars, touched, crashed, history,
                       commands>>

----------------------------------------------------------------------------
(* RENAME                                                                   *)

\* handleRENAME and Channel::rename up to the Python hook.
\* The object that will be renamed is the one registered under the current name
\* of the channel found under old.
HandleRename(c, old, new) ==
    /\ Command(c)
    /\ registry[old] # Null
    /\ registry[new] = Null
    /\ registry[name[registry[old]]] # Null
    /\ chan' = [chan EXCEPT ![c] = registry[name[registry[old]]]]
    /\ arg' = [arg EXCEPT ![c] = new]
    /\ Goto(c, "rename")
    /\ UNCHANGED <<chanVars, accChans, conns, connVars, inbox, ptr, todo, touched, crashed, history>>

\* The hook's answer, read as that of another event, cannot cancel; but the handler
\* may have written another new_name into the event.
NewName(c) == IF Hooked THEN Names ELSE {arg[c]}

\* setName.  Ctx::channels keeps its keys, and the calls queued to the members
\* only send text.
RenameApply(c) ==
    LET k == chan[c] IN
    /\ At(c, "rename")
    /\ \E n \in NewName(c) : name' = [name EXCEPT ![k] = n]
    /\ former' = [former EXCEPT ![k] = @ \cup {name[k]}]
    /\ Finish(c)
    /\ UNCHANGED <<registry, members, accChans, conns, connVars, inbox, touched, crashed,
                   overtaken, commands>>

----------------------------------------------------------------------------
Continue(c) ==
    \/ Rejoin(c)
    \/ Resume(c)
    \/ Ready(c)
    \/ JoinCreate(c)
    \/ JoinEnter(c)
    \/ JoinApply(c)
    \/ PartCheck(c)
    \/ PartBroadcast(c)
    \/ PartDrop(c)
    \/ RenameApply(c)

Next ==
    \E c \in Conns :
        \/ Attach(c)
        \/ Disconnect(c)
        \/ \E n \in Names : HandleJoin(c, n) \/ HandlePart(c, n)
        \/ \E r \in Renames : HandleRename(c, r[1], r[2])
        \/ Continue(c)
        \/ ChannelPart(c)

Spec == Init /\ [][Next]_vars

\* A worker's event loop goes on while one of its handlers has begun or a call is queued
\* to one of its connections.  Clients owe nothing.
EventLoop(w) == \E c \in Conns : Worker[c] = w /\ (Continue(c) \/ ChannelPart(c))

Fairness == \A w \in {Worker[c] : c \in Conns} : WF_vars(EventLoop(w))

FairSpec == Spec /\ Fairness

----------------------------------------------------------------------------
(* Properties                                                               *)

Steps == {"idle", "rejoin", "create", "enter", "join", "part", "cast", "drop",
          "rename"}

\* Every variable of the channel model keeps its type.
TypeOK ==
    /\ registry \in [Names -> Chans \cup {Null}]
    /\ name \in [Chans -> Names \cup {Null}]
    /\ members \in [Chans -> Seq(Accts)]
    /\ accChans \in [Accts -> [Names -> Chans \cup {Null, Absent}]]
    /\ conns \in [Accts -> SUBSET Conns]
    /\ open \in [Conns -> {"new", "open", "gone"}]
    /\ connChans \in [Conns -> [Names -> Chans \cup {Null}]]
    /\ connMembers \in [Conns -> [Chans \cup {Null} -> SUBSET Accts]]
    /\ inbox \in [Conns -> Seq(Chans \X Accts)]
    /\ pc \in [Conns -> Steps]
    /\ arg \in [Conns -> Names \cup {Null}]
    /\ chan \in [Conns -> Chans \cup {Null}]
    /\ ptr \in [Conns -> Chans \cup {Null}]
    /\ todo \in [Conns -> SUBSET Names]
    /\ touched \subseteq Conns
    /\ crashed \in BOOLEAN
    /\ former \in [Chans -> SUBSET Names]
    /\ overtaken \subseteq Accts \X Chans
    /\ commands \in 0 .. MaxCommands

\* Channel::join: however JOINs of several connections of one account, PARTs and
\* reconnects interleave, no account is listed twice in m_members.
MembersOnce ==
    \A k \in Chans : \A i, j \in 1 .. Len(members[k]) :
        members[k][i] = members[k][j] => i = j

Queued(c, k) == \E i \in 1 .. Len(inbox[c]) : inbox[c][i] = <<k, AcctOf[c]>>

\* The channel has a name, and not one that it has had before and has again.
SteadyName(k) == name[k] \in Names \ former[k]

\* The connection lists the channel, under its name, without its account being in it.
Stale(c, k) ==
    /\ SteadyName(k) /\ connChans[c][name[k]] = k
    /\ AcctOf[c] \notin Elements(members[k])

\* A connection that lists a channel is a connection of a member, or its PART is on the
\* way: Channel::part removes the member but leaves it to the queued channel_part to
\* clear the connection.  Only a JOIN of the same account from another worker, between
\* the broadcast and the removal, leaves a connection in a channel it is not a member of.
ChannelsBacked ==
    \A c \in Conns, k \in Chans :
        Stale(c, k) => Queued(c, k) \/ <<AcctOf[c], k>> \in overtaken

\* "Always online" (docs/design.md): an account that is a member of a channel
\* has it in Account::channels, from which try_finalize_setup restores the
\* membership to the next connection.  This is about channels whose name is
\* their own: a RENAME, or two first JOINs at once, can give two Channel
\* objects one name.
AlwaysOnline ==
    \A a \in Accts, k \in Chans :
        /\ a \in Elements(members[k])
        /\ registry[name[k]] = k /\ SteadyName(k)
        /\ \A l \in Chans \ {k} : name[k] \notin former[l] \cup {name[l]}
        => accChans[a][name[k]] = k

----------------------------------------------------------------------------
(* The inductive invariants                                                 *)

Named(k) == k \in Chans /\ name[k] \in Names

\* Whatever points to a channel points to one that exists; one that does not
\* exist has no members.
NamedInv ==
    /\ \A n \in Names : registry[n] # Null => Named(registry[n])
    /\ \A a \in Accts, n \in Names : accChans[a][n] \in Chans => Named(accChans[a][n])
    /\ \A c \in Conns, n \in Names : connChans[c][n] # Null => Named(connChans[c][n])
    /\ \A c \in Conns : \A n \in todo[c] : accChans[AcctOf[c]][n] # Absent
    /\ \A c \in Conns : \A i \in 1 .. Len(inbox[c]) : Named(inbox[c][i][1])
    /\ \A k \in Chans : name[k] = Null => members[k] = << >>

\* What a handler has found out.
HandlerInv ==
    \A c \in Conns :
        /\ pc[c] \in {"create", "rename"} => arg[c] \in Names
        /\ pc[c] \in {"enter", "join", "part", "cast", "drop", "rename"} => Named(chan[c])
        /\ pc[c] = "join" /\ ptr[c] # Null => Named(ptr[c])

\* An account lists open connections of its own, all of them, and only those
\* have channels.
ListedInv ==
    \A c \in Conns :
        /\ \A a \in Accts : c \in conns[a] => a = AcctOf[c]
        /\ open[c] = "open" <=> c \in conns[AcctOf[c]]
        /\ pc[c] # "idle" => open[c] = "open"
        /\ (\E n \in Names : connChans[c][n] # Null) => open[c] = "open"

\* A worker runs one handler at a time.
MutexInv ==
    \A c, d \in Conns : Worker[c] = Worker[d] /\ pc[c] # "idle" /\ pc[d] # "idle" => c = d

\* Where a channel is found, it has the name or had it.
NamesInv ==
    \A n \in Names, k \in Chans :
        (registry[n] = k \/ \E c \in Conns : connChans[c][n] = k) =>
            n = name[k] \/ n \in former[k]

\* A PART that has told the connections finds the calls that will clear them on
\* their way, unless a JOIN came in between.
PartInv ==
    \A c, d \in Conns :
        LET k == chan[c] IN
        /\ pc[c] = "drop" /\ AcctOf[d] = AcctOf[c]
        /\ <<AcctOf[c], k>> \notin overtaken
        /\ SteadyName(k) /\ connChans[d][name[k]] = k
        => Queued(d, k)

\* chan_ptr is the channel itself where that is registered under its name.
PtrInv ==
    \A c \in Conns :
        LET k == chan[c] IN
        pc[c] = "join" /\ registry[name[k]] = k /\ SteadyName(k) => ptr[c] = k

\* The inductive invariant.
Inv ==
    /\ TypeOK /\ NamedInv /\ HandlerInv /\ ListedInv /\ MutexInv /\ MembersOnce
    /\ NamesInv /\ PartInv /\ PtrInv /\ ChannelsBacked /\ AlwaysOnline

----------------------------------------------------------------------------
\* PART takes effect: no connection goes on listing a channel that its account has
\* left, because the queued channel_part reaches every connection of the account that
\* existed when it left; all of it unless a JOIN from another worker overtook the PART.
PartReaches ==
    (\E c \in Conns, k \in Chans : Stale(c, k))
        ~> \/ crashed
           \/ \A c \in Conns, k \in Chans : Stale(c, k) => <<AcctOf[c], k>> \in overtaken
=============================================================================
