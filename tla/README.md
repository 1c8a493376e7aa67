# A verification project for chatripper

chatripper is an IRC server in C++/Qt with embedded Python interpreters, a
WebSocket front end and a small web server. This directory holds TLA+ models of
its concurrent core, TLC configurations that check them on small instances, and
proofs that TLAPS checks for every instance. `PROJECT.json` maps each definition
to the source lines it models, and lists runs, mutants, hazards, findings and
theorems. All paths below are relative to the repository's `src/`.

## 1. The system

### Threads and how they meet

- The **main thread** accepts sockets for both `ThreadedServer`s (plain IRC and
  WebSocket) and owns `Account` and `Channel` objects.
- Each server has a pool of **worker threads** (`m_thread_count`, 4 in `Ctx`). A
  socket is dealt to one worker for life; all handlers of its
  `client_connection` run there, one at a time. Handlers of connections on
  different workers interleave.
- **Python threads**: every interpreter (`Snake`) has its own. A C++ thread
  that raises an event blocks until a Python handler returns
  (`SnakePit::callFunctionList`, `BlockingQueuedConnection`); Python code can
  call back into accounts and channels.
- Shared state: the caches of `Ctx` under `mtx_cache`, each `Account`,
  `Channel` and `client_connection` under an own `mtx_lock`, the counters
  `activeConnections` under a mutex per server. Locks are held for single
  statements, so a handler is a sequence of critical sections, and several
  pieces (`Ctx::channels`, `Account::connections` in `add_connection`) are
  touched without a lock.
- Two styles of delivery: `Channel::join` calls the other connections directly
  from the joiner's thread; `Channel::part`, `Channel::rename` and
  `Account::setNick` queue a call to each connection's thread.

### Components

| Component | State | Operations | What is hard | What makes it correct |
|---|---|---|---|---|
| Accepting connections (`irc/threaded_server.cpp`, `irc/worker.cpp`) | `activeConnections`, `m_next_worker`, queued `handleConnection` calls | accept, refuse, deal, serve, four ways to end | main thread counts up, workers count down; refusal hook runs under the mutex | counters exact, limit holds, nobody refused wrongly, slots come back |
| Registration, accounts, nicks (`irc/client_connection.cpp`, `core/account.cpp`, `ctx.cpp`) | `setup_tasks`, `m_nick`, `m_account`, `is_ready`; `Account::m_nick`, `connections`; the account caches and `irc_nicks` | CAP END, NICK, USER, AUTHENTICATE, QUIT, disconnect; `try_finalize_setup`, `setNick`, `merge` | check and write under different acquisitions; commands in any order; merging; a Python hook in the middle | caches hold exactly the live accounts; nicks unique; connection lists have no dangling pointer; every registration ends |
| Channels (`core/channel.cpp`) | `Ctx::channels`, `m_members`, `Account::channels`, `client_connection::channels` and `channel_members` | JOIN, PART, RENAME, restoring memberships at login | JOIN direct, PART queued; lookup and insert without a lock; rename leaves the keys | member listed once; connections and members agree once the queues are empty; memberships restored |
| Modes (`core/channel.cpp`, `irc/modes.h`) | `channel_modes`, key, bans, limit; user modes | MODE | `setMode` takes locks it holds | every command returns |
| Messages and history | the message table | PRIVMSG, TAGMSG, CHATHISTORY | Python may cancel or rewrite; receivers' capabilities differ; read locks taken twice | each receiver gets as many copies as it is due, a dropped message none |
| Metadata (`core/metadata.cpp`) | `m_metadata` of each target, its keys and subscribers; two tables | SET, CLEAR, GET, LIST, SUB, UNSUB, SUBS | objects created lazily and unlocked; cache written through to a table that may refuse | the cache agrees with the table; seen from outside it is a plain store |
| IRC lines and tags (`irc/utils.cpp`, `onReadyRead`) | `m_buffer` | `split_irc`, tag parsing, escaping and building | the network cuts anywhere; edge cases | lines in order and whole; parsing inverts formatting |
| Capability negotiation | `capabilities`, the static `client_cap_version` | CAP LS, REQ, LIST, END | requests before and after registration | replies and deliveries depend on the client's own capabilities |
| Python interpreters (`python/*`) | state and modules of each interpreter, the table `m_modules`, active events, round-robin index | start, restart, enable, disable, refresh, dispatch | blocking calls, sets rebuilt while used, values converted both ways | table and interpreters agree, an event is heard, every caller is answered |
| Web (`web/*`) | sessions, rate-limit table, uploaded files | login, upload, list, static files | pool threads, windows, expiry | limits hold at the boundaries; a session lasts as long as it is used; files are whole |
| Startup and database (`ctx.cpp`, `lib/sql.cpp`, servers, roles, permissions) | tables and the caches built from them | schema, preload file, initial load | the process dies or a statement fails between two of them; pages | what is configured is there; caches match tables; a second start changes nothing |

## 2. Modules

| Module | Contents |
|---|---|
| `ConnLimit` | admission: both servers, counters, dealing, all exits |
| `Roster` | identity: registration, accounts, nicks, caches |
| `Channels` | membership: channels, accounts, what connections know |
| `Startup` | the constructor of `Ctx`: schema, preload file, loading, with crashes and failing statements |
| `MetaStore` | abstract: what METADATA promises |
| `Metadata` | METADATA as written, with objects, tables and handlers; implements `MetaStore` |
| `Lines` | bytes to commands and back |
| `Chat` | capabilities, messages, modes and the locks between them |
| `SnakePit` | the interpreters, the table of modules, dispatch |
| `Web` | rate limits, sessions, uploads |
| `MC_*` | constants of the instances; the `.cfg` files name the specification and the properties |
| `SocketProofs`, `RosterProofs`, `ChannelsProofs`, `MetadataProofs`, `ChatProofs`, `SnakePitProofs`, `WebProofs`, `StartupProofs` | theorems and proofs; the inductive invariants stand in the modules they are about |

Where components meet, the boundary is stated in the modules: `Roster` decides
who is registered, `Channels` who is a member, `Chat` what a member is sent,
`SnakePit` what a hook called by the others may answer (cancel, rewrite, fail),
`Startup` in which state the caches are when the first client connects.

### `ConnLimit`

State: the life of every socket (`sock`), the server and address it was
accepted for, `activeConnections` (`active`, a missing entry is 0),
`m_next_worker` (`next`), the queued `handleConnection` calls (`queue`), a
history of how many sockets each worker got (`dealt`), and the server whose
refusal hook is running with the mutex held (`hook`).

`IncomingConnection` is `ThreadedServer::incomingConnection` up to the hook;
`HookReturns` is the return of the Python handler and the release of the mutex.
Both servers accept on the main thread, so no socket is accepted while a hook
runs. `HandleConnection` and `SetSocketDescriptorFails` are
`Worker::handleConnection`; `NewWsConnection` is the `newConnection` lambda of
`initWS`; `OnSocketDisconnected` and `DropOverlong` are the two ways
`client_connection::disconnected` is emitted. After an overlong line the slot is
given back before the socket is closed, by the destructor's `deleteLater` or by the
peer (`DroppedCloses`). `HandshakeFails` and `SocketCloses` are Qt's or the peer's
doing, and marked external.
A peer without an address (`remote_ip` 0) is not counted at accept, yet its
disconnect does decrement: the code's "remove at zero or below" is what keeps
that counter at zero. IPv6 peers end in `qFatal` on the WebSocket side and are
not modelled.

### `Roster`

One action is the part of a handler between two acquisitions of `mtx_cache` or
of an account's lock; `pc` is where a handler stands and `job` its local
variables. `Account::create` makes one anonymous account per connection, so the
account is named after the connection; database accounts are `Named`. The three
account caches are written together under one lock and are one set, `roster`.
`Lower` is `toLower` on the finite set of spellings.

| Code | Actions |
|---|---|
| `client_connection::init`, `handleCAP` END, `handleUSER` | `Connect`, `CapEnd`, `HandleUser`, `HandleUserTooLong` |
| `handleNICK` | `HandleFirstNick`, `HandleNick`, `HandleNickOld` |
| `Account::setNick` (from NICK or from Python, `PySetNick`) | `SetNickHook`, `SetNickLook`, `SetNickTaken`, `SetNickWrite`, `SetNickStore` |
| `try_finalize_setup` | `FinalizeNick`, `FinalizeMake`, `FinalizeSync`, `FinalizeAdd`, `FinalizeCache` |
| `handleAUTHENTICATE`, `Account::merge` | `Authenticate`, `AuthenticateFails`, `Merge`, `MergeDrop` |
| `handleQUIT`, `onSocketDisconnected`, `Account::onConnectionDisconnected` | `HandleQuit`, `Disconnect`, `DisconnectNick`, `DisconnectDrop` |

`forceDisconnect` asks the socket to close. Everywhere but in QUIT an error reply goes
before it, so there is something to write and `disconnected` comes later: lines already
in `m_buffer` are still handled, hence the phase `"closing"`. QUIT replies nothing; with
an empty write buffer `disconnected` is emitted inside the call and the worker frees the
connection whose `parseIncoming` and `onReadyRead` are still running. `HandleQuit`
therefore has three outcomes: the socket closes later, it is gone at once, or the
process dies of the freed object (`crashed`).

`add_connection` appends to a list without a lock; when the list changed since the
append began, `AppendOutcomes` allows either change to be lost. A worker that waits for
a lock is a disabled action. Numeric refusals that change nothing are not actions. The
server password is never set in the repository, so that check always passes. The hook
of NICK_CHANGE may cancel, put any nick in or empty it (`UsableNick` is the code's test
afterwards); whether it is registered is the constant `NickHook`. The broadcast at the
end of `setNick` only sends text. Restoring channels at the end of `try_finalize_setup`
is `Attach`/`Rejoin` of `Channels`.

Two history variables name the causes of what the code can get wrong. `raced` has the
accounts whose connection list changed while a connection was being appended to it.
`contested` has nicks: `Concerns(p)` are the nicks a running handler has read, checked
or is about to write; when it writes to `irc_nicks` or to an account's nick, the nicks it
shares with another running handler (`Rivals`) become contested (`Contest`), and so does
a nick that is entered with capitals. Neither variable is read by an action.

### `Channels`

A connection is attached to its account for good (registration is `Roster`'s).
`HandleJoin`/`JoinCreate` are the two halves of `get_or_create`, which takes no
lock; `JoinEnter` is `Channel::join` up to its write lock and `JoinApply` the
rest, with every `channel_join` it calls. `HandlePart`, `PartCheck`,
`PartBroadcast`, `PartDrop` are `handlePART` and the three critical sections of
`Channel::part`; `ChannelPart` is a queued `channel_part`. `HandleRename` and
`RenameApply` are RENAME; the calls it queues only send text. `Hooked` stands for Python
handlers: they may cancel a JOIN or a PART, and rewrite the `new_name` of a RENAME,
which they cannot cancel, because the code tests the hook's result as a
`QEventNickChange`, which it never is. `Attach`, `Rejoin` and `Ready` are the loop at the
end of `try_finalize_setup`. It walks the live map `Account::channels`, into which
`Channel::join` inserts: once the map has grown under a loop (`touched`), which entries
are still to come is anybody's guess (`Resume`). A list of names in one JOIN or PART
is several commands of one name each (a PART returns after the first name that
succeeded, so a list adds nothing). The connections of one account are dealt to any
workers.

History: `former`, the names a channel had before, and `overtaken`, the accounts whose
last JOIN of a channel fell between the broadcast and the removal of a PART.

A null `chan_ptr` is the value `Null`; joining through one ends the process
(`crashed`). It gets into `Account::channels` after a RENAME, because the
registry keeps the old key while `Channel::join` looks up the new name.

### `Startup`

What the constructor still has to do is a stack of calls, `todo`; an action runs
the call on top up to one statement that writes. `Stop` ends the process
anywhere, and any statement may fail (`StatementFails`), which the code logs and
treats as "not found" or "not done". The tables are variables of their own and
survive; the caches (`mAccounts`, `mServers`, ...) do not.

| Code | Actions |
|---|---|
| `Ctx::Ctx`, process life | `Start`, `Stop` |
| `sql::preload_from_file`, `server_get_or_create`, `create_role_for_server`, `server_add_member` and their helpers | `PreloadAdmin`, `ServerGetOrCreate`, `CreateRoleForServer`, `PermissionGetOrCreate`, `AssignRole`, `ServerAddMember`, `LoadServerMembers`, `PreloadUser`, `PreloadChannel`, `PreloadMember` |
| paged loading of channels, members and accounts | `LoadChannels`, `LoadChannelMembers`, `LoadAccounts` |

### `MetaStore` and `Metadata`

`MetaStore` is a store of values and subscribers in which each request takes
effect and is answered in one step. The first use of a target opens its store, with
whatever was saved (`Open`). Two things are left open: what a store holds after a
restart (`Closed`, until it is opened again), and a store that two workers broke by
making or reading its object at once (`Broken`).

`Metadata` has the code's steps: a handler finds the target's object or creates it from
the rows (`CreateMetadata`, `PublishMetadata`, without a lock), takes its pointer
(`FetchMetadata`), and works on it under its lock, writing through to the table
(`MetadataSet` ..., the `handle` of each subcommand). A channel made by JOIN has no uid, so
its rows can be neither found nor written (`Saved`). Two statements never do what they
are for: the DELETE of CLEAR binds the key as bytes where SET binds text, so the row
stays (`MetadataClear`), and the bulk INSERT of SUB fails (`MetadataSub`). SUBS reads the
subscribers without the lock (`TornSubs` when another worker is changing them). An
object keeps a `QSharedPointer` made of the raw pointer of its account or channel, so
one that is replaced destroys the account or channel that everybody still uses: `gone`,
after which the model stops, as nothing is known any more.

History: `stray`, the keys of an object whose last write, or whose loading, did not reach
the table, and `raced`, the targets used by two workers at once without a lock. The
refinement mapping (`Store`) reads the cached object where there is one. `Objs` is a
bound on the objects a process makes: a handler that needs one waits when all are in use.

### `Lines`

Bytes are one-character strings; `"FF"` is a byte that no UTF-8 text contains and comes
out of `fromUtf8` as the three bytes of U+FFFD. `Arrive` puts any prefix of what is on the
wire into the socket; `onReadyRead` appends it to `m_buffer`, cuts it at newlines,
dispatches each line through `parseIncoming` (`parseMessageTags`, `split_irc`),
drops a client whose buffer grows past the limit; `Relay` writes the tags of a
line the way a receiver gets them (`buildMessageTags`: the account tag, escaping and the
limit included). A RAW_MSG handler may leave a line alone, rewrite or cancel it
(`RAW_MSG`). Handlers of VERIFY_MSG_TAGS change nothing: `parseIncoming` tests their
result as a `QEventMessage`, which it never is, and reads nothing back.

### `Chat`

One channel with fixed members. A handler is cut at the locks it takes: PRIVMSG
and TAGMSG are `handlePRIVMSG`, `MessageHook`, `LockChannel` or `LockAccount`,
one `Send` per receiver, `TurnToOwn` for the sender's other connections, `Sent`;
MODE is `handleMODE`, `ModeLetter`, `SetMode`, `ModeDone`; a writer of an
account's lock (`setNick`) is `WantAccount`, `WriteAccount`; CAP is `CapReq` and
`CapEnd`. `QReadWriteLock` lets a waiting writer go before new readers; a handler
that waits is a disabled action.

### `SnakePit`

One action is one step of an interpreter's thread (`start`, `RunHandler`,
`executeFunction`, `Abort`), one critical section of a caller (`hasEventHandler`,
`Pick`, `Post`, `Answered`), one step of a thread that changes modules
(`enableModule`, `EachSnake`, `StoreEnabled`, `refreshModulesAll`, `restart`, ...)
or of the main thread (`onSnakesReady`, `StoreExclusive`). `RunHandler` is one turn of
`QIRC.call`, which goes through the handlers of an event up to the first that returns
nothing or raises; `executeFunction` then writes the event back. A handler may never return
(`"loop"`; nothing reads the timeout it was registered with), and it may change a nick
(`"rename"`): `setNick` then raises NICK_CHANGE in the interpreter's own thread, which
waits like a worker with its own lock held, so interpreters are callers too (`Askers`).
Handlers switched by another thread while they run use the same thread state there;
the model lets the change fall between two handlers (`EachSnake`), the best CPython may
make of it.

`restart` only sets `m_started_counter` to 0: the method it invokes by name on each
interpreter is neither a slot nor `Q_INVOKABLE`, so the calls fail. What an event carries
to Python and back is modelled by the conversions (`eventToPyHandle`, `TagsToPy`,
`updateGadget`, `PyObjectToQVariant`, `create_from_json`); for an event whose class is
not registered (`Untyped`; VERIFY_MSG_TAGS in the code) handlers get None. Nothing in the
repository calls `enableModule`, `disableModule`, `refreshModulesAll` or `restart`;
`Admins` stand for whatever thread does.

### `Web`

A request runs in a pool thread: a route's rate limit (`check`), `Login`,
`validateToken`, `usernameForToken`, `OpenFile`, `WriteFile`, `Respond`. `Tick` moves
the clock between any two; a second has `Ticks` ticks, because `secsTo` counts whole
seconds while windows start anywhere. `WriteFile` may write any part of an upload, since
the results of `write` and `flush` are not looked at; two uploads of one name write from
their own positions. History: `sharing`, the uploads that had a file open since it was
last emptied, and `cut`, those that were not written to the end.

## 3. Runs

| Run | Result | Distinct states | What it shows |
|---|---|---|---|
| `roster_serial` | pass | 139,948 | one worker, a hook on nicks: `TypeOK`, `NickIndexExact`, and the liveness property `RegistrationSettles` |
| `roster_concurrent` | pass | 843,910 | two workers and a Python thread: `RosterExact`, `AnonymousConnections`, `Registration`, `NickIndexExact`, `ConnectionsTracked`, `NoNickTheft` |
| `connlimit` | pass | 46,409 | `TypeOK`, `SlotsExact`, `PerIpLimit`, `EvenlyDealt`, `RefusalsJustified`, and the liveness property `SlotsReturned` |
| `channels` | pass | 303,812 | an account on two workers and another: `MembersOnce`, `ChannelsBacked`, `AlwaysOnline`, and the liveness property `PartReaches` |
| `startup` | pass | 572,027 | `ConfigApplied`, `CachesMatch`, `EveryoneHolds`, `StartIdempotent`, and the liveness property `StartsUp` |
| `metadata` | pass | 1,465,451 | two workers, a failing statement, a restart: `StaleOnlyIf`, `GoneOnlyIf`, `SubscriptionsKept`, `OwnersOnly` and the refinement `ImplementsStore` |
| `lines` | pass | 419,554 | all short streams in all fragmentations: `InOrder`, `SplitReversible`, `TagsArrive` |
| `chat` | pass | 278,742 | `DeliveredExactly`, and the liveness property `Answered` |
| `snakepit` | pass | 147,429 | two overlapping changes, one worker: `TableHonest`, `CalmCallsHeard` |
| `snakepit_workers` | pass | 154,220 | two workers and handlers that do not return: the liveness property `CallsReturn` |
| `web` | pass | 1,805,958 | `RateFair`, `SessionsSlide`, `FilesFresh` |
| `roster_unique` | violation | — | `NicksUnique`: two accounts with one nick, on one worker |

**Bounds.**

- `roster_*`, `connlimit`, `channels`: two connections are enough for every race
  between two handlers; a third party is the Python thread. Three sockets against
  a limit of two make a refusal and a release race; two workers make the
  round-robin index wrap. `MaxCommands` = 3 in `channels` is a JOIN, a PART and one
  more, from an account with connections on two workers and from another one, with
  `n1` loaded from the database, a rename of it and two objects left for new channels.
- `roster_serial` has one worker because there a nick becomes contested only between
  handlers that cannot interleave, that is never: the index is exact, and what the hook
  puts into the event is the interesting part. `roster_concurrent` has two nicks for two
  connections and a Python thread, so that all three meet on each. It has no
  capitals; `roster_unique` has, and the theorems hold with them.
- `startup`: three users against pages of two, so there is a full page, a short one
  and, when a table has two rows, an empty one; three ends of the process, so that
  a cut start, its repair and an idempotent third follow each other; one failing
  statement. The second file lists one channel twice, first under a server it does not
  configure.
- `metadata`: two creators of one object need two requests; the third sees the
  result. A request creates at most one object, so with the target's first one and
  what other handlers still hold four never run out.
- `lines`: all tag blocks of up to 3 bytes over the bytes the parser tests, one that is
  not UTF-8 and an ordinary one; all values of up to 4 bytes, and all pairs of
  escapes, over the letters of the escapes, so that each of the five characters that
  have one (semicolon, space, backslash, CR, LF) occurs in a value alone and next to another;
  all lines of up to 5 bytes; pairs of lines, the first of which a handler may cancel
  or replace. The limits are scaled to 10, so that both are reached.
- `chat`: a sender, another connection of his and another account, two messages
  and one change of mode or nick in between.
- `snakepit`: two interpreters (the pinned one and another), an exclusive and a
  concurrent module, two changes that may overlap, two calls so that one may span
  a change and the next sees its effect.
- `snakepit_workers`: two workers on two interpreters contend for `mtx_interpreter`; with
  two changes and three calls a module is enabled, and switched again while they wait;
  nick changes close a circle of the two interpreters and of one alone.
- `web`: more than twice the limit of requests (five against 2 x 2), windows and
  sessions of a second with two ticks, three ticks of time.

Symmetry is used where no liveness is checked and the constants treat the
elements alike: connections in `roster_concurrent`, pool threads in `web`. Which object
`new` returns makes no difference, so `Channels` and `Metadata` take one of the free ones.

**Deadlock** checking is off: clients may stop speaking, all connections may
have ended, the process may have crashed, and inputs are bounded. A handler
that can never continue would show up as a failure of the liveness properties.

**Mutants.** For every property of a passing run `PROJECT.json` names a mutated
definition (they stand before the definition they replace, marked "Mutant")
under which TLC finds the property violated.

**Fairness.** A worker's event loop runs a handler it began to its end and
delivers queued calls and disconnect signals; a socket told to close closes; a
Python handler returns. Nothing obliges a client to do anything. In `Channels`
a worker's event loop goes on while one of its handlers has begun or a call is queued to
one of its connections: commands are bounded, so this needs no fairness between them, and
Qt's event queue, a FIFO, gives more.
`SlotsReturned` also depends on there being finitely many sockets: `QMutex` is
not fair, and an endless stream of refusals could in principle starve a worker.
In `Startup` the process, once started, executes its statements, and one that
ended is started again by its supervisor; how often it ends is bounded. In `Chat`
each connection's handler that can go on does. In `SnakePit` the main thread, each
interpreter's thread and each caller or admin that can go on does; a handler that does
not return is not helped; nobody has to send an event or ask for a change.

## 4. Proofs

`SocketProofs` has two parts, the admission of a socket (`ConnLimit`) and what is
read from it (`Lines`). The first proves, for any finite set of sockets, any servers, addresses,
number of workers and limit (`ConnLimitAssumption`), that
`Inv` is inductive and from it `TypeOK`, `SlotsExact`, `PerIpLimit`,
`EvenlyDealt` and the action property `RefusalsJustified`. `SlotsExact` alone is
not inductive: a worker takes a socket from its queue, so the proof needs that
queued calls are for untouched sockets (`PostedInv`) and none is queued twice
(`OnceInv`); that a socket has its address from acceptance on (`AddressedInv`),
that unknown peers have a zero counter (`CountInv`); and for even loads the
position within the current round (`DealtInv`). Counting steps use lemmas that
one socket entering or leaving a class changes its cardinality by one.

The second part (`ReadInOrder`) proves `InOrder` of `Lines` for any set of byte
streams and any `MAX_BUFFER_SIZE` (`LinesAssumption`): however the network
fragments a stream, the lines handed to `parseIncoming` are the lines that were
sent, in order, each whole and once, and while the connection lasts each as soon
as its newline is read. `InOrder` is not inductive, because it says nothing of the
bytes between; `Inv` says that the stream falls into what was handled, which ends
with a newline, the buffer, which has none, and what is unread or under way. The
work is in the lemmas about `Split`, whose i-th cut is defined by counting: ranks
number the newlines (an injection between finite sets of one size), and putting a
stream behind another keeps the first one's cuts and moves the second one's
(`RankJoin`, `CutJoin`), so `CompleteLines` of whole lines and a rest are the
former's followed by the latter's (`HandledJoin`). What `parseIncoming` makes of a
line stays opaque there.

`RosterProofs` proves, for any number of connections, workers, Python threads,
accounts and nicks (`RosterAssumption`), that `Inv` is inductive and from it
`TypeOK`, `RosterExact`, `AnonymousConnections` and `Registration`. The
strengthening is `HandlerInv` (what a handler at each `pc` may rely on: its
connection lives, `m_account` is what earlier steps left) and `OwnListInv` (no
other thread touches the list of an anonymous account while its own finalize
step appends to it, which is why the unlocked append is harmless there). There
is one lemma per action; the steps of NICK and `setNick` share a frame lemma
(`NickFrame`), because they touch nothing the other conjuncts speak of.

`ListsTracked` (`ConnectionsTracked`), `NicksIndexed` (`NickIndexExact`) and `NicksKept`
(`NoNickTheft`) are proved in the same module, on any workers, with any Python threads and
any nicks, capitals included. `TrackInv` follows a connection from its append to its
disconnect. For `irc_nicks` the invariant is `NickInv`: `WriterInv` says what a step of
`setNick`, `try_finalize_setup` or the disconnect knows of the nicks it is about to write
(`KnowsNick`, `KnowsOwn`), which is what a check made under an earlier acquisition of the
lock is still worth; `IndexInv` that an account is found under its nick, or its `setNick`
stands between the write to `irc_nicks` and the one to the account; both up to contested
nicks. The argument for every step is the same: another handler is left undisturbed, or
it deals with a nick this step deals with, which is contested from then on
(`OthersKnow`). So the theorems say where the races are and that there are no others.

`ChannelsProofs` proves `MembersOnce`, `ChannelsBacked` and `AlwaysOnline` for any
connections on any workers, any accounts, channels and renames, and whatever the hooks
decide. `Inv` is inductive: what a handler holds is a channel that exists (`NamedInv`,
`HandlerInv`), so that a channel just created has no members yet; a connection finds a
channel under a name it has or had (`NamesInv`); between the broadcast and the removal of
a PART every connection of the account that lists the channel has the call in its queue,
unless a JOIN has fallen in between (`PartInv`); and the `chan_ptr` a JOIN found is the
channel where that is registered under a name new to it (`PtrInv`). The queues and
member lists are sequences; facts about their elements are lemmas, the ones that count
(`BoundedInduction`) by induction on a set of numbers instead of an operator.

`MetadataProofs` proves `StaleOnlyIf` and `GoneOnlyIf` with the invariant that an object
serves one target and is known to its maker alone until it is published (`OneTargetInv`),
and that where no two workers met, a handler has its target's object and one handler at a
time makes one (`CurrentInv`); and from it the action properties `SubscriptionsKept` and
`OwnersOnly`. `StoreImplemented` is the refinement, on any workers and with any failing
statements and restarts: every step of `Metadata` is a step of `MetaStore` or a stutter
under the mapping. The step that takes effect is the handler's last; publishing the
first object opens the store; creating one is invisible. A store breaks in one kind of
step only, when a second worker uses a target at once without a lock. Neither a failing
statement nor a refused one disturbs the store while the process runs: that the table
then differs is `StaleOnlyIf`'s matter.

`ChatProofs` proves `DeliveredExactly` for any number of senders, receivers and messages.
The invariant counts: `Sofar` says, from where a handler stands and whom it has left to
do, how many copies a receiver has, and `ProgressInv` that the inbox has just that many;
`NegotiatingInv` keeps connections that still negotiate out of every audience, so that
no capability changes under a message in flight.

`WebProofs` proves `RateFair`, `SessionsSlide` and `FilesFresh` for every limit, window,
lifetime and unit of the clock. For sessions: `expires` is the last use plus the
lifetime, so looking a token up twice cannot disagree with the history. For files: every
byte is of an upload that shares the file, and a file that one upload has for itself is
not longer than it; overlapping uploads and short writes are part of the statement. For
rates: the window of an address begins at a known index of its history of requests let
through, all before it are a period older, and a refusal comes after a run of
`MaxRequests` within the window; a count over any period then meets at most two windows.

`SnakePitProofs` proves `TableHonest` and `CalmCallsHeard` for any number of interpreters,
modules, callers and changing threads. A change that met no other knows what it has
done in the interpreters it has been to (`ProgressInv`); that it met no other is a
relation between all changes under way (`ChangeInv`), which also keeps what they concern
unsettled. `SettledInv` relates what is settled to the interpreters and to `m_modules`,
which a refresh or a start signal may empty but never fill wrongly; `HolderInv` says that
who holds `mtx_refresh` has been to all interpreters. A calm call rests on all of it
(`CalmInv`): nothing is under way, so every interpreter has what `m_modules` says, and
`RunInv` carries what its handlers have done to the answer, also through the calls
handlers cause in an interpreter's own thread. A restart changes nothing but the counter.

`StartupProofs` proves `ConfigApplied`, `CachesMatch`, `EveryoneHolds` and the action
property `StartIdempotent` for any preload files, page size and number of ends and
failing statements. All rest on the order of the stack (`StackInv`): the loops of the
constructor have ranks, a call only leaves calls of its own rank or an earlier loop,
and so nothing of an earlier loop is pending when a later one runs. With it each part of
the invariant says that a thing is done or a call that does it is still owed:
`AppliedInv` for what the file asks for, `EveryoneInv` for a role, its permission and its
holders, `LoadedInv` for the tables and the caches. An entry of a user finds its server
cached because no server call is left; a member is known because no user call is.
`PagesInv` ties an offset to the rows already read, also when the table has exactly a
multiple of the page size, and says that the lists of members are empty until they are
read, once each; `BackedInv` that the caches hold nothing the tables do not. For a
start that finds all its file asks for and no `@everyone` half-made, `SettledInv` carries
that each pending call finds its row, so that the start writes nothing. There is one
lemma per action on what it does to the stack (`AdminEffect` ... `AccountPageEffect`),
and the parts of the invariant are then proved one by one from those lemmas. The proof
corrected the property: `ConfigApplied` had excepted only entries whose channel does
not exist at the end, and was false where a later entry creates it (`Lost`, section 5).

Only model-checked:

- all liveness (`RegistrationSettles`, `SlotsReturned`, `PartReaches`, `StartsUp`,
  `Answered`, `CallsReturn`): the prover does not do fairness;
- `SplitReversible` and `TagsArrive` of `Lines`: joining and escaping are
  recursive over the data, and what a recursive definition computes for every input
  needs an induction the provers cannot instantiate.

## 5. Findings

The run `roster_unique` shows that **nicks are not unique**
(`irc/client_connection.cpp:1314`): the nick is entered as spelled and looked up in
lower case.

What follows was seen while modelling. The models do what the code does, so each is
a behaviour of its module; the properties are stated with the exception it makes.

Registration and connections:

- NICK after a refused registration dereferences a null `m_account`
  (`irc/client_connection.cpp:492`; the comment at `:480` says the client is "past
  connect bootstrap at this point").
- `merge` leaves `m_account` at the consumed account, so the adopting account keeps
  a freed connection (`irc/client_connection.cpp:1399`).
- A WebSocket handshake that never completes keeps its slot for good
  (`irc/worker.cpp:68`).
- `disconnectFromHost()` in QUIT frees the connection inside its own call when nothing
  is left to write (`irc/client_connection.cpp:1425`, `:1247`).
- `setNick` and `try_finalize_setup` check a nick and write it under different
  acquisitions of `mtx_cache` (`core/account.cpp:148`), and `add_connection` takes no lock
  (`core/account.cpp:253`): these are `contested` and `raced` in `Roster`.
- The comment at `ctx.cpp:49` speaks of 5 connections per address; the code allows 10.

Channels:

- PART then JOIN in one read: the queued `channel_part` undoes the JOIN on the
  connection (`core/channel.cpp:120`).
- `channel_part` clears the whole list of known members instead of removing the one
  who left, so the next PART is not passed on (`irc/client_connection.cpp:785`).
- A JOIN on another worker that falls between the broadcast and the removal of a PART of
  the same account leaves connections listing a channel the account is not in, with
  nothing queued to clear it (`core/channel.cpp:91`): `overtaken` in `Channels`.
- After a RENAME the registry keeps the old key while `Channel::join` looks up the new
  name, and stores a null pointer in `Account::channels`; the next login dereferences it
  (`core/channel.cpp:271`). Memberships of renamed channels are therefore not restored,
  and `AlwaysOnline` (`docs/design.md`) is stated without them.
- The hook of RENAME cannot cancel: its result is tested as a `QEventNickChange`
  (`core/channel.cpp:264`).
- `try_finalize_setup` walks `Account::channels` while `Channel::join` inserts into it
  (`irc/client_connection.cpp:1355`, `core/channel.cpp:115`).

Locks and Python:

- MODE `+k` and `+b` take the channel's non-recursive lock a second time and never
  return (`core/channel.cpp:306`); a private message takes its account's read lock
  twice and hangs if a writer comes in between (`core/account.cpp:218`). These are
  `Hung` in `Chat`.
- Handlers that change nicks make interpreters wait for each other, or for themselves,
  and a handler that never returns is never given up: nothing reads the timeout that
  `QIRC.on` stores (`python/qircd/qircd.py:180`). These are `Stuck` and `Loops` in
  `SnakePit`.
- `SnakePit::restart` invokes `"restart"` by name (`python/manager.cpp:59`), which is
  neither a slot nor `Q_INVOKABLE` (`python/interpreter.h:28`): no interpreter restarts.
- VERIFY_MSG_TAGS handlers get None, because `MessageTags` is not in
  `python/type_registry.cpp`, and what they return is ignored, while `docs/modules.md`
  says they may add and remove tags.
- Exclusive events may run in another interpreter while a module is being enabled:
  the two sets of active events are written one after the other and read
  without a lock (`python/manager.h:57` says "pinned to interpreter idx 0").
- A module that is listed always comes out disabled: Python's `True` arrives as a
  number and `toBool` of a JSON number is false (`python/utils.cpp:76`,
  `python/module.cpp:10`). A refresh therefore makes all modules unheard of.
- A handler that returns a message wipes the tags it came with
  (`python/utils.cpp:147`, `python/interpreter.cpp:698` and `:811`).
- A handler that returns None discards what earlier handlers did to the event, a
  cancellation included (`qircd.py`).
- An interpreter that failed to start ends the process when it is used.

Data, files and startup:

- CLEAR never deletes a row: `lib/sql.cpp:403` binds the key as `QByteArray` where SET and
  SUB bind `QString`, so a cleared value is back after a restart.
- `metadata()` makes its object without a lock (`core/account.h:119`), and the object owns
  its account or channel through a `QSharedPointer` of a raw `this`
  (`core/metadata.cpp:8`, `:15`): when a second one replaces it, the account or channel is
  destroyed under its users. SUBS reads the subscribers without the lock
  (`core/metadata.cpp:149`).
- An upload that a full disk cuts short is answered with 201 and its location
  (`web/routes/uploadroute.cpp:112`).
- Subscriptions live in memory only: the `ON CONFLICT` of `metadata_subscribe_bulk`
  names no existing constraint (`lib/sql.cpp:560`), so the statement always fails.
- A wounded start is not always repaired: `server_add_member` and
  `create_role_for_server` return early for rows that exist, so a member may stay
  without the `@everyone` of a server for good.
- A channel entry whose server is not configured is skipped with its members when the
  channel does not exist yet, even if a later entry of the same file creates it
  (`lib/sql.cpp:1362`, `:1685`); the next start, which finds the channel, adds them. This
  is `Lost` in `Startup`, and why `settled` asks for more than `ConfigApplied` promises.

## 6. Not modelled, and the plan

Not modelled: SQL text and row mapping, formatting of replies, MOTD, password
hashing, the code generator, vendored headers; directories, default files and
`main.cpp`; TOPIC (stores a text and announces it); CHATHISTORY (reads only);
user modes and mode queries (flags nothing consults); CAP LS and LIST, whose static
`client_cap_version` changes the wording of later answers only; GET and HEAD of
`/files`, OPTIONS and the JSON bodies of the web server; the functions Python may
call back, except `setNick`; SQL functions without a caller.

Taken for granted, each a named assumption of its module: that the database returns the
rows of consecutive pages in one order, though the SELECTs have no ORDER BY
(`lib/sql.cpp:1283`, `:1405`), and that a channel name bound as a `QByteArray` (`:1160`,
`:1184`, `:1342`, `:1385`) reads back as it was bound (`Startup`; in `Metadata`, where the
two ways of binding meet in one table, the difference is modelled). Outside the models:
the read lock of `mtx_cache` that `get_user` takes while Python runs; the recursive read
lock of `handleUSER` (listed as a hazard).

Left to do: the hazards of `PROJECT.json` that have no property (the recursive read lock of
`handleUSER`, requests captured by reference, the memberships PART leaves behind), and
TOPIC and the user modes should anything come to depend on them.
