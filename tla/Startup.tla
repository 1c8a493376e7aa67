------------------------------- MODULE Startup -------------------------------
(***************************************************************************)
(* What the Ctx constructor does to the database and to memory: create the *)
(* schema, apply the preload file (servers, users, channels), then load    *)
(* every channel with its members and every account into the caches.       *)
(*                                                                         *)
(* Statements run one at a time and outside any transaction.  The process  *)
(* may be stopped between any two of them, and a statement may fail, which *)
(* is logged and otherwise treated as "not found" or "not done".  What is  *)
(* left to do is a stack of calls, todo; one action runs the call on top   *)
(* up to and including one statement that writes.  UUIDs, passwords,       *)
(* topics, owners and dates are left out: a row is known by its name.      *)
(*                                                                         *)
(* External: the database and its driver.  A name that is bound is the one *)
(* that is read again; the code binds those of servers and channels as     *)
(* QByteArray to columns of type TEXT.  A table that nobody writes is      *)
(* scanned in one order, though the SELECTs name none; nobody but the      *)
(* constructor writes before it has returned.                              *)
(***************************************************************************)
EXTENDS Naturals, SequencesExt

CONSTANTS
    Users,          \* user names, Admin among them
    Admin,          \* "admin"
    Servers,        \* server names
    Chans,          \* channel names
    NoFile,         \* the preload file cannot be read or parsed
    Configs,        \* the contents the preload file has at one start or another
    PageSize,       \* batch_size and limit, 100 in the code
    MaxRestarts,    \* bound on how often the process ends
    MaxFailures     \* bound on failing statements

\* An entry of "users" or "channels" may name a server that is not configured.
Config ==
    [servers : Seq(Servers),
     users : Seq([name : Users, server : Servers]),
     channels : Seq([name : Chans, server : Servers, members : Seq(Users)])]

ASSUME StartupAssumption ==
    /\ Admin \in Users
    /\ Configs \subseteq Config \cup {NoFile}
    /\ NoFile \notin Config
    /\ PageSize \in Nat \ {0}
    /\ MaxRestarts \in Nat
    /\ MaxFailures \in Nat

VARIABLES
    accounts,       \* table accounts, in the order a scan returns it
    servers,        \* table servers
    roles,          \* table roles: the servers that have an @everyone
    perms,          \* table permissions: the servers whose @everyone has a row
    members,        \* table server_members
    accRoles,       \* table account_roles: who has the @everyone of which server
    channels,       \* table channels, in the order a scan returns it
    chanMembers,    \* table account_channels
    mAccounts,      \* Ctx::accounts and its lookups
    mServers,       \* Ctx::servers and its lookups
    mRoles,         \* the servers whose m_roles has @everyone
    mServerAccts,   \* Server::m_accounts
    mServerChans,   \* Server::m_channels
    mChannels,      \* Ctx::channels
    mMembers,       \* Channel::m_members
    up,             \* the process exists
    config,         \* what it read from the preload file
    todo,           \* the calls it still has to make
    settled,        \* did the tables hold all that config asks for when it started?
    cleanStart,     \* has no statement of this start failed?
    wounded,        \* was a start ever cut short, or did a statement ever fail?
    restarts, failures

tables == <<accounts, servers, roles, perms, members, accRoles, channels, chanMembers>>
memory == <<mAccounts, mServers, mRoles, mServerAccts, mServerChans, mChannels, mMembers>>
counters == <<cleanStart, wounded, restarts, failures>>
vars == <<tables, memory, up, config, todo, settled, counters>>

ChannelNames == {channels[i].name : i \in DOMAIN channels}

----------------------------------------------------------------------------
\* The calls, each with the arguments it needs.
AdminCall == [op |-> "admin"]
ServerCall(s) == [op |-> "server", s |-> s]
RoleCall(s) == [op |-> "role", s |-> s]
PermissionCall(s) == [op |-> "permission", s |-> s]
AssignCall(n, s) == [op |-> "assign", n |-> n, s |-> s]
JoinCall(n, s) == [op |-> "join", n |-> n, s |-> s]
ServerMembersCall(s) == [op |-> "serverMembers", s |-> s]
UserCall(u) == [op |-> "user", n |-> u.name, s |-> u.server]
ChannelCall(c) == [op |-> "channel", c |-> c.name, s |-> c.server, list |-> c.members]
MemberCall(c, s, n) == [op |-> "member", c |-> c, s |-> s, n |-> n]
ChannelPage(offset, list) == [op |-> "channelPage", offset |-> offset, list |-> list]
ChannelMembersCall(c) == [op |-> "channelMembers", c |-> c]
AccountPage(offset) == [op |-> "accountPage", offset |-> offset]

\* "initial loading into memory: accounts & channels"
LoadCalls == <<ChannelPage(0, << >>), AccountPage(0)>>

\* preload_from_file, after the file has been read and parsed.
PreloadCalls(conf) ==
    <<AdminCall>>
    \o [i \in DOMAIN conf.servers |-> ServerCall(conf.servers[i])]
    \o [i \in DOMAIN conf.users |-> UserCall(conf.users[i])]
    \o [i \in DOMAIN conf.channels |-> ChannelCall(conf.channels[i])]

----------------------------------------------------------------------------
Init ==
    /\ accounts = << >> /\ servers = {} /\ roles = {} /\ perms = {}
    /\ members = {} /\ accRoles = {} /\ channels = << >> /\ chanMembers = {}
    /\ mAccounts = {} /\ mServers = {} /\ mRoles = {}
    /\ mServerAccts = [s \in Servers |-> {}]
    /\ mServerChans = [s \in Servers |-> {}]
    /\ mChannels = {} /\ mMembers = [c \in Chans |-> << >>]
    /\ up = FALSE /\ config = NoFile /\ todo = << >>
    /\ settled = FALSE /\ cleanStart = TRUE /\ wounded = FALSE
    /\ restarts = 0 /\ failures = 0

\* What a start with conf would have to find in the tables to have nothing to do.
ConfiguredServers(conf) == ToSet(conf.servers)
KnownUsers(conf) == {Admin} \cup {u.name : u \in ToSet(conf.users)}
UsersInTables(conf) ==
    /\ KnownUsers(conf) \subseteq ToSet(accounts)
    /\ \A s \in ConfiguredServers(conf) :
           s \in servers \cap roles /\ <<Admin, s>> \in members
    /\ \A u \in ToSet(conf.users) :
           u.server \in ConfiguredServers(conf) => <<u.name, u.server>> \in members
ChannelInTables(c, conf) ==
    /\ c.name \in ChannelNames
    /\ \A n \in ToSet(c.members) \cap KnownUsers(conf) : <<n, c.name>> \in chanMembers
InTables(conf) ==
    /\ UsersInTables(conf)
    /\ \A c \in ToSet(conf.channels) :
           \/ ChannelInTables(c, conf)
           \/ c.name \notin ChannelNames /\ c.server \notin ConfiguredServers(conf)

\* An @everyone that no start left half-made.
EveryoneComplete(s) == s \in perms /\ \A m \in members : m[2] = s => m \in accRoles

\* The Ctx constructor begins; create_schema leaves existing tables alone.
Start ==
    /\ ~up
    /\ up' = TRUE
    /\ \E conf \in Configs :
           /\ config' = conf
           /\ todo' = IF conf = NoFile THEN LoadCalls ELSE PreloadCalls(conf) \o LoadCalls
           /\ settled' = (/\ conf # NoFile /\ InTables(conf)
                          /\ \A s \in ConfiguredServers(conf) : EveryoneComplete(s))
    /\ cleanStart' = TRUE
    /\ UNCHANGED <<tables, memory, wounded, restarts, failures>>

\* The process ends: killed during its start, or stopped later.
Stop ==
    /\ up /\ restarts < MaxRestarts
    /\ restarts' = restarts + 1
    /\ up' = FALSE
    /\ mAccounts' = {} /\ mServers' = {} /\ mRoles' = {}
    /\ mServerAccts' = [s \in Servers |-> {}]
    /\ mServerChans' = [s \in Servers |-> {}]
    /\ mChannels' = {} /\ mMembers' = [c \in Chans |-> << >>]
    /\ todo' = << >>
    /\ wounded' = (wounded \/ todo # << >>)
    /\ UNCHANGED <<tables, config, settled, cleanStart, failures>>

\* The call on top of the stack is op; it leaves calls in its place.
Calling(op) == up /\ todo # << >> /\ Head(todo).op = op
Then(calls) == todo' = calls \o Tail(todo)
Return == Then(<< >>)

StatementSucceeds == UNCHANGED counters
StatementFails ==
    /\ failures < MaxFailures
    /\ failures' = failures + 1
    /\ cleanStart' = FALSE
    /\ wounded' = TRUE
    /\ UNCHANGED restarts

----------------------------------------------------------------------------
\* account_get_or_create: from the cache, from the table, or a new row.
AccountGetOrCreate(n) ==
    /\ accounts' = IF n \in mAccounts \cup ToSet(accounts) THEN accounts
                   ELSE Append(accounts, n)
    /\ mAccounts' = mAccounts \cup {n}

PreloadAdmin ==
    /\ Calling("admin")
    /\ UNCHANGED <<servers, roles, perms, members, accRoles, channels, chanMembers>>
    /\ UNCHANGED <<mServers, mRoles, mServerAccts, mServerChans, mChannels, mMembers>>
    /\ \/ StatementSucceeds /\ AccountGetOrCreate(Admin) /\ Return
       \/ \* "Failed to create default admin account": nothing else is preloaded
          StatementFails /\ todo' = LoadCalls /\ UNCHANGED <<accounts, mAccounts>>
    /\ UNCHANGED <<up, config, settled>>

\* server_get_or_create, and the second server_add_member of the loop.  Only a
\* server that is not cached is looked up and completed.
ServerGetOrCreate ==
    /\ Calling("server")
    /\ LET s == Head(todo).s IN
       \/ /\ s \in mServers
          /\ Then(<<JoinCall(Admin, s)>>)
          /\ UNCHANGED <<servers, mServers, counters>>
       \/ /\ s \notin mServers
          /\ StatementSucceeds
          /\ servers' = servers \cup {s}
          /\ mServers' = mServers \cup {s}
          /\ Then(<<RoleCall(s), JoinCall(Admin, s), ServerMembersCall(s), JoinCall(Admin, s)>>)
       \/ /\ s \notin mServers
          /\ StatementFails /\ Return /\ UNCHANGED <<servers, mServers>>
    /\ UNCHANGED <<accounts, roles, perms, members, accRoles, channels, chanMembers>>
    /\ UNCHANGED <<mAccounts, mRoles, mServerAccts, mServerChans, mChannels, mMembers>>
    /\ UNCHANGED <<up, config, settled>>

\* create_role_for_server: an existing @everyone is cached as it is, without a
\* look at its permission or its holders.
RoleExists(s) ==
    /\ s \in roles
    /\ StatementSucceeds /\ Return
    /\ mRoles' = mRoles \cup {s}
    /\ UNCHANGED roles

\* It reads the new row back before it caches the role.
RoleCreated(s) ==
    /\ s \notin roles
    /\ roles' = roles \cup {s}
    /\ \/ /\ StatementSucceeds
          /\ mRoles' = mRoles \cup {s}
          /\ Then(<<PermissionCall(s)>>
                  \o LET accts == SetToSeq(mServerAccts[s])
                     IN  [i \in DOMAIN accts |-> AssignCall(accts[i], s)])
       \/ StatementFails /\ Return /\ UNCHANGED mRoles

CreateRoleForServer ==
    /\ Calling("role")
    /\ LET s == Head(todo).s IN
       \/ RoleExists(s)
       \/ RoleCreated(s)
       \/ StatementFails /\ Return /\ UNCHANGED <<roles, mRoles>>
    /\ UNCHANGED <<accounts, servers, perms, members, accRoles, channels, chanMembers>>
    /\ UNCHANGED <<mAccounts, mServers, mServerAccts, mServerChans, mChannels, mMembers>>
    /\ UNCHANGED <<up, config, settled>>

\* permission_get_or_create
PermissionGetOrCreate ==
    /\ Calling("permission")
    /\ \/ StatementSucceeds /\ perms' = perms \cup {Head(todo).s}
       \/ StatementFails /\ UNCHANGED perms
    /\ Return
    /\ UNCHANGED <<accounts, servers, roles, members, accRoles, channels, chanMembers>>
    /\ UNCHANGED <<memory, up, config, settled>>

\* INSERT INTO account_roles ... ON CONFLICT DO NOTHING
AssignRole ==
    /\ Calling("assign")
    /\ \/ StatementSucceeds /\ accRoles' = accRoles \cup {<<Head(todo).n, Head(todo).s>>}
       \/ StatementFails /\ UNCHANGED accRoles
    /\ Return
    /\ UNCHANGED <<accounts, servers, roles, perms, members, channels, chanMembers>>
    /\ UNCHANGED <<memory, up, config, settled>>

\* Mutant of NewMemberCalls: a new member is given no role.
NoRoleForMember(n, s) == << >>

\* server_add_member returns at once for a member; a new one is assigned the
\* @everyone that is cached.
NewMemberCalls(n, s) == IF s \in mRoles THEN <<AssignCall(n, s)>> ELSE << >>

\* server_add_member and the add_account that follows it at every call.
ServerAddMember ==
    /\ Calling("join")
    /\ LET n == Head(todo).n
           s == Head(todo).s
       IN  /\ \/ /\ StatementSucceeds
                 /\ members' = members \cup {<<n, s>>}
                 /\ Then(IF <<n, s>> \in members THEN << >> ELSE NewMemberCalls(n, s))
              \/ StatementFails /\ Return /\ UNCHANGED members
           /\ mServerAccts' = [mServerAccts EXCEPT ![s] = @ \cup {n}]
    /\ UNCHANGED <<accounts, servers, roles, perms, accRoles, channels, chanMembers>>
    /\ UNCHANGED <<mAccounts, mServers, mRoles, mServerChans, mChannels, mMembers>>
    /\ UNCHANGED <<up, config, settled>>

\* "Load existing members from DB": those whose account is cached by now.
LoadServerMembers ==
    /\ Calling("serverMembers")
    /\ LET s == Head(todo).s IN
       \/ /\ StatementSucceeds
          /\ mServerAccts' = [mServerAccts EXCEPT ![s] =
                                 @ \cup {n \in mAccounts : <<n, s>> \in members}]
       \/ StatementFails /\ UNCHANGED mServerAccts
    /\ Return
    /\ UNCHANGED <<mAccounts, mServers, mRoles, mServerChans, mChannels, mMembers>>
    /\ UNCHANGED <<tables, up, config, settled>>

\* An entry of "users".
PreloadUser ==
    /\ Calling("user")
    /\ LET n == Head(todo).n
           s == Head(todo).s
       IN  \/ /\ StatementSucceeds
              /\ AccountGetOrCreate(n)
              /\ Then(IF s \in mServers THEN <<JoinCall(n, s)>> ELSE << >>)
           \/ /\ n \notin mAccounts
              /\ StatementFails /\ Return /\ UNCHANGED <<accounts, mAccounts>>
    /\ UNCHANGED <<servers, roles, perms, members, accRoles, channels, chanMembers>>
    /\ UNCHANGED <<mServers, mRoles, mServerAccts, mServerChans, mChannels, mMembers>>
    /\ UNCHANGED <<up, config, settled>>

----------------------------------------------------------------------------
\* Mutant of ChannelFound: the table is not looked at.
ChannelCached(c) == c \in mChannels

\* channel_get_or_create: from the cache, from the table by name alone, or a
\* new row, which needs a server.
ChannelFound(c) == c \in mChannels \cup ChannelNames

\* Mutant of MemberCalls: only a new channel gets its members.
NewChannelMembers(call) ==
    IF ChannelFound(call.c) THEN << >>
    ELSE [i \in DOMAIN call.list |-> MemberCall(call.c, call.s, call.list[i])]

\* The members of a channel entry, whether the channel is new or not.
MemberCalls(call) ==
    [i \in DOMAIN call.list |-> MemberCall(call.c, call.s, call.list[i])]

\* An entry of "channels".
PreloadChannel ==
    /\ Calling("channel")
    /\ LET c == Head(todo).c
           s == Head(todo).s
       IN  \/ /\ StatementSucceeds
              /\ ChannelFound(c) \/ s \in mServers
              /\ channels' = IF ChannelFound(c) THEN channels
                             ELSE Append(channels, [name |-> c, server |-> s])
              /\ mChannels' = mChannels \cup {c}
              /\ mServerChans' = IF s \in mServers
                                 THEN [mServerChans EXCEPT ![s] = @ \cup {c}]
                                 ELSE mServerChans
              /\ Then(MemberCalls(Head(todo)))
           \/ \* "called with null server for new channel"
              /\ StatementSucceeds
              /\ ~ChannelFound(c) /\ s \notin mServers
              /\ Return /\ UNCHANGED <<channels, mChannels, mServerChans>>
           \/ /\ c \notin mChannels
              /\ StatementFails
              /\ Return /\ UNCHANGED <<channels, mChannels, mServerChans>>
    /\ UNCHANGED <<accounts, servers, roles, perms, members, accRoles, chanMembers>>
    /\ UNCHANGED <<mAccounts, mServers, mRoles, mServerAccts, mMembers>>
    /\ UNCHANGED <<up, config, settled>>

\* One of its "members": unknown names are skipped, known ones enter the table
\* and the memory of the server, which may not have them in server_members.
PreloadMember ==
    /\ Calling("member")
    /\ LET n == Head(todo).n
           s == Head(todo).s
       IN  /\ \/ n \notin mAccounts /\ UNCHANGED <<chanMembers, counters>>
              \/ /\ n \in mAccounts
                 /\ StatementSucceeds
                 /\ chanMembers' = chanMembers \cup {<<n, Head(todo).c>>}
              \/ n \in mAccounts /\ StatementFails /\ UNCHANGED chanMembers
           /\ mServerAccts' = IF n \in mAccounts /\ s \in mServers
                              THEN [mServerAccts EXCEPT ![s] = @ \cup {n}]
                              ELSE mServerAccts
    /\ Return
    /\ UNCHANGED <<accounts, servers, roles, perms, members, accRoles, channels>>
    /\ UNCHANGED <<mAccounts, mServers, mRoles, mServerChans, mChannels, mMembers>>
    /\ UNCHANGED <<up, config, settled>>

----------------------------------------------------------------------------
\* A page of a table: LIMIT PageSize OFFSET offset.
Page(table, offset) == SubSeq(table, offset + 1, Min({offset + PageSize, Len(table)}))

\* Mutants of MorePages and NextOffset: one page; the offset stays.
OnePage(rows) == FALSE
SameOffset(offset) == offset

\* "if (rowCount < batch_size) break; offset += batch_size"
MorePages(rows) == Len(rows) >= PageSize
NextOffset(offset) == offset + PageSize

\* channel_get_all; then the members of each channel it returned.
MembersOf(list) == [i \in DOMAIN list |-> ChannelMembersCall(list[i])]
LoadChannels ==
    /\ Calling("channelPage")
    /\ LET offset == Head(todo).offset
           rows == Page(channels, offset)
           list == Head(todo).list \o [i \in DOMAIN rows |-> rows[i].name]
       IN  \/ /\ StatementSucceeds
              /\ mChannels' = mChannels \cup ToSet(list)
              /\ Then(IF MorePages(rows) THEN <<ChannelPage(NextOffset(offset), list)>>
                      ELSE MembersOf(list))
           \/ StatementFails /\ Then(MembersOf(Head(todo).list)) /\ UNCHANGED mChannels
    /\ UNCHANGED <<mAccounts, mServers, mRoles, mServerAccts, mServerChans, mMembers>>
    /\ UNCHANGED <<tables, up, config, settled>>

\* channel_get_members caches the accounts; addMembers appends them.
LoadChannelMembers ==
    /\ Calling("channelMembers")
    /\ LET c == Head(todo).c
           found == {n \in ToSet(accounts) : <<n, c>> \in chanMembers}
       IN  \/ /\ StatementSucceeds
              /\ mAccounts' = mAccounts \cup found
              /\ mMembers' = [mMembers EXCEPT ![c] = @ \o SetToSeq(found)]
           \/ StatementFails /\ UNCHANGED <<mAccounts, mMembers>>
    /\ Return
    /\ UNCHANGED <<mServers, mRoles, mServerAccts, mServerChans, mChannels>>
    /\ UNCHANGED <<tables, up, config, settled>>

\* account_get_all
LoadAccounts ==
    /\ Calling("accountPage")
    /\ LET offset == Head(todo).offset
           rows == Page(accounts, offset)
       IN  \/ /\ StatementSucceeds
              /\ mAccounts' = mAccounts \cup ToSet(rows)
              /\ Then(IF MorePages(rows) THEN <<AccountPage(NextOffset(offset))>> ELSE << >>)
           \/ StatementFails /\ Return /\ UNCHANGED mAccounts
    /\ UNCHANGED <<mServers, mRoles, mServerAccts, mServerChans, mChannels, mMembers>>
    /\ UNCHANGED <<tables, up, config, settled>>

Preload ==
    \/ PreloadAdmin \/ ServerGetOrCreate \/ CreateRoleForServer
    \/ PermissionGetOrCreate \/ AssignRole \/ ServerAddMember
    \/ LoadServerMembers \/ PreloadUser \/ PreloadChannel \/ PreloadMember

Load == LoadChannels \/ LoadChannelMembers \/ LoadAccounts

Next == Start \/ Stop \/ Preload \/ Load

\* A process that was started runs on, and one that ended is started again.
Fairness == WF_vars(Start) /\ WF_vars(Preload) /\ WF_vars(Load)

Spec == Init /\ [][Next]_vars /\ Fairness

----------------------------------------------------------------------------
Running == up /\ todo = << >>

\* An entry of "channels" whose server is not configured cannot create its channel;
\* another entry may do so later in the same start.
Lost(c, conf) ==
    /\ c.server \notin ConfiguredServers(conf)
    /\ \/ c.name \notin ChannelNames
       \/ \E d \in ToSet(conf.channels) :
              d.name = c.name /\ d.server \in ConfiguredServers(conf)

\* A start in which no statement failed leaves everything the preload file asks
\* for in the tables, whatever earlier starts were cut short or failed at, except
\* channels without a server.
ConfigApplied ==
    (Running /\ cleanStart /\ config # NoFile) =>
        /\ UsersInTables(config)
        /\ \A c \in ToSet(config.channels) : ChannelInTables(c, config) \/ Lost(c, config)

\* After such a start the caches hold exactly the accounts and channels of the
\* tables, those no longer configured and those of every page included, and
\* each channel lists each of its members once.
CachesMatch ==
    (Running /\ cleanStart) =>
        /\ mAccounts = ToSet(accounts)
        /\ mChannels = ChannelNames
        /\ \A c \in Chans :
               /\ ToSet(mMembers[c]) = {n \in Users : <<n, c>> \in chanMembers}
               /\ Len(mMembers[c]) = Cardinality(ToSet(mMembers[c]))

\* As long as no start was cut short and no statement failed, every member of a
\* server holds its @everyone and the role has its permission row.  After a
\* wound this can be lost for good: server_add_member and create_role_for_server
\* return early for rows that exist.
EveryoneHolds ==
    (Running /\ ~wounded) =>
        \A m \in members : m[2] \in roles \cap perms /\ m \in accRoles

\* A start that finds all of its configuration in the tables, and nothing half-made,
\* writes nothing: the lookups of account_get_or_create, channel_get_or_create,
\* server_get_or_create and server_add_member find every row there is.
StartIdempotent == [][settled => UNCHANGED tables]_vars

\* The start comes to its end: the page loops and the calls of calls do.
StartsUp == <>[]Running

----------------------------------------------------------------------------
(* The inductive invariant                                                 *)

TypeOK ==
    /\ accounts \in Seq(Users) /\ servers \subseteq Servers
    /\ roles \subseteq Servers /\ perms \subseteq Servers
    /\ members \subseteq Users \X Servers /\ accRoles \subseteq Users \X Servers
    /\ channels \in Seq([name : Chans, server : Servers])
    /\ chanMembers \subseteq Users \X Chans
    /\ mAccounts \subseteq Users /\ mServers \subseteq Servers /\ mRoles \subseteq Servers
    /\ mServerAccts \in [Servers -> SUBSET Users]
    /\ mServerChans \in [Servers -> SUBSET Chans]
    /\ mChannels \subseteq Chans /\ mMembers \in [Chans -> Seq(Users)]
    /\ up \in BOOLEAN /\ config \in Configs \cup {NoFile} /\ todo \in Seq(ToSet(todo))
    /\ settled \in BOOLEAN /\ cleanStart \in BOOLEAN /\ wounded \in BOOLEAN

Owed == ToSet(todo)

\* The calls there are, those of the preload file with what it holds.
PreloadCall(x) ==
    LET Mine == ConfiguredServers(config) IN
    \/ x = AdminCall
    \/ \E s \in Mine :
           \/ x \in {ServerCall(s), RoleCall(s), PermissionCall(s), ServerMembersCall(s)}
           \/ \E n \in Users : x \in {AssignCall(n, s), JoinCall(n, s)}
    \/ \E u \in ToSet(config.users) : x = UserCall(u)
    \/ \E c \in ToSet(config.channels) : x = ChannelCall(c)
    \/ \E c \in Chans, s \in Servers, n \in Users : x = MemberCall(c, s, n)

LoadCall(x) ==
    \/ /\ x.op = "channelPage" /\ x.offset \in Nat /\ x.list \in Seq(Chans)
       /\ x = ChannelPage(x.offset, x.list)
    \/ x.op = "channelMembers" /\ x.c \in Chans /\ x = ChannelMembersCall(x.c)
    \/ x.op = "accountPage" /\ x.offset \in Nat /\ x = AccountPage(x.offset)

\* The loops of the constructor, in their order.  What completes a server comes
\* before its members, and they before the next entry.
Rank(x) ==
    CASE x.op \in {"role", "permission", "assign"} -> 0
      [] x.op \in {"admin", "join", "serverMembers"} -> 1
      [] x.op = "server" -> 2
      [] x.op = "user" -> 3
      [] x.op \in {"channel", "member"} -> 4
      [] x.op = "channelPage" -> 5
      [] x.op = "channelMembers" -> 6
      [] x.op = "accountPage" -> 7

\* May x stand above y?  Channels are read once, and the members of each once.
Above(x, y) ==
    /\ Rank(x) <= Rank(y)
    /\ Rank(x) = 5 => Rank(y) = 7
    /\ Rank(x) = 6 => x # y

Ordered(calls) ==
    \A i, j \in DOMAIN calls : i < j => Above(calls[i], calls[j])

Preloading == \E x \in Owed : Rank(x) <= 4

StackInv ==
    /\ \A x \in Owed : LoadCall(x) \/ (config # NoFile /\ PreloadCall(x))
    /\ Ordered(todo)
    /\ Preloading => ChannelPage(0, << >>) \in Owed
    /\ ~up => /\ todo = << >> /\ mServers = {} /\ mRoles = {}
              /\ mAccounts = {} /\ mChannels = {} /\ \A c \in Chans : mMembers[c] = << >>

\* What is in memory is in the tables, and what is to be done is about it.
BackedInv ==
    /\ mAccounts \subseteq ToSet(accounts)
    /\ mChannels \subseteq ChannelNames
    /\ mRoles \subseteq roles
    /\ mServers # {} => config # NoFile /\ mServers \subseteq ConfiguredServers(config)
    /\ \A s \in Servers : IsFiniteSet(mServerAccts[s])
    /\ \A n \in Users, s \in Servers : JoinCall(n, s) \in Owed => s \in mServers
    /\ \A c \in Chans, s \in Servers, n \in Users :
           MemberCall(c, s, n) \in Owed => c \in ChannelNames
    /\ \A i, j \in DOMAIN channels : channels[i].name = channels[j].name => i = j
    /\ \A m \in chanMembers : m[1] \in ToSet(accounts) /\ m[2] \in ChannelNames

\* What a clean start has applied, or has still to apply.
AppliedInv ==
    (up /\ cleanStart /\ config # NoFile) =>
        /\ \A n \in KnownUsers(config) :
               \/ n \in mAccounts
               \/ n = Admin /\ AdminCall \in Owed
               \/ \E u \in ToSet(config.users) : u.name = n /\ UserCall(u) \in Owed
        /\ \A s \in ConfiguredServers(config) :
               /\ s \in mServers \/ ServerCall(s) \in Owed
               /\ \/ <<Admin, s>> \in members
                  \/ ServerCall(s) \in Owed \/ JoinCall(Admin, s) \in Owed
        /\ \A s \in mServers : s \in servers /\ (s \in roles \/ RoleCall(s) \in Owed)
        /\ \A u \in ToSet(config.users) : u.server \in ConfiguredServers(config) =>
               \/ <<u.name, u.server>> \in members
               \/ UserCall(u) \in Owed \/ JoinCall(u.name, u.server) \in Owed
        /\ \A c \in ToSet(config.channels) :
               \/ ChannelCall(c) \in Owed
               \/ Lost(c, config)
               \/ /\ c.name \in ChannelNames
                  /\ \A n \in ToSet(c.members) \cap KnownUsers(config) :
                         <<n, c.name>> \in chanMembers \/ MemberCall(c.name, c.server, n) \in Owed

\* The list of a channel, once it is read.
MembersListed(c) ==
    /\ ToSet(mMembers[c]) = {n \in Users : <<n, c>> \in chanMembers}
    /\ Len(mMembers[c]) = Cardinality(ToSet(mMembers[c]))

\* How far the tables have been read.
PagesInv ==
    /\ \A x \in Owed : x.op = "accountPage" =>
           \A k \in 1 .. x.offset : k \in DOMAIN accounts /\ accounts[k] \in mAccounts
    /\ \A x \in Owed : x.op = "channelPage" =>
           /\ Len(x.list) = x.offset
           /\ \A k \in 1 .. x.offset : k \in DOMAIN channels /\ channels[k].name = x.list[k]
    /\ (\E x \in Owed : Rank(x) <= 5) => \A c \in Chans : mMembers[c] = << >>
    /\ \A c \in Chans : /\ ChannelMembersCall(c) \in Owed => mMembers[c] = << >>
                        /\ mMembers[c] = << >> \/ MembersListed(c)

\* A clean start has read what it has not still to read.
LoadedInv ==
    (up /\ cleanStart) =>
        /\ ToSet(accounts) \subseteq mAccounts \/ \E x \in Owed : x.op = "accountPage"
        /\ ChannelNames \subseteq mChannels \/ \E x \in Owed : x.op = "channelPage"
        /\ \A c \in Chans :
               \/ MembersListed(c)
               \/ ChannelMembersCall(c) \in Owed
               \/ \E x \in Owed : x.op = "channelPage"

\* Without a wound, a role is followed by its permission and a member by its role.
EveryoneInv ==
    ~wounded =>
        /\ \A s \in mServers : s \in mRoles \/ RoleCall(s) \in Owed
        /\ \A s \in roles : s \in perms \/ PermissionCall(s) \in Owed
        /\ \A m \in members :
               m[2] \in roles /\ (m \in accRoles \/ AssignCall(m[1], m[2]) \in Owed)

\* A settled start has nothing to write.
SettledInv ==
    settled =>
        /\ config # NoFile /\ InTables(config)
        /\ \A x \in Owed : x.op \notin {"permission", "assign"}
        /\ \A n \in Users, s \in Servers : JoinCall(n, s) \in Owed => <<n, s>> \in members
        /\ \A c \in Chans, s \in Servers, n \in KnownUsers(config) :
               MemberCall(c, s, n) \in Owed => <<n, c>> \in chanMembers
        /\ Preloading => mAccounts \subseteq KnownUsers(config)

Inv ==
    /\ TypeOK /\ StackInv /\ BackedInv /\ AppliedInv
    /\ PagesInv /\ LoadedInv /\ EveryoneInv /\ SettledInv
=============================================================================
