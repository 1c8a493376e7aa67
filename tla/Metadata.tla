------------------------------ MODULE Metadata -------------------------------
(***************************************************************************)
(* METADATA (draft/metadata-2): Account::metadata() and Channel::metadata()*)
(* create a Metadata object at first use, unlocked, from the rows of the   *)
(* metadata table; handle() then works on that object under its lock and   *)
(* writes through to the table.                                            *)
(*                                                                         *)
(* The rows are found by the target's uid.  A channel made by JOIN has the *)
(* null uid, which is bound as NULL: its rows can be neither found nor     *)
(* inserted, and its metadata lives in memory only.                        *)
(*                                                                         *)
(* The object keeps a QSharedPointer of its own to the raw pointer of its  *)
(* account or channel.  Nothing happens while the object lives, but one    *)
(* that is replaced is destroyed, and takes the account or channel along   *)
(* that everybody else still uses.  From then on nothing is known.         *)
(*                                                                         *)
(* External: PostgreSQL.  Two statements never do what they are for: the   *)
(* DELETE of CLEAR compares the key, which it binds as bytes, with text,   *)
(* and matches no row; the INSERT of SUB names a conflict target that no   *)
(* constraint has, and fails, so that metadata_subs stays empty.           *)
(***************************************************************************)
EXTENDS Naturals, FiniteSets, Functions

CONSTANTS
    Accts, Targets, Owner, Keys, Vals, Unset, Empty, Silent, Nobody, Closed, Broken,
                    \* as in MetaStore
    Saved,          \* targets with a uid
    Objs, Null,     \* Metadata objects; a null pointer
    Commands,       \* the subcommands the clients send
    Worker,         \* the worker thread of each account's connection
    MaxRequests, MaxFailures, MaxRestarts   \* bounds

ASSUME MetadataAssumption ==
    /\ Owner \in [Targets -> Accts \cup {Nobody}]
    /\ Saved \subseteq Targets /\ \A t \in Targets \ Saved : Owner[t] = Nobody
    /\ {Unset, Empty, Silent} \cap Vals = {} /\ Cardinality({Unset, Empty, Silent}) = 3
    /\ {Closed, Broken} \cap [Keys -> Vals \cup {Unset}] = {} /\ Closed # Broken
    /\ Nobody \notin Accts /\ Null \notin Objs \cup Targets \cup Keys \cup Vals
    /\ Commands \subseteq {"SET", "CLEAR", "GET", "LIST", "SUB", "UNSUB", "SUBS"}
    /\ MaxRequests \in Nat /\ MaxFailures \in Nat /\ MaxRestarts \in Nat

Values == Vals \cup {Unset}

VARIABLES
    obj,        \* m_metadata of each target
    kv, subs,   \* Metadata::kv and Metadata::subscribers of each object
    table,      \* table metadata
    pc, req, ptr,   \* where each account's handler stands, its request, its object
    answer,     \* what client_connection::metadata last told each account
    stray,      \* history: of each object, the keys whose last write has not reached the table
    raced,      \* history: targets that two workers have used at once without a lock
    gone,       \* targets whose C++ object is no more
    requests, failures, restarts

memory == <<obj, kv, subs>>
faults == <<stray, raced, gone>>
counters == <<requests, failures, restarts>>
vars == <<memory, table, pc, req, ptr, answer, faults, counters>>

NoValues == [k \in Keys |-> Unset]
NoSubs == [k \in Keys |-> {}]
Request(cmd, t, k, v) == [cmd |-> cmd, t |-> t, k |-> k, v |-> v]
NoRequest == Request("none", Null, Null, Null)

\* The replies: RPL_KEYVALUE or RPL_KEYNOTSET for a key, RPL_METADATASUBOK for
\* the keys of a subscription command, or FAIL.
NoReply == [told |-> [k \in Keys |-> Silent], subs |-> {}, failed |-> FALSE]
Tell(k, v) == [NoReply EXCEPT !.told[k] = v]
TellAll(map) == [NoReply EXCEPT !.told = map]
Confirm(keys) == [NoReply EXCEPT !.subs = keys]
Refuse == [NoReply EXCEPT !.failed = TRUE]

Init ==
    /\ obj = [t \in Targets |-> Null]
    /\ kv = [o \in Objs |-> NoValues]
    /\ subs = [o \in Objs |-> NoSubs]
    /\ table = [t \in Targets |-> NoValues]
    /\ pc = [a \in Accts |-> "idle"]
    /\ req = [a \in Accts |-> NoRequest]
    /\ ptr = [a \in Accts |-> Null]
    /\ answer = [a \in Accts |-> NoReply]
    /\ stray = [o \in Objs |-> {}]
    /\ raced = {} /\ gone = {}
    /\ requests = 0 /\ failures = 0 /\ restarts = 0

WorkerIdle(a) == \A b \in Accts : Worker[b] = Worker[a] => pc[b] = "idle"

At(a, step) == pc[a] = step
Goto(a, step) == pc' = [pc EXCEPT ![a] = step]

\* A statement fails: it is logged and its effect is missing.
Fails == failures < MaxFailures /\ failures' = failures + 1 /\ UNCHANGED <<requests, restarts>>
Succeeds == UNCHANGED counters

----------------------------------------------------------------------------
\* Mutant of FirstStep: metadata() makes an object at every call.
AlwaysCreate(t) == "create"

\* if (m_metadata.isNull()), read without a lock
FirstStep(t) == IF obj[t] = Null THEN "create" ELSE "fetch"

\* Another worker is making the target's object.
Making(b, t) == pc[b] \in {"create", "publish"} /\ req[b].t = t

\* handleMETADATA finds the target and asks it for its metadata().
HandleMetadata(a, r) ==
    /\ WorkerIdle(a) /\ requests < MaxRequests
    /\ requests' = requests + 1
    /\ req' = [req EXCEPT ![a] = r]
    /\ answer' = [answer EXCEPT ![a] = NoReply]
    /\ Goto(a, FirstStep(r.t))
    /\ raced' = IF FirstStep(r.t) = "create" /\ \E b \in Accts : Making(b, r.t)
                 THEN raced \cup {r.t} ELSE raced
    /\ UNCHANGED <<memory, table, ptr, stray, gone, failures, restarts>>

InUse(o) == o \in Range(obj) \cup Range(ptr)

\* The Metadata constructor: metadata_get returns the rows of the uid, or
\* nothing when the query fails, and no subscribers.
CreateMetadata(a) ==
    /\ At(a, "create")
    /\ \E x \in Objs : ~InUse(x)
    /\ LET o == CHOOSE x \in Objs : ~InUse(x)
           t == req[a].t
       IN  /\ ptr' = [ptr EXCEPT ![a] = o]
           /\ subs' = [subs EXCEPT ![o] = NoSubs]
           /\ \/ /\ Succeeds
                 /\ kv' = [kv EXCEPT ![o] = table[t]]
                 /\ stray' = [stray EXCEPT ![o] = {}]
              \/ /\ Fails
                 /\ kv' = [kv EXCEPT ![o] = NoValues]
                 /\ stray' = [stray EXCEPT ![o] = Keys]
    /\ Goto(a, "publish")
    /\ UNCHANGED <<obj, table, req, answer, raced, gone>>

\* Nobody but a has the object.
HeldOnlyBy(a, o) == \A b \in Accts \ {a} : ptr[b] # o

\* m_metadata = ..., which another thread may have set meanwhile: what it had set is
\* destroyed now, or when the last handler that uses it returns.
PublishMetadata(a) ==
    /\ At(a, "publish")
    /\ LET t == req[a].t IN
       /\ obj' = [obj EXCEPT ![t] = ptr[a]]
       /\ gone' = IF obj[t] # Null /\ HeldOnlyBy(a, obj[t]) THEN gone \cup {t} ELSE gone
    /\ ptr' = [ptr EXCEPT ![a] = Null]
    /\ Goto(a, "fetch")
    /\ UNCHANGED <<kv, subs, table, req, answer, stray, raced, counters>>

\* return m_metadata;
FetchMetadata(a) ==
    /\ At(a, "fetch")
    /\ ptr' = [ptr EXCEPT ![a] = obj[req[a].t]]
    /\ Goto(a, "handle")
    /\ UNCHANGED <<memory, table, req, answer, faults, counters>>

\* The handler returns and the reply is sent.
Finish(a, reply) ==
    /\ answer' = [answer EXCEPT ![a] = reply]
    /\ Goto(a, "idle")
    /\ gone' = IF ptr[a] # obj[req[a].t] /\ HeldOnlyBy(a, ptr[a]) THEN gone \cup {req[a].t} ELSE gone
    /\ ptr' = [ptr EXCEPT ![a] = Null]
    /\ req' = [req EXCEPT ![a] = NoRequest]
    /\ UNCHANGED <<obj, raced>>

Handling(a, cmd) == At(a, "handle") /\ req[a].cmd = cmd

\* Mutant of NoPermission: any account may write.
AllPermitted(a) == FALSE

\* Only an account's own metadata is protected; a channel's is open to all.
NoPermission(a) == Owner[req[a].t] \notin {Nobody, a}

\* Mutant of Upsert: an existing row is left as it is.
InsertOnly(t, k, v) == [table EXCEPT ![t][k] = IF @ = Unset THEN v ELSE @]

\* INSERT ... ON CONFLICT (ref_id, key) DO UPDATE; ref_id is NOT NULL.
Upsert(t, k, v) == IF t \in Saved THEN [table EXCEPT ![t][k] = v] ELSE table

\* set: the cache first, then the table, under one write lock.
MetadataSet(a) ==
    /\ Handling(a, "SET") /\ ~NoPermission(a)
    /\ LET t == req[a].t
           k == req[a].k
           v == req[a].v
           o == ptr[a]
       IN  /\ kv' = [kv EXCEPT ![o][k] = v]
           /\ \/ Succeeds /\ table' = Upsert(t, k, v) /\ stray' = [stray EXCEPT ![o] = @ \ {k}]
              \/ Fails /\ stray' = [stray EXCEPT ![o] = @ \cup {k}] /\ UNCHANGED table
           /\ Finish(a, Tell(k, v))
    /\ UNCHANGED subs

\* Mutant of Removed: the value stays in the cache.
NotRemoved(a) == kv

Removed(a) == [kv EXCEPT ![ptr[a]][req[a].k] = Unset]

\* remove: the row stays, whether the statement fails or not.
MetadataClear(a) ==
    /\ Handling(a, "CLEAR") /\ ~NoPermission(a)
    /\ kv' = Removed(a)
    /\ stray' = [stray EXCEPT ![ptr[a]] = @ \cup {req[a].k}]
    /\ Finish(a, Tell(req[a].k, Empty))
    /\ UNCHANGED <<subs, table, counters>>

\* "KEY_NO_PERMISSION"
MetadataRefused(a) ==
    /\ \E cmd \in {"SET", "CLEAR"} : Handling(a, cmd)
    /\ NoPermission(a)
    /\ Finish(a, Refuse)
    /\ UNCHANGED <<kv, subs, table, stray, counters>>

MetadataGet(a) ==
    /\ Handling(a, "GET")
    /\ Finish(a, Tell(req[a].k, kv[ptr[a]][req[a].k]))
    /\ UNCHANGED <<kv, subs, table, stray, counters>>

MetadataList(a) ==
    /\ Handling(a, "LIST")
    /\ Finish(a, TellAll([k \in Keys |->
                    IF kv[ptr[a]][k] = Unset THEN Silent ELSE kv[ptr[a]][k]]))
    /\ UNCHANGED <<kv, subs, table, stray, counters>>

\* Mutant of Subscribers: a new subscriber replaces the others.
OnlySubscriber(a) == [subs EXCEPT ![ptr[a]][req[a].k] = {a}]

Subscribers(a) == [subs EXCEPT ![ptr[a]][req[a].k] = @ \cup {a}]

\* sub: the INSERT of metadata_subscribe_bulk fails and is rolled back.
MetadataSub(a) ==
    /\ Handling(a, "SUB")
    /\ subs' = Subscribers(a)
    /\ Finish(a, Confirm({req[a].k}))
    /\ UNCHANGED <<kv, table, stray, counters>>

MetadataUnsub(a) ==
    /\ Handling(a, "UNSUB")
    /\ subs' = [subs EXCEPT ![ptr[a]][req[a].k] = @ \ {a}]
    /\ Finish(a, Confirm({req[a].k}))
    /\ UNCHANGED <<kv, table, stray, counters>>

\* What SUBS tells a, only a itself can change.
MetadataSubs(a) ==
    /\ Handling(a, "SUBS")
    /\ Finish(a, Confirm({k \in Keys : a \in subs[ptr[a]][k]}))
    /\ UNCHANGED <<kv, subs, table, stray, counters>>

\* But SUBS takes no lock, and reads a map that SUB or UNSUB may be changing.
TornSubs(a) ==
    /\ Handling(a, "SUBS")
    /\ \E b \in Accts \ {a}, cmd \in {"SUB", "UNSUB"} : Handling(b, cmd) /\ ptr[b] = ptr[a]
    /\ raced' = raced \cup {req[a].t} /\ gone' = gone \cup {req[a].t}
    /\ UNCHANGED <<memory, table, pc, req, ptr, answer, stray, counters>>

\* The server stops between two steps and starts again: only the table stays.
Restart ==
    /\ restarts < MaxRestarts
    /\ restarts' = restarts + 1
    /\ obj' = [t \in Targets |-> Null]
    /\ kv' = [o \in Objs |-> NoValues]
    /\ subs' = [o \in Objs |-> NoSubs]
    /\ pc' = [a \in Accts |-> "idle"]
    /\ req' = [a \in Accts |-> NoRequest]
    /\ ptr' = [a \in Accts |-> Null]
    /\ answer' = [a \in Accts |-> NoReply]
    /\ stray' = [o \in Objs |-> {}]
    /\ raced' = {} /\ gone' = {}
    /\ UNCHANGED <<table, requests, failures>>

Handle(a) ==
    \/ MetadataSet(a) \/ MetadataClear(a) \/ MetadataRefused(a)
    \/ MetadataGet(a) \/ MetadataList(a)
    \/ MetadataSub(a) \/ MetadataUnsub(a) \/ MetadataSubs(a)

\* Requests with the arguments their command reads, one key each.
Requests ==
    {Request(cmd, t, k, v) : cmd \in Commands \cap {"SET"},
                             t \in Targets, k \in Keys, v \in Vals}
    \cup {Request(cmd, t, k, Null) : cmd \in Commands \cap {"CLEAR", "GET", "SUB", "UNSUB"},
                                     t \in Targets, k \in Keys}
    \cup {Request(cmd, t, Null, Null) : cmd \in Commands \cap {"LIST", "SUBS"}, t \in Targets}

Next ==
    \/ Restart
    \/ /\ gone = {}
       /\ \E a \in Accts :
             \/ \E r \in Requests : HandleMetadata(a, r)
             \/ CreateMetadata(a) \/ PublishMetadata(a) \/ FetchMetadata(a)
             \/ Handle(a) \/ TornSubs(a)

Spec == Init /\ [][Next]_vars

----------------------------------------------------------------------------
(* Properties                                                               *)

\* The cached value of a key is the row's, unless the target has no uid, two workers
\* have made its object at once, or the key's own last write, or the loading of the
\* object, has not reached the table: a later SET that succeeds makes them agree again
\* (Metadata::set, remove, the constructor).
StaleOnlyIf ==
    \A t \in Saved \ raced : obj[t] # Null =>
        \A k \in Keys \ stray[obj[t]] : kv[obj[t]][k] = table[t][k]

\* An account or channel is not destroyed under those who use it, unless two workers
\* have made its object at once, or have read and changed its subscribers at once
\* (Account::metadata, Channel::metadata and the raw pointer they pass).
GoneOnlyIf == gone \subseteq raced

\* Until the next restart, an account's subscription to a target is withdrawn by that
\* account's own UNSUB only, unless one of two workers that made the target's object
\* replaces the other's (Metadata::sub, unsub, Account::metadata).
WithdrawnBySelf ==
    \A t \in Targets, k \in Keys, a \in Accts :
        (/\ restarts' = restarts
         /\ obj[t] # Null /\ (obj'[t] = obj[t] \/ t \notin raced)
         /\ a \in subs[obj[t]][k] /\ a \notin subs'[obj'[t]][k])
            => (Handling(a, "UNSUB") /\ req[a].k = k)
SubscriptionsKept == [][WithdrawnBySelf]_vars

\* The rows and the cached values of an account change only when a request of
\* that account is handled; creating or replacing its object reads the rows
\* (Metadata::handle, the permission check of SET and CLEAR).
WrittenByOwner ==
    \A t \in Targets :
        (/\ Owner[t] # Nobody
         /\ \/ table'[t] # table[t]
            \/ obj[t] # Null /\ obj'[t] = obj[t] /\ kv'[obj[t]] # kv[obj[t]])
            => (At(Owner[t], "handle") /\ ~At(Owner[t], "handle")')
OwnersOnly == [][WrittenByOwner]_vars

\* The store of values and subscriptions the users see.
StoreMap ==
    [t \in Targets |-> IF t \in raced THEN Broken ELSE IF obj[t] = Null THEN Closed ELSE kv[obj[t]]]
SubMap == [t \in Targets |-> IF t \in raced \/ obj[t] = Null THEN NoSubs ELSE subs[obj[t]]]

Store == INSTANCE MetaStore WITH store <- StoreMap, subscribed <- SubMap, answer <- answer

\* On any workers and with any failing statements, the objects are such a store from
\* their first use on: every answer is the value last set, and the subscribers are those
\* who asked for it last (Metadata::handle and the locks of set, remove, sub, unsub).
ImplementsStore == Store!Spec

----------------------------------------------------------------------------
(* The inductive invariant                                                  *)

Steps == {"idle", "create", "publish", "fetch", "handle"}

TypeOK ==
    /\ obj \in [Targets -> Objs \cup {Null}]
    /\ kv \in [Objs -> [Keys -> Values]]
    /\ subs \in [Objs -> [Keys -> SUBSET Accts]]
    /\ table \in [Targets -> [Keys -> Values]]
    /\ pc \in [Accts -> Steps]
    /\ req \in [Accts -> Requests \cup {NoRequest}]
    /\ ptr \in [Accts -> Objs \cup {Null}]
    /\ stray \in [Objs -> SUBSET Keys]
    /\ raced \subseteq Targets
    /\ requests \in Nat /\ failures \in Nat /\ restarts \in Nat

\* What a handler has found out.
HandlerInv ==
    \A a \in Accts :
        /\ pc[a] # "idle" => req[a] \in Requests
        /\ pc[a] \in {"publish", "handle"} => ptr[a] \in Objs
        /\ pc[a] \in {"idle", "create", "fetch"} => ptr[a] = Null
        /\ pc[a] \in {"fetch", "handle"} => obj[req[a].t] \in Objs

\* An object serves one target, and only its maker knows it before it is
\* published.
OneTargetInv ==
    /\ \A t, u \in Targets : obj[t] \in Objs /\ obj[t] = obj[u] => t = u
    /\ \A a \in Accts, t \in Targets : ptr[a] \in Objs /\ ptr[a] = obj[t] => req[a].t = t
    /\ \A a \in Accts : pc[a] = "publish" =>
           /\ \A t \in Targets : obj[t] # ptr[a]
           /\ \A b \in Accts : ptr[b] = ptr[a] => b = a

\* Where no two workers met, a handler has its target's object, and one handler at a
\* time makes one: the target's first, with the rows of the table.
CurrentInv ==
    \A a \in Accts : req[a].t \notin raced =>
        LET t == req[a].t IN
        /\ pc[a] = "handle" => ptr[a] = obj[t]
        /\ Making(a, t) => obj[t] = Null /\ \A b \in Accts \ {a} : ~Making(b, t)
        /\ pc[a] = "publish" /\ t \in Saved =>
              \A k \in Keys \ stray[ptr[a]] : kv[ptr[a]][k] = table[t][k]

Inv == TypeOK /\ HandlerInv /\ OneTargetInv /\ CurrentInv /\ StaleOnlyIf /\ GoneOnlyIf
=============================================================================
