--------------------------- MODULE MetadataProofs ---------------------------
(***************************************************************************)
(* Proofs about Metadata, for any number of accounts, targets, keys,       *)
(* values, workers, failing statements and restarts: a cached value        *)
(* differs from its row only for the causes named, no account or channel   *)
(* is destroyed unless two workers raced, subscriptions are withdrawn by   *)
(* the subscriber only, an account's keys are written by its owner only,   *)
(* and the objects implement the store of MetaStore.                       *)
(***************************************************************************)
EXTENDS Metadata, TLAPS

-----------------------------------------------------------------------------
\* What the steps need to know about the constants.
LEMMA Constants ==
    /\ Owner \in [Targets -> Accts \cup {Nobody}] /\ Nobody \notin Accts
    /\ Null \notin Objs /\ Null \notin Targets /\ Null \notin Keys
    /\ Saved \subseteq Targets /\ Vals \subseteq Values /\ Unset \in Values
    /\ Closed \notin [Keys -> Values] /\ Broken \notin [Keys -> Values] /\ Closed # Broken
    /\ MaxFailures \in Nat
  BY MetadataAssumption DEF Values

\* Every request has a target, and the arguments its command reads.
LEMMA RequestArguments ==
    ASSUME NEW r \in Requests
    PROVE  /\ r.t \in Targets
           /\ r.cmd = "SET" => r.k \in Keys /\ r.v \in Vals
           /\ r.cmd \in {"CLEAR", "GET", "SUB", "UNSUB"} => r.k \in Keys
  <1>1. CASE \E cmd \in Commands \cap {"SET"}, t \in Targets, k \in Keys, v \in Vals :
                 r = Request(cmd, t, k, v)
    BY <1>1 DEF Request
  <1>2. CASE \E cmd \in Commands \cap {"CLEAR", "GET", "SUB", "UNSUB"},
                t \in Targets, k \in Keys : r = Request(cmd, t, k, Null)
    BY <1>2 DEF Request
  <1>3. CASE \E cmd \in Commands \cap {"LIST", "SUBS"}, t \in Targets :
                 r = Request(cmd, t, Null, Null)
    BY <1>3 DEF Request
  <1> QED
    BY <1>1, <1>2, <1>3 DEF Requests

\* One entry of a map of maps is replaced.
LEMMA EntryReplaced ==
    ASSUME NEW S, NEW K, NEW V, NEW f \in [S -> [K -> V]], NEW s \in S, NEW k \in K, NEW v \in V
    PROVE  [f EXCEPT ![s][k] = v] \in [S -> [K -> V]]
  <1>1. [f[s] EXCEPT ![k] = v] \in [K -> V]
    OBVIOUS
  <1> QED
    BY <1>1

\* The initial state.
LEMMA InitInv ==
    ASSUME Init
    PROVE  Inv
  <1> USE Constants DEF Init
  <1>1. TypeOK
    BY DEF TypeOK, NoValues, NoSubs, Steps
  <1>2. HandlerInv /\ OneTargetInv /\ CurrentInv /\ StaleOnlyIf /\ GoneOnlyIf
    BY DEF HandlerInv, OneTargetInv, CurrentInv, Making, StaleOnlyIf, GoneOnlyIf
  <1> QED
    BY <1>1, <1>2 DEF Inv

\* A restart: no handler runs and there is no object.
LEMMA RestartInv ==
    ASSUME Inv, Restart
    PROVE  Inv'
  <1> USE Constants DEF Restart, Inv
  <1>1. TypeOK'
    BY DEF TypeOK, NoValues, NoSubs, Steps
  <1>2. HandlerInv' /\ OneTargetInv' /\ CurrentInv' /\ StaleOnlyIf' /\ GoneOnlyIf'
    BY DEF TypeOK, HandlerInv, OneTargetInv, CurrentInv, Making, StaleOnlyIf, GoneOnlyIf
  <1> QED
    BY <1>1, <1>2

\* A request is taken up: the handler creates the object or fetches it.
LEMMA HandleMetadataInv ==
    ASSUME Inv, NEW a \in Accts, NEW r \in Requests, HandleMetadata(a, r)
    PROVE  Inv'
  <1> USE Constants DEF Inv
  <1>1. /\ UNCHANGED <<obj, kv, subs, table, ptr, stray, gone, failures, restarts>>
        /\ raced' = IF obj[r.t] = Null /\ \E b \in Accts : Making(b, r.t) THEN raced \cup {r.t} ELSE raced
        /\ requests' = requests + 1
        /\ req' = [req EXCEPT ![a] = r]
        /\ pc' = [pc EXCEPT ![a] = IF obj[r.t] = Null THEN "create" ELSE "fetch"]
        /\ pc[a] = "idle"
    BY DEF HandleMetadata, Goto, FirstStep, WorkerIdle, memory
  <1>2. TypeOK'
    BY <1>1, RequestArguments DEF TypeOK, Steps
  <1>3. /\ \A b \in Accts : b # a => pc'[b] = pc[b] /\ req'[b] = req[b]
        /\ req'[a] = r /\ r.t \in Targets /\ ptr[a] = Null
        /\ pc'[a] \in {"create", "fetch"} /\ (pc'[a] = "fetch" => obj[r.t] \in Objs)
        /\ pc'[a] = "create" => obj[r.t] = Null
        /\ raced \subseteq raced'
        /\ pc'[a] = "create" /\ r.t \notin raced' => \A b \in Accts : ~Making(b, r.t)
    BY <1>1, RequestArguments DEF TypeOK, HandlerInv
  <1>4. HandlerInv'
    BY <1>1, <1>3 DEF HandlerInv
  <1>5. OneTargetInv'
    BY <1>1, <1>3 DEF OneTargetInv
  <1>6. CurrentInv'
    <2> SUFFICES ASSUME NEW b \in Accts, req'[b].t \notin raced'
                 PROVE  /\ pc'[b] = "handle" => ptr[b] = obj[req'[b].t]
                        /\ pc'[b] \in {"create", "publish"} =>
                             /\ obj[req'[b].t] = Null
                             /\ \A c \in Accts \ {b} : ~(pc'[c] \in {"create", "publish"} /\ req'[c].t = req'[b].t)
                        /\ pc'[b] = "publish" /\ req'[b].t \in Saved =>
                             \A k \in Keys \ stray[ptr[b]] : kv[ptr[b]][k] = table[req'[b].t][k]
      BY <1>1 DEF CurrentInv, Making
    <2>1. CASE b = a
      BY <1>3, <2>1 DEF Making
    <2>2. CASE b # a
      <3>1. req'[b] = req[b] /\ pc'[b] = pc[b] /\ req[b].t \notin raced
        BY <1>3, <2>2
      <3>2. ASSUME pc[b] \in {"create", "publish"}
            PROVE  /\ obj[req[b].t] = Null /\ \A c \in Accts \ {b} : ~Making(c, req[b].t)
                   /\ pc'[a] = "create" => r.t # req[b].t
        <4>1. Making(b, req[b].t)
          BY <3>2 DEF Making
        <4> QED
          BY <1>3, <2>2, <3>1, <4>1 DEF CurrentInv
      <3>3. ASSUME pc[b] \in {"create", "publish"}, NEW c \in Accts \ {b}
            PROVE  ~(pc'[c] \in {"create", "publish"} /\ req'[c].t = req[b].t)
        BY <1>3, <3>2, <3>3 DEF Making
      <3>4. /\ pc[b] = "handle" => ptr[b] = obj[req[b].t]
            /\ pc[b] = "publish" /\ req[b].t \in Saved =>
                 \A k \in Keys \ stray[ptr[b]] : kv[ptr[b]][k] = table[req[b].t][k]
        BY <3>1 DEF CurrentInv
      <3> QED
        BY <3>1, <3>2, <3>3, <3>4
    <2> QED
      BY <2>1, <2>2
  <1>7. StaleOnlyIf' /\ GoneOnlyIf'
    BY <1>1, <1>3 DEF StaleOnlyIf, GoneOnlyIf
  <1> QED
    BY <1>2, <1>4, <1>5, <1>6, <1>7

\* What the constructor does: an object nobody uses gets what the table has, or
\* nothing.
CreateEffect(a, o) ==
    LET t == req[a].t IN
    /\ \A u \in Targets : obj[u] # o
    /\ \A b \in Accts : ptr[b] # o
    /\ pc[a] = "create" /\ t \in Targets
    /\ pc' = [pc EXCEPT ![a] = "publish"]
    /\ ptr' = [ptr EXCEPT ![a] = o]
    /\ subs' = [subs EXCEPT ![o] = NoSubs]
    /\ UNCHANGED <<obj, table, req, answer, raced, gone, requests, restarts>>
    /\ \/ /\ kv' = [kv EXCEPT ![o] = table[t]]
          /\ stray' = [stray EXCEPT ![o] = {}]
          /\ UNCHANGED failures
       \/ /\ kv' = [kv EXCEPT ![o] = NoValues]
          /\ stray' = [stray EXCEPT ![o] = Keys]
          /\ failures' = failures + 1

LEMMA CreateMetadataFacts ==
    ASSUME Inv, NEW a \in Accts, CreateMetadata(a)
    PROVE  \E o \in Objs : CreateEffect(a, o)
  <1> DEFINE o == CHOOSE x \in Objs : ~InUse(x)
  <1>1. o \in Objs /\ ~InUse(o)
    BY DEF CreateMetadata
  <1>2. \A u \in Targets : obj[u] # o
    BY <1>1 DEF InUse, Range, Inv, TypeOK
  <1>3. \A b \in Accts : ptr[b] # o
    BY <1>1 DEF InUse, Range, Inv, TypeOK
  <1>4. pc[a] = "create" /\ req[a].t \in Targets
    BY RequestArguments DEF CreateMetadata, At, Inv, HandlerInv
  <1> QED
    BY <1>1, <1>2, <1>3, <1>4 DEF CreateEffect, CreateMetadata, Goto, Succeeds, Fails, counters

\* The object is made.
LEMMA CreateMetadataInv ==
    ASSUME Inv, NEW a \in Accts, CreateMetadata(a)
    PROVE  Inv'
  <1> DEFINE t == req[a].t
  <1>1. PICK o \in Objs : CreateEffect(a, o)
    BY CreateMetadataFacts
  <1> USE Constants DEF Inv
  <1>2. TypeOK'
    <2>1. kv' \in [Objs -> [Keys -> Values]]
      <3>1. table[t] \in [Keys -> Values] /\ NoValues \in [Keys -> Values]
        BY <1>1 DEF CreateEffect, TypeOK, NoValues
      <3> QED
        BY <1>1, <3>1 DEF CreateEffect, TypeOK
    <2>2. subs' \in [Objs -> [Keys -> SUBSET Accts]]
      <3>1. NoSubs \in [Keys -> SUBSET Accts]
        BY DEF NoSubs
      <3> QED
        BY <1>1, <3>1 DEF CreateEffect, TypeOK
    <2>3. pc' \in [Accts -> Steps] /\ ptr' \in [Accts -> Objs \cup {Null}]
      BY <1>1 DEF CreateEffect, TypeOK, Steps
    <2>4. stray' \in [Objs -> SUBSET Keys] /\ failures' \in Nat
      <3>1. stray \in [Objs -> SUBSET Keys] /\ {} \in SUBSET Keys /\ Keys \in SUBSET Keys
        BY DEF TypeOK
      <3>2. stray' = [stray EXCEPT ![o] = {}] \/ stray' = [stray EXCEPT ![o] = Keys]
        BY <1>1 DEF CreateEffect
      <3>3. stray' \in [Objs -> SUBSET Keys]
        BY <3>1, <3>2
      <3>4. failures' \in {failures, failures + 1}
        BY <1>1 DEF CreateEffect
      <3> QED
        BY <3>3, <3>4 DEF TypeOK
    <2>5. UNCHANGED <<obj, table, req, raced, requests, restarts>>
      BY <1>1 DEF CreateEffect
    <2> QED
      BY <2>1, <2>2, <2>3, <2>4, <2>5 DEF TypeOK
  <1>3. /\ \A b \in Accts : b # a => pc'[b] = pc[b] /\ ptr'[b] = ptr[b]
        /\ pc'[a] = "publish" /\ ptr'[a] = o /\ t \in Targets
        /\ \A x \in Objs : x # o => kv'[x] = kv[x] /\ stray'[x] = stray[x]
        /\ \A k \in Keys \ stray'[o] : kv'[o][k] = table[t][k]
        /\ pc[a] = "create"
        /\ UNCHANGED <<obj, table, req, raced, gone>>
        /\ \A u \in Targets : obj[u] # o
        /\ \A b \in Accts : ptr[b] # o
    BY <1>1 DEF CreateEffect, TypeOK
  <1>4. HandlerInv'
    BY <1>1, <1>3 DEF CreateEffect, HandlerInv
  <1>5. OneTargetInv'
    BY <1>3 DEF OneTargetInv, HandlerInv
  <1>6. CurrentInv'
    <2> SUFFICES ASSUME NEW b \in Accts, req[b].t \notin raced
                 PROVE  /\ pc'[b] = "handle" => ptr'[b] = obj[req[b].t]
                        /\ Making(b, req[b].t)' =>
                             /\ obj[req[b].t] = Null
                             /\ \A c \in Accts \ {b} : ~(pc'[c] \in {"create", "publish"} /\ req[c].t = req[b].t)
                        /\ pc'[b] = "publish" /\ req[b].t \in Saved =>
                             \A k \in Keys \ stray'[ptr'[b]] : kv'[ptr'[b]][k] = table[req[b].t][k]
      BY <1>3 DEF CurrentInv, Making
    <2>1. \A c \in Accts : pc'[c] \in {"create", "publish"} <=> pc[c] \in {"create", "publish"}
      BY <1>3
    <2>2. Making(b, req[b].t)' =>
             /\ obj[req[b].t] = Null
             /\ \A c \in Accts \ {b} : ~(pc'[c] \in {"create", "publish"} /\ req[c].t = req[b].t)
      BY <1>3, <2>1 DEF CurrentInv, Making
    <2>3. CASE b = a
      BY <1>3, <2>2, <2>3
    <2>4. CASE b # a
      <3>1. pc[b] = "publish" => ptr[b] \in Objs /\ ptr[b] # o
        BY <1>3 DEF HandlerInv
      <3> QED
        BY <1>3, <2>2, <2>4, <3>1 DEF CurrentInv
    <2> QED
      BY <2>3, <2>4
  <1>7. StaleOnlyIf' /\ GoneOnlyIf'
    BY <1>3 DEF StaleOnlyIf, GoneOnlyIf, TypeOK
  <1> QED
    BY <1>2, <1>4, <1>5, <1>6, <1>7

\* The object is published; where no two workers met it is the target's first.
LEMMA PublishMetadataInv ==
    ASSUME Inv, NEW a \in Accts, PublishMetadata(a)
    PROVE  Inv'
  <1> USE Constants DEF Inv
  <1> DEFINE t == req[a].t
             o == ptr[a]
  <1>1. /\ pc[a] = "publish" /\ t \in Targets /\ o \in Objs
        /\ obj' = [obj EXCEPT ![t] = o]
        /\ gone' = IF obj[t] # Null /\ HeldOnlyBy(a, obj[t]) THEN gone \cup {t} ELSE gone
        /\ ptr' = [ptr EXCEPT ![a] = Null]
        /\ pc' = [pc EXCEPT ![a] = "fetch"]
        /\ UNCHANGED <<kv, subs, table, req, answer, stray, raced, requests, failures, restarts>>
    BY RequestArguments DEF PublishMetadata, At, Goto, HandlerInv, counters
  <1>2. TypeOK'
    BY <1>1 DEF TypeOK, Steps
  <1>3. /\ \A b \in Accts : b # a => pc'[b] = pc[b] /\ ptr'[b] = ptr[b]
        /\ pc'[a] = "fetch" /\ ptr'[a] = Null
        /\ obj'[t] = o /\ \A u \in Targets : u # t => obj'[u] = obj[u]
    BY <1>1 DEF TypeOK
  <1>4. /\ \A u \in Targets : obj[u] # o
        /\ \A b \in Accts : ptr[b] = o => b = a
    BY <1>1 DEF OneTargetInv
  <1>5. HandlerInv'
    <2>1. \A b \in Accts : pc[b] # "idle" => req[b].t \in Targets
      BY RequestArguments DEF HandlerInv
    <2> QED
      BY <1>1, <1>3, <2>1 DEF HandlerInv
  <1>6. OneTargetInv'
    BY <1>1, <1>3, <1>4 DEF OneTargetInv, HandlerInv
  <1>7. CurrentInv'
    <2> SUFFICES ASSUME NEW b \in Accts, b # a, pc[b] \in {"handle", "create", "publish"}, req[b].t \notin raced
                 PROVE  /\ pc[b] = "handle" => ptr[b] = obj'[req[b].t]
                        /\ pc[b] \in {"create", "publish"} =>
                             /\ obj'[req[b].t] = Null
                             /\ \A c \in Accts \ {b} : ~(pc'[c] \in {"create", "publish"} /\ req[c].t = req[b].t)
                        /\ pc[b] = "publish" /\ req[b].t \in Saved =>
                             \A k \in Keys \ stray[ptr[b]] : kv[ptr[b]][k] = table[req[b].t][k]
      BY <1>1, <1>3 DEF CurrentInv, Making
    <2>1. req[b].t \in Targets /\ (pc[b] = "handle" => obj[req[b].t] # Null)
      BY RequestArguments DEF HandlerInv
    <2>2. req[b].t # t
      BY <1>1, <2>1 DEF CurrentInv, Making
    <2>3. \A c \in Accts : pc'[c] \in {"create", "publish"} => pc[c] \in {"create", "publish"}
      BY <1>3
    <2> QED
      BY <1>3, <2>1, <2>2, <2>3 DEF CurrentInv, Making
  <1>8. StaleOnlyIf'
    <2> SUFFICES ASSUME NEW u \in Saved \ raced, obj'[u] # Null, NEW k \in Keys \ stray[obj'[u]]
                 PROVE  kv[obj'[u]][k] = table[u][k]
      BY <1>1 DEF StaleOnlyIf
    <2>1. CASE u = t
      BY <1>1, <1>3, <2>1 DEF CurrentInv
    <2>2. CASE u # t
      BY <1>3, <2>2 DEF StaleOnlyIf
    <2> QED
      BY <2>1, <2>2
  <1>9. GoneOnlyIf'
    BY <1>1 DEF GoneOnlyIf, CurrentInv, Making
  <1> QED
    BY <1>2, <1>5, <1>6, <1>7, <1>8, <1>9

\* The handler gets the target's current object.
LEMMA FetchMetadataInv ==
    ASSUME Inv, NEW a \in Accts, FetchMetadata(a)
    PROVE  Inv'
  <1> USE Constants DEF Inv
  <1>1. /\ pc[a] = "fetch" /\ req[a].t \in Targets /\ obj[req[a].t] \in Objs
        /\ ptr' = [ptr EXCEPT ![a] = obj[req[a].t]]
        /\ pc' = [pc EXCEPT ![a] = "handle"]
        /\ UNCHANGED <<obj, kv, subs, table, req, stray, raced, gone, requests, failures, restarts>>
    BY RequestArguments DEF FetchMetadata, At, Goto, HandlerInv, memory, faults, counters
  <1>2. TypeOK'
    BY <1>1 DEF TypeOK, Steps
  <1>3. /\ \A b \in Accts : b # a => pc'[b] = pc[b] /\ ptr'[b] = ptr[b]
        /\ pc'[a] = "handle" /\ ptr'[a] = obj[req[a].t]
    BY <1>1 DEF TypeOK
  <1>4. HandlerInv'
    BY <1>1, <1>3 DEF HandlerInv
  <1>5. OneTargetInv'
    BY <1>1, <1>3 DEF OneTargetInv
  <1>6. CurrentInv' /\ StaleOnlyIf' /\ GoneOnlyIf'
    BY <1>1, <1>3 DEF CurrentInv, Making, StaleOnlyIf, GoneOnlyIf
  <1> QED
    BY <1>2, <1>4, <1>5, <1>6

\* SUBS meets SUB or UNSUB.
LEMMA TornSubsInv ==
    ASSUME Inv, NEW a \in Accts, TornSubs(a)
    PROVE  Inv'
  <1> USE Constants DEF Inv
  <1>1. /\ req[a].t \in Targets
        /\ raced' = raced \cup {req[a].t} /\ gone' = gone \cup {req[a].t}
        /\ UNCHANGED <<obj, kv, subs, table, pc, req, ptr, stray, requests, failures, restarts>>
    BY RequestArguments DEF TornSubs, Handling, At, HandlerInv, memory, counters
  <1>2. TypeOK' /\ HandlerInv' /\ OneTargetInv'
    BY <1>1 DEF TypeOK, HandlerInv, OneTargetInv
  <1>3. CurrentInv' /\ StaleOnlyIf' /\ GoneOnlyIf'
    BY <1>1 DEF CurrentInv, Making, StaleOnlyIf, GoneOnlyIf
  <1> QED
    BY <1>2, <1>3

\* A request is handled: only the handler's object and the rows of its target
\* are written, and what is not astray afterwards is alike in both.
LEMMA HandledInv ==
    ASSUME Inv, NEW a \in Accts, NEW reply, pc[a] = "handle", Finish(a, reply),
           kv' \in [Objs -> [Keys -> Values]],
           subs' \in [Objs -> [Keys -> SUBSET Accts]],
           table' \in [Targets -> [Keys -> Values]],
           stray' \in [Objs -> SUBSET Keys],
           requests' = requests, restarts' = restarts, failures' \in Nat,
           \A o \in Objs : o # ptr[a] => kv'[o] = kv[o] /\ stray'[o] = stray[o],
           \A t \in Targets : t # req[a].t => table'[t] = table[t],
           (req[a].t \in Saved /\ \A k \in Keys \ stray[ptr[a]] : kv[ptr[a]][k] = table[req[a].t][k]) =>
               \A k \in Keys \ stray'[ptr[a]] : kv'[ptr[a]][k] = table'[req[a].t][k]
    PROVE  Inv'
  <1> USE Constants DEF Inv
  <1>1. /\ pc' = [pc EXCEPT ![a] = "idle"]
        /\ ptr' = [ptr EXCEPT ![a] = Null]
        /\ req' = [req EXCEPT ![a] = NoRequest]
        /\ gone' \subseteq IF ptr[a] # obj[req[a].t] THEN gone \cup {req[a].t} ELSE gone
        /\ UNCHANGED <<obj, raced>>
    BY DEF Finish, Goto
  <1>2. /\ ptr[a] \in Objs /\ req[a].t \in Targets /\ obj[req[a].t] \in Objs
    BY RequestArguments DEF HandlerInv
  <1>3. TypeOK'
    BY <1>1 DEF TypeOK, Steps
  <1>4. /\ \A b \in Accts : b # a => pc'[b] = pc[b] /\ ptr'[b] = ptr[b] /\ req'[b] = req[b]
        /\ pc'[a] = "idle" /\ ptr'[a] = Null
    BY <1>1 DEF TypeOK
  <1>5. HandlerInv'
    BY <1>1, <1>4 DEF HandlerInv
  <1>6. OneTargetInv'
    BY <1>1, <1>4 DEF OneTargetInv, HandlerInv
  <1>7. CurrentInv'
    <2> SUFFICES ASSUME NEW b \in Accts, b # a, pc[b] \in {"handle", "create", "publish"}, req[b].t \notin raced
                 PROVE  /\ pc[b] = "handle" => ptr[b] = obj[req[b].t]
                        /\ pc[b] \in {"create", "publish"} =>
                             /\ obj[req[b].t] = Null
                             /\ \A c \in Accts \ {b} : ~(pc'[c] \in {"create", "publish"} /\ req'[c].t = req[b].t)
                        /\ pc[b] = "publish" /\ req[b].t \in Saved =>
                             \A k \in Keys \ stray'[ptr[b]] : kv'[ptr[b]][k] = table'[req[b].t][k]
      BY <1>1, <1>4 DEF CurrentInv, Making
    <2>1. pc[b] = "publish" => ptr[b] \in Objs /\ ptr[b] # ptr[a]
      BY DEF HandlerInv, OneTargetInv
    <2>2. req[b].t \in Targets /\ (obj[req[b].t] = Null => req[b].t # req[a].t)
      BY <1>2, RequestArguments DEF HandlerInv
    <2>3. \A c \in Accts \ {b} : pc'[c] \in {"create", "publish"} => pc[c] \in {"create", "publish"} /\ req'[c] = req[c]
      BY <1>4
    <2>4. pc[b] = "handle" => ptr[b] = obj[req[b].t]
      BY DEF CurrentInv
    <2>5. ASSUME pc[b] \in {"create", "publish"}
          PROVE  /\ obj[req[b].t] = Null /\ req[b].t # req[a].t
                 /\ \A c \in Accts \ {b} : ~(pc[c] \in {"create", "publish"} /\ req[c].t = req[b].t)
      BY <2>2, <2>5 DEF CurrentInv, Making
    <2>6. pc[b] = "publish" /\ req[b].t \in Saved =>
             \A k \in Keys \ stray[ptr[b]] : kv[ptr[b]][k] = table[req[b].t][k]
      BY DEF CurrentInv
    <2>7. ASSUME pc[b] = "publish"
          PROVE  /\ kv'[ptr[b]] = kv[ptr[b]] /\ stray'[ptr[b]] = stray[ptr[b]]
                 /\ table'[req[b].t] = table[req[b].t]
      BY <2>1, <2>2, <2>5, <2>7
    <2> QED
      BY <2>3, <2>4, <2>5, <2>6, <2>7
  <1>8. StaleOnlyIf'
    <2>a. ASSUME NEW t \in Saved \ raced, obj[t] # Null
          PROVE  \A k \in Keys \ stray'[obj[t]] : kv'[obj[t]][k] = table'[t][k]
      <3>1. obj[t] \in Objs /\ \A l \in Keys \ stray[obj[t]] : kv[obj[t]][l] = table[t][l]
        BY <2>a DEF StaleOnlyIf, TypeOK
      <3>2. CASE t = req[a].t
        <4>1. ptr[a] = obj[t]
          BY <2>a, <3>2 DEF CurrentInv
        <4> QED
          BY <2>a, <3>1, <3>2, <4>1
      <3>3. CASE t # req[a].t
        <4>1. ptr[a] # obj[t]
          BY <1>2, <2>a, <3>1, <3>3 DEF OneTargetInv
        <4> QED
          BY <2>a, <3>1, <3>3, <4>1
      <3> QED
        BY <3>2, <3>3
    <2>b. obj' = obj /\ raced' = raced
      BY <1>1
    <2> QED
      BY <2>a, <2>b DEF StaleOnlyIf
  <1>9. GoneOnlyIf'
    BY <1>1 DEF GoneOnlyIf, CurrentInv
  <1> QED
    BY <1>3, <1>5, <1>6, <1>7, <1>8, <1>9

\* SET, to the cache and then to the table.
LEMMA MetadataSetInv ==
    ASSUME Inv, NEW a \in Accts, MetadataSet(a)
    PROVE  Inv'
  <1> DEFINE t == req[a].t
             k == req[a].k
             v == req[a].v
             o == ptr[a]
  <1>1. /\ pc[a] = "handle" /\ Finish(a, Tell(k, v))
        /\ kv' = [kv EXCEPT ![o][k] = v]
        /\ UNCHANGED <<subs, requests, restarts>>
        /\ \/ UNCHANGED failures /\ table' = Upsert(t, k, v) /\ stray' = [stray EXCEPT ![o] = @ \ {k}]
           \/ failures' = failures + 1 /\ stray' = [stray EXCEPT ![o] = @ \cup {k}] /\ UNCHANGED table
    BY DEF MetadataSet, Handling, At, Succeeds, Fails, counters
  <1>2. t \in Targets /\ k \in Keys /\ v \in Values /\ o \in Objs
    BY <1>1, RequestArguments, Constants DEF MetadataSet, Handling, Inv, HandlerInv
  <1>3. /\ TypeOK
        /\ table' = table \/ table' = [table EXCEPT ![t][k] = v]
        /\ stray' = [stray EXCEPT ![o] = @ \ {k}] \/ stray' = [stray EXCEPT ![o] = @ \cup {k}]
        /\ t \in Saved =>
             \/ table' = [table EXCEPT ![t][k] = v] /\ stray' = [stray EXCEPT ![o] = @ \ {k}]
             \/ table' = table /\ stray' = [stray EXCEPT ![o] = @ \cup {k}]
    BY <1>1 DEF Inv, Upsert
  <1>4. failures' \in Nat
    BY <1>1, <1>3 DEF TypeOK
  <1> HIDE DEF t, k, v, o
  <1>5. kv' \in [Objs -> [Keys -> Values]] /\ table' \in [Targets -> [Keys -> Values]]
    <2>1. kv \in [Objs -> [Keys -> Values]] /\ table \in [Targets -> [Keys -> Values]]
      BY <1>3 DEF TypeOK
    <2>2. [kv EXCEPT ![o][k] = v] \in [Objs -> [Keys -> Values]]
      BY <1>2, <2>1, EntryReplaced
    <2>3. [table EXCEPT ![t][k] = v] \in [Targets -> [Keys -> Values]]
      BY <1>2, <2>1, EntryReplaced
    <2> QED
      BY <1>1, <1>3, <2>1, <2>2, <2>3
  <1>6. stray' \in [Objs -> SUBSET Keys] /\ subs' \in [Objs -> [Keys -> SUBSET Accts]]
    <2>1. stray \in [Objs -> SUBSET Keys] /\ subs' = subs /\ subs \in [Objs -> [Keys -> SUBSET Accts]]
      BY <1>1, <1>3 DEF TypeOK
    <2>2. stray[o] \ {k} \in SUBSET Keys /\ stray[o] \cup {k} \in SUBSET Keys
      BY <1>2, <2>1
    <2>3. CASE stray' = [stray EXCEPT ![o] = @ \ {k}]
      BY <1>2, <2>1, <2>2, <2>3
    <2>4. CASE stray' = [stray EXCEPT ![o] = @ \cup {k}]
      BY <1>2, <2>1, <2>2, <2>4
    <2> QED
      BY <1>3, <2>1, <2>3, <2>4
  <1>7. /\ \A p \in Objs : p # o => kv'[p] = kv[p] /\ stray'[p] = stray[p]
        /\ \A u \in Targets : u # t => table'[u] = table[u]
    BY <1>1, <1>2, <1>3 DEF TypeOK
  <1>8. ASSUME t \in Saved, \A l \in Keys \ stray[o] : kv[o][l] = table[t][l]
        PROVE  \A l \in Keys \ stray'[o] : kv'[o][l] = table'[t][l]
    <2>1. kv'[o] = [kv[o] EXCEPT ![k] = v] /\ kv[o] \in [Keys -> Values] /\ table[t] \in [Keys -> Values]
      BY <1>1, <1>2, <1>3 DEF TypeOK
    <2>2. CASE table' = [table EXCEPT ![t][k] = v] /\ stray' = [stray EXCEPT ![o] = @ \ {k}]
      <3>1. table'[t] = [table[t] EXCEPT ![k] = v] /\ stray'[o] = stray[o] \ {k}
        BY <1>2, <1>3, <2>2 DEF TypeOK
      <3> QED
        BY <1>8, <2>1, <3>1
    <2>3. CASE table' = table /\ stray' = [stray EXCEPT ![o] = @ \cup {k}]
      <3>1. stray'[o] = stray[o] \cup {k}
        BY <1>2, <1>3, <2>3 DEF TypeOK
      <3> QED
        BY <1>8, <2>1, <2>3, <3>1
    <2> QED
      BY <1>3, <1>8, <2>2, <2>3
  <1> QED
    BY <1>1, <1>4, <1>5, <1>6, <1>7, <1>8, HandledInv DEF t, o

\* CLEAR, to the cache only.
LEMMA MetadataClearInv ==
    ASSUME Inv, NEW a \in Accts, MetadataClear(a)
    PROVE  Inv'
  <1> DEFINE t == req[a].t
             k == req[a].k
             o == ptr[a]
  <1>1. /\ pc[a] = "handle" /\ Finish(a, Tell(k, Empty))
        /\ kv' = [kv EXCEPT ![o][k] = Unset]
        /\ stray' = [stray EXCEPT ![o] = @ \cup {k}]
        /\ UNCHANGED <<subs, table, requests, failures, restarts>>
    BY DEF MetadataClear, Removed, Handling, At, counters
  <1>2. TypeOK /\ t \in Targets /\ k \in Keys /\ Unset \in Values /\ o \in Objs
    BY <1>1, RequestArguments, Constants DEF MetadataClear, Handling, Inv, HandlerInv
  <1> HIDE DEF t, k, o
  <1>3. kv' \in [Objs -> [Keys -> Values]]
    <2>1. kv \in [Objs -> [Keys -> Values]]
      BY <1>2 DEF TypeOK
    <2> QED
      BY <1>1, <1>2, <2>1, EntryReplaced
  <1>4. /\ \A p \in Objs : p # o => kv'[p] = kv[p] /\ stray'[p] = stray[p]
        /\ \A l \in Keys \ stray'[o] : l \notin stray[o] /\ kv'[o][l] = kv[o][l]
    <2>1. stray'[o] = stray[o] \cup {k} /\ kv'[o] = [kv[o] EXCEPT ![k] = Unset]
      BY <1>1, <1>2 DEF TypeOK
    <2>2. kv[o] \in [Keys -> Values]
      BY <1>2 DEF TypeOK
    <2> QED
      BY <1>1, <1>2, <2>1, <2>2 DEF TypeOK
  <1>5. /\ table' \in [Targets -> [Keys -> Values]] /\ stray' \in [Objs -> SUBSET Keys]
        /\ subs' \in [Objs -> [Keys -> SUBSET Accts]] /\ failures' \in Nat
    BY <1>1, <1>2 DEF TypeOK
  <1> QED
    BY <1>1, <1>3, <1>4, <1>5, HandledInv DEF t, o

\* SUB and UNSUB write subscribers only.
LEMMA MetadataSubInv ==
    ASSUME Inv, NEW a \in Accts, MetadataSub(a) \/ MetadataUnsub(a)
    PROVE  Inv'
  <1> DEFINE k == req[a].k
             o == ptr[a]
  <1>1. /\ pc[a] = "handle" /\ Finish(a, Confirm({k}))
        /\ UNCHANGED <<kv, table, stray, requests, failures, restarts>>
        /\ \/ subs' = [subs EXCEPT ![o][k] = subs[o][k] \cup {a}]
           \/ subs' = [subs EXCEPT ![o][k] = subs[o][k] \ {a}]
    BY DEF MetadataSub, MetadataUnsub, Handling, At, Subscribers, counters
  <1>2. TypeOK /\ k \in Keys /\ o \in Objs
    BY <1>1, RequestArguments DEF MetadataSub, MetadataUnsub, Handling, Inv, HandlerInv
  <1> HIDE DEF k, o
  <1>3. subs' \in [Objs -> [Keys -> SUBSET Accts]]
    <2>1. /\ subs \in [Objs -> [Keys -> SUBSET Accts]]
          /\ subs[o][k] \cup {a} \in SUBSET Accts /\ subs[o][k] \ {a} \in SUBSET Accts
      BY <1>2 DEF TypeOK
    <2> QED
      BY <1>1, <1>2, <2>1, EntryReplaced
  <1>4. /\ kv' \in [Objs -> [Keys -> Values]] /\ table' \in [Targets -> [Keys -> Values]]
        /\ stray' \in [Objs -> SUBSET Keys] /\ failures' \in Nat
    BY <1>1, <1>2 DEF TypeOK
  <1> QED
    BY <1>1, <1>3, <1>4, HandledInv

\* The other commands write nothing.
LEMMA MetadataReadInv ==
    ASSUME Inv, NEW a \in Accts,
           MetadataRefused(a) \/ MetadataGet(a) \/ MetadataList(a) \/ MetadataSubs(a)
    PROVE  Inv'
  <1>1. /\ pc[a] = "handle" /\ \E reply : Finish(a, reply)
        /\ UNCHANGED <<kv, subs, table, stray, requests, failures, restarts>>
    BY DEF MetadataRefused, MetadataGet, MetadataList, MetadataSubs, Handling, At, counters
  <1>2. /\ kv' \in [Objs -> [Keys -> Values]]
        /\ subs' \in [Objs -> [Keys -> SUBSET Accts]]
        /\ table' \in [Targets -> [Keys -> Values]]
        /\ stray' \in [Objs -> SUBSET Keys] /\ failures' \in Nat
    BY <1>1 DEF Inv, TypeOK
  <1> QED
    BY <1>1, <1>2, HandledInv

\* Every step keeps the invariant.
LEMMA NextInv ==
    ASSUME Inv, [Next]_vars
    PROVE  Inv'
  <1>1. CASE UNCHANGED vars
    BY <1>1 DEF Inv, TypeOK, HandlerInv, OneTargetInv, CurrentInv, Making, StaleOnlyIf, GoneOnlyIf,
       vars, memory, faults, counters
  <1>2. CASE Restart
    BY <1>2, RestartInv
  <1>3. ASSUME NEW a \in Accts, NEW r \in Requests, HandleMetadata(a, r)
        PROVE  Inv'
    BY <1>3, HandleMetadataInv
  <1>4. ASSUME NEW a \in Accts,
               CreateMetadata(a) \/ PublishMetadata(a) \/ FetchMetadata(a) \/ TornSubs(a)
        PROVE  Inv'
    BY <1>4, CreateMetadataInv, PublishMetadataInv, FetchMetadataInv, TornSubsInv
  <1>5. ASSUME NEW a \in Accts, Handle(a)
        PROVE  Inv'
    BY <1>5, MetadataSetInv, MetadataClearInv, MetadataSubInv, MetadataReadInv DEF Handle
  <1> QED
    BY <1>1, <1>2, <1>3, <1>4, <1>5 DEF Next

\* The invariant holds in every state of every behaviour.
LEMMA InvAlways == Spec => []Inv
  <1>1. Init => Inv
    BY InitInv
  <1>2. Inv /\ [Next]_vars => Inv'
    BY NextInv
  <1> QED
    BY <1>1, <1>2, PTL DEF Spec

-----------------------------------------------------------------------------
\* Account::metadata() and Channel::metadata(), which make the object without a
\* lock, and set and remove, which write the cache and then the table: on any
\* workers and with any failures, a cached value differs from its row only if the
\* target has no uid or was raced for, or the key's last write did not reach the table.
THEOREM StaleHasCause == Spec => []StaleOnlyIf
  <1>1. Inv => StaleOnlyIf
    BY DEF Inv
  <1> QED
    BY <1>1, InvAlways, PTL

\* Account::metadata() and Channel::metadata(), and the raw pointer they pass: no
\* account or channel is destroyed with a replaced object, on any workers, unless two
\* of them have made its object or used its subscribers at once.
THEOREM GoneHasCause == Spec => []GoneOnlyIf
  <1>1. Inv => GoneOnlyIf
    BY DEF Inv
  <1> QED
    BY <1>1, InvAlways, PTL

\* Only UNSUB takes a subscriber from an object in use, and it takes its sender.
LEMMA WithdrawnStep ==
    ASSUME Inv, Next
    PROVE  WithdrawnBySelf
  <1> USE Constants DEF Inv
  <1> SUFFICES ASSUME NEW t \in Targets, NEW k \in Keys, NEW a \in Accts,
                      restarts' = restarts, obj[t] # Null, obj'[t] = obj[t] \/ t \notin raced,
                      a \in subs[obj[t]][k], a \notin subs'[obj'[t]][k]
               PROVE  Handling(a, "UNSUB") /\ req[a].k = k
    BY DEF WithdrawnBySelf
  <1>1. obj[t] \in Objs /\ subs \in [Objs -> [Keys -> SUBSET Accts]]
    BY DEF TypeOK
  <1>2. ~Restart
    BY DEF Restart, TypeOK
  <1>3. ASSUME NEW b \in Accts, CreateMetadata(b)
        PROVE  FALSE
    <2>1. PICK o \in Objs : CreateEffect(b, o)
      BY <1>3, CreateMetadataFacts
    <2> QED
      BY <1>1, <2>1 DEF CreateEffect
  <1>4. ASSUME NEW b \in Accts, MetadataSub(b)
        PROVE  FALSE
    <2>1. ptr[b] \in Objs /\ req[b].k \in Keys /\ UNCHANGED obj
      BY <1>4, RequestArguments DEF MetadataSub, Handling, At, HandlerInv, Finish
    <2>2. subs' = [subs EXCEPT ![ptr[b]][req[b].k] = subs[ptr[b]][req[b].k] \cup {b}]
      BY <1>4 DEF MetadataSub, Subscribers
    <2> QED
      BY <1>1, <2>1, <2>2
  <1>5. ASSUME NEW b \in Accts, MetadataUnsub(b)
        PROVE  Handling(a, "UNSUB") /\ req[a].k = k
    <2>1. Handling(b, "UNSUB") /\ ptr[b] \in Objs /\ req[b].k \in Keys /\ UNCHANGED obj
      BY <1>5, RequestArguments DEF MetadataUnsub, Handling, At, HandlerInv, Finish
    <2>2. subs' = [subs EXCEPT ![ptr[b]][req[b].k] = subs[ptr[b]][req[b].k] \ {b}]
      BY <1>5 DEF MetadataUnsub
    <2>3. a = b /\ req[b].k = k
      BY <1>1, <2>1, <2>2
    <2> QED
      BY <2>1, <2>3
  <1>6. ASSUME NEW b \in Accts, PublishMetadata(b)
        PROVE  FALSE
    <2>1. pc[b] = "publish" /\ obj' = [obj EXCEPT ![req[b].t] = ptr[b]] /\ UNCHANGED subs
      BY <1>6 DEF PublishMetadata, At
    <2>2. req[b].t = t => t \in raced /\ obj'[t] = ptr[b] /\ ptr[b] # obj[t]
      BY <1>1, <2>1 DEF CurrentInv, Making, OneTargetInv, TypeOK
    <2>3. req[b].t # t => obj'[t] = obj[t]
      BY <2>1 DEF TypeOK
    <2> QED
      BY <2>1, <2>2, <2>3
  <1>7. ASSUME NEW b \in Accts, NEW r \in Requests, HandleMetadata(b, r)
        PROVE  FALSE
    BY <1>7 DEF HandleMetadata, memory
  <1>8. ASSUME NEW b \in Accts,
               \/ FetchMetadata(b) \/ TornSubs(b) \/ MetadataSet(b) \/ MetadataClear(b)
               \/ MetadataRefused(b) \/ MetadataGet(b) \/ MetadataList(b) \/ MetadataSubs(b)
        PROVE  FALSE
    BY <1>8 DEF FetchMetadata, TornSubs, MetadataSet, MetadataClear, MetadataRefused,
       MetadataGet, MetadataList, MetadataSubs, Finish, memory
  <1> QED
    BY <1>2, <1>3, <1>4, <1>5, <1>6, <1>7, <1>8 DEF Next, Handle

\* Metadata::handle, SUB and UNSUB: on any workers, an account that is subscribed
\* to a key stays so until its own UNSUB, a restart, or the replacement of the
\* object by a second worker that made one.
THEOREM SubscriptionsLast == Spec => SubscriptionsKept
  <1>1. Inv /\ [Next]_vars => [WithdrawnBySelf]_vars
    BY WithdrawnStep
  <1> QED
    BY <1>1, InvAlways, PTL DEF Spec, SubscriptionsKept

\* Only SET and CLEAR write a row or an object in use, and they ask for
\* permission.
LEMMA WrittenStep ==
    ASSUME Inv, Next
    PROVE  WrittenByOwner
  <1> USE Constants DEF Inv
  <1> SUFFICES ASSUME NEW t \in Targets, Owner[t] # Nobody,
                      \/ table'[t] # table[t]
                      \/ obj[t] # Null /\ obj'[t] = obj[t] /\ kv'[obj[t]] # kv[obj[t]]
               PROVE  pc[Owner[t]] = "handle" /\ pc'[Owner[t]] # "handle"
    BY DEF WrittenByOwner, At
  <1>1. /\ obj[t] # Null => obj[t] \in Objs
        /\ kv \in [Objs -> [Keys -> Values]] /\ table \in [Targets -> [Keys -> Values]]
    BY DEF TypeOK
  <1>2. ~Restart
    BY DEF Restart, TypeOK
  <1>3. ASSUME NEW b \in Accts, CreateMetadata(b)
        PROVE  FALSE
    <2>1. PICK o \in Objs : CreateEffect(b, o)
      BY <1>3, CreateMetadataFacts
    <2> QED
      BY <1>1, <2>1 DEF CreateEffect
  <1>4. ASSUME NEW b \in Accts, MetadataSet(b) \/ MetadataClear(b)
        PROVE  pc[Owner[t]] = "handle" /\ pc'[Owner[t]] # "handle"
    <2> DEFINE u == req[b].t
               k == req[b].k
               o == ptr[b]
    <2>1. pc[b] = "handle" /\ pc'[b] = "idle" /\ Owner[u] \in {Nobody, b}
      BY <1>4 DEF MetadataSet, MetadataClear, Handling, At, NoPermission, Finish, Goto, TypeOK
    <2>2. u \in Targets /\ k \in Keys /\ o \in Objs
      BY <1>4, RequestArguments DEF MetadataSet, MetadataClear, Handling, At, HandlerInv
    <2>3. \E v : kv' = [kv EXCEPT ![o][k] = v] /\ table' \in {table, [table EXCEPT ![u][k] = v]}
      BY <1>4 DEF MetadataSet, MetadataClear, Removed, Upsert
    <2>4. \A x \in Targets : o = obj[x] => x = u
      BY <2>2 DEF OneTargetInv
    <2> HIDE DEF u, k, o, Inv
    <2>5. t = u
      BY <1>1, <2>2, <2>3, <2>4
    <2> QED
      BY <2>1, <2>5
  <1>5. ASSUME NEW b \in Accts, NEW r \in Requests, HandleMetadata(b, r)
        PROVE  FALSE
    BY <1>5 DEF HandleMetadata, memory
  <1>6. ASSUME NEW b \in Accts,
               \/ PublishMetadata(b) \/ FetchMetadata(b) \/ TornSubs(b)
               \/ MetadataSub(b) \/ MetadataUnsub(b)
               \/ MetadataRefused(b) \/ MetadataGet(b) \/ MetadataList(b) \/ MetadataSubs(b)
        PROVE  FALSE
    BY <1>6 DEF PublishMetadata, FetchMetadata, TornSubs, MetadataSub, MetadataUnsub, MetadataRefused,
       MetadataGet, MetadataList, MetadataSubs, memory
  <1> QED
    BY <1>2, <1>3, <1>4, <1>5, <1>6 DEF Next, Handle

\* Metadata::handle, the permission check: whatever the interleaving, the rows
\* and the cached values of an account change only when a request of its own is
\* handled.
THEOREM OwnersWrite == Spec => OwnersOnly
  <1>1. Inv /\ [Next]_vars => [WrittenByOwner]_vars
    BY WrittenStep
  <1> QED
    BY <1>1, InvAlways, PTL DEF Spec, OwnersOnly

-----------------------------------------------------------------------------
(* The refinement of MetaStore                                               *)

\* A handler's object is the target's, and has what the store has, unless the store is
\* broken.
LEMMA HandlersObject ==
    ASSUME Inv, NEW a \in Accts, pc[a] = "handle"
    PROVE  LET t == req[a].t IN
           /\ req[a] \in Requests /\ t \in Targets /\ ptr[a] \in Objs
           /\ StoreMap[t] # Closed
           /\ t \in raced => StoreMap[t] = Broken
           /\ t \notin raced =>
                /\ obj[t] = ptr[a] /\ Store!Answers(t)
                /\ StoreMap[t] = kv[ptr[a]] /\ SubMap[t] = subs[ptr[a]]
  <1>1. req[a] \in Requests /\ req[a].t \in Targets /\ ptr[a] \in Objs /\ obj[req[a].t] \in Objs
    BY RequestArguments DEF Inv, HandlerInv
  <1>2. req[a].t \notin raced => ptr[a] = obj[req[a].t]
    BY DEF Inv, CurrentInv
  <1>3. kv[ptr[a]] \in [Keys -> Values]
    BY <1>1 DEF Inv, TypeOK
  <1> QED
    BY <1>1, <1>2, <1>3, Constants DEF StoreMap, SubMap, Store!Answers

\* A target that is raced for leaves the store as it is if it is broken already, and
\* breaks it otherwise; the others keep what they have.
LEMMA BreaksOne ==
    ASSUME Inv, NEW a \in Accts, NEW t \in Targets, raced' = raced \cup {t}, UNCHANGED obj,
           answer' = [answer EXCEPT ![a] = NoReply] \/ UNCHANGED answer,
           \A u \in Targets : u # t /\ obj[u] # Null => kv'[obj[u]] = kv[obj[u]] /\ subs'[obj[u]] = subs[obj[u]]
    PROVE  Store!Break(a, t)
  <1>1. \A u \in Targets : u # t => StoreMap'[u] = StoreMap[u] /\ SubMap'[u] = SubMap[u]
    BY DEF StoreMap, SubMap
  <1>2. StoreMap'[t] = Broken /\ SubMap'[t] = Store!NoSubs
    BY DEF StoreMap, SubMap, NoSubs, Store!NoSubs
  <1>3. StoreMap' = [StoreMap EXCEPT ![t] = Broken]
    BY <1>1, <1>2 DEF StoreMap
  <1>4. SubMap' = [SubMap EXCEPT ![t] = Store!NoSubs]
    BY <1>1, <1>2 DEF SubMap
  <1> QED
    BY <1>3, <1>4 DEF Store!Break, Store!Reply, NoReply, Store!NoReply

\* Making an object does not show.
LEMMA CreateStores ==
    ASSUME Inv, NEW a \in Accts, CreateMetadata(a)
    PROVE  [Store!Next]_(Store!vars)
  <1>1. PICK o \in Objs : CreateEffect(a, o)
    BY CreateMetadataFacts
  <1>2. \A u \in Targets : obj[u] # Null => kv'[obj[u]] = kv[obj[u]] /\ subs'[obj[u]] = subs[obj[u]]
    BY <1>1 DEF CreateEffect, Inv, TypeOK
  <1>3. UNCHANGED <<obj, answer, raced>>
    BY <1>1 DEF CreateEffect
  <1>4. StoreMap' = StoreMap /\ SubMap' = SubMap
    BY <1>2, <1>3 DEF StoreMap, SubMap
  <1> QED
    BY <1>3, <1>4 DEF Store!vars

\* The first object to be published opens the store.
LEMMA PublishStores ==
    ASSUME Inv, NEW a \in Accts, PublishMetadata(a)
    PROVE  [Store!Next]_(Store!vars)
  <1> DEFINE t == req[a].t
             o == ptr[a]
  <1>1. /\ pc[a] = "publish" /\ t \in Targets /\ o \in Objs
        /\ obj' = [obj EXCEPT ![t] = o] /\ UNCHANGED <<kv, subs, answer, raced>>
    BY RequestArguments DEF PublishMetadata, At, Inv, HandlerInv
  <1>2. obj \in [Targets -> Objs \cup {Null}] /\ kv[o] \in [Keys -> Values] /\ subs[o] \in [Keys -> SUBSET Accts]
    BY <1>1 DEF Inv, TypeOK
  <1>3. \A u \in Targets : u # t => StoreMap'[u] = StoreMap[u] /\ SubMap'[u] = SubMap[u]
    BY <1>1, <1>2 DEF StoreMap, SubMap
  <1>4. CASE t \in raced
    <2>1. StoreMap'[t] = StoreMap[t] /\ SubMap'[t] = SubMap[t]
      BY <1>1, <1>4 DEF StoreMap, SubMap
    <2>2. StoreMap' = StoreMap /\ SubMap' = SubMap
      BY <1>3, <2>1 DEF StoreMap, SubMap
    <2> QED
      BY <1>1, <2>2 DEF Store!vars
  <1>5. CASE t \notin raced
    <2>1. obj[t] = Null
      BY <1>1, <1>5 DEF Inv, CurrentInv, Making
    <2>2. StoreMap[t] = Closed /\ StoreMap'[t] = kv[o] /\ SubMap'[t] = subs[o]
      BY <1>1, <1>2, <1>5, <2>1, Constants DEF StoreMap, SubMap
    <2>3. StoreMap' = [StoreMap EXCEPT ![t] = kv[o]]
      BY <1>3, <2>2 DEF StoreMap
    <2>4. SubMap' = [SubMap EXCEPT ![t] = subs[o]]
      BY <1>3, <2>2 DEF SubMap
    <2>5. Store!Open(t)
      BY <1>1, <1>2, <2>2, <2>3, <2>4 DEF Store!Open, Values
    <2> QED
      BY <1>1, <2>5 DEF Store!Next
  <1> QED
    BY <1>4, <1>5

\* What a request about a broken store changes, nobody is told of.
LEMMA BrokenStores ==
    ASSUME Inv, NEW a \in Accts, pc[a] = "handle", req[a].t \in raced, NEW reply, Finish(a, reply),
           \A o \in Objs : o # ptr[a] => kv'[o] = kv[o] /\ subs'[o] = subs[o]
    PROVE  Store!Next
  <1> DEFINE t == req[a].t
  <1>1. t \in Targets /\ ptr[a] \in Objs /\ StoreMap[t] = Broken
    BY HandlersObject
  <1>2. UNCHANGED <<obj, raced>> /\ answer' = [answer EXCEPT ![a] = reply]
    BY DEF Finish
  <1>3. \A u \in Targets : u \notin raced => obj[u] # ptr[a]
    BY <1>1 DEF Inv, OneTargetInv
  <1>4. obj \in [Targets -> Objs \cup {Null}]
    BY DEF Inv, TypeOK
  <1>5. \A u \in Targets : StoreMap'[u] = StoreMap[u] /\ SubMap'[u] = SubMap[u]
    BY <1>2, <1>3, <1>4 DEF StoreMap, SubMap
  <1>6. StoreMap' = StoreMap /\ SubMap' = SubMap
    BY <1>5 DEF StoreMap, SubMap
  <1>7. answer' = [answer EXCEPT ![a] = answer'[a]]
    BY <1>2
  <1>8. Store!Whatever(a, t)
    BY <1>1, <1>6, <1>7 DEF Store!Whatever, Store!Reply
  <1> QED
    BY <1>1, <1>8 DEF Store!Next

\* One store is written through its object.
LEMMA OneWritten ==
    ASSUME Inv, NEW t \in Targets \ raced, obj[t] # Null, UNCHANGED <<obj, raced>>,
           \A o \in Objs : o # obj[t] => kv'[o] = kv[o] /\ subs'[o] = subs[o]
    PROVE  /\ StoreMap' = [StoreMap EXCEPT ![t] = kv'[obj[t]]]
           /\ SubMap' = [SubMap EXCEPT ![t] = subs'[obj[t]]]
  <1>1. obj \in [Targets -> Objs \cup {Null}]
    BY DEF Inv, TypeOK
  <1>2. \A u \in Targets : u # t => obj[u] # obj[t]
    BY <1>1 DEF Inv, OneTargetInv
  <1>3. \A u \in Targets : u # t => StoreMap'[u] = StoreMap[u] /\ SubMap'[u] = SubMap[u]
    BY <1>1, <1>2 DEF StoreMap, SubMap
  <1>4. StoreMap'[t] = kv'[obj[t]] /\ SubMap'[t] = subs'[obj[t]]
    BY DEF StoreMap, SubMap
  <1>5. StoreMap' = [StoreMap EXCEPT ![t] = kv'[obj[t]]]
    BY <1>3, <1>4 DEF StoreMap
  <1>6. SubMap' = [SubMap EXCEPT ![t] = subs'[obj[t]]]
    BY <1>3, <1>4 DEF SubMap
  <1> QED
    BY <1>5, <1>6

\* SET and CLEAR write the store.
LEMMA WriteStores ==
    ASSUME Inv, NEW a \in Accts, MetadataSet(a) \/ MetadataClear(a)
    PROVE  Store!Next
  <1> DEFINE t == req[a].t
             k == req[a].k
             o == ptr[a]
  <1>1. /\ pc[a] = "handle" /\ req[a] \in Requests /\ t \in Targets /\ o \in Objs /\ k \in Keys
        /\ MetadataSet(a) => req[a].v \in Vals
    BY RequestArguments, HandlersObject DEF MetadataSet, MetadataClear, Handling, At
  <1>2. PICK v, reply :
          /\ kv' = [kv EXCEPT ![o][k] = v] /\ UNCHANGED <<subs, obj, raced>> /\ Finish(a, reply)
          /\ \/ MetadataSet(a) /\ v = req[a].v /\ reply = Tell(k, v)
             \/ MetadataClear(a) /\ v = Unset /\ reply = Tell(k, Empty)
    BY DEF MetadataSet, MetadataClear, Removed, Finish
  <1>3. kv \in [Objs -> [Keys -> Values]] /\ \A p \in Objs : p # o => kv'[p] = kv[p]
    BY <1>1, <1>2 DEF Inv, TypeOK
  <1>4. CASE t \in raced
    BY <1>1, <1>2, <1>3, <1>4, BrokenStores
  <1>5. CASE t \notin raced
    <2>1. obj[t] = o /\ Store!Answers(t) /\ StoreMap[t] = kv[o] /\ SubMap[t] = subs[o]
      BY <1>1, <1>5, HandlersObject
    <2>2. obj[t] # Null
      BY <1>1, <2>1, Constants
    <2>3. /\ StoreMap' = [StoreMap EXCEPT ![t] = kv'[o]]
          /\ SubMap' = [SubMap EXCEPT ![t] = subs'[o]]
      BY <1>1, <1>2, <1>3, <1>5, <2>1, <2>2, OneWritten
    <2>4. kv'[o] = [StoreMap[t] EXCEPT ![k] = v] /\ subs'[o] = SubMap[t]
      BY <1>1, <1>2, <1>3, <2>1
    <2>5. StoreMap' = [StoreMap EXCEPT ![t][k] = v] /\ SubMap' = SubMap
      <3>1. t \in DOMAIN StoreMap /\ SubMap = [u \in Targets |-> SubMap[u]]
        BY <1>1 DEF StoreMap, SubMap
      <3> QED
        BY <1>1, <2>3, <2>4, <3>1
    <2>6. Store!MayWrite(a, t) /\ answer' = [answer EXCEPT ![a] = reply]
      BY <1>2 DEF MetadataSet, MetadataClear, NoPermission, Store!MayWrite, Finish
    <2>7. CASE MetadataSet(a) /\ v = req[a].v /\ reply = Tell(k, v)
      <3>1. Store!Set(a, t, k, v)
        BY <2>1, <2>5, <2>6, <2>7 DEF Store!Set, Store!Reply, Tell, Store!Tell, NoReply, Store!NoReply
      <3> QED
        BY <1>1, <2>7, <3>1 DEF Store!Next
    <2>8. CASE MetadataClear(a) /\ v = Unset /\ reply = Tell(k, Empty)
      <3>1. Store!Clear(a, t, k)
        BY <2>1, <2>5, <2>6, <2>8 DEF Store!Clear, Store!Reply, Tell, Store!Tell, NoReply, Store!NoReply
      <3> QED
        BY <1>1, <3>1 DEF Store!Next
    <2> QED
      BY <1>2, <2>7, <2>8
  <1> QED
    BY <1>4, <1>5

\* SUB and UNSUB change who is subscribed.
LEMMA SubscribeStores ==
    ASSUME Inv, NEW a \in Accts, MetadataSub(a) \/ MetadataUnsub(a)
    PROVE  Store!Next
  <1> DEFINE t == req[a].t
             k == req[a].k
             o == ptr[a]
  <1>1. pc[a] = "handle" /\ req[a] \in Requests /\ t \in Targets /\ o \in Objs /\ k \in Keys
    BY RequestArguments, HandlersObject DEF MetadataSub, MetadataUnsub, Handling, At
  <1>2. PICK who :
          /\ subs' = [subs EXCEPT ![o][k] = who] /\ UNCHANGED <<kv, obj, raced>>
          /\ Finish(a, Confirm({k}))
          /\ \/ MetadataSub(a) /\ who = subs[o][k] \cup {a}
             \/ MetadataUnsub(a) /\ who = subs[o][k] \ {a}
    BY DEF MetadataSub, MetadataUnsub, Subscribers, Finish
  <1>3. subs \in [Objs -> [Keys -> SUBSET Accts]] /\ \A p \in Objs : p # o => subs'[p] = subs[p]
    BY <1>1, <1>2 DEF Inv, TypeOK
  <1>4. CASE t \in raced
    BY <1>1, <1>2, <1>3, <1>4, BrokenStores
  <1>5. CASE t \notin raced
    <2>1. obj[t] = o /\ Store!Answers(t) /\ StoreMap[t] = kv[o] /\ SubMap[t] = subs[o]
      BY <1>1, <1>5, HandlersObject
    <2>2. obj[t] # Null
      BY <1>1, <2>1, Constants
    <2>3. /\ StoreMap' = [StoreMap EXCEPT ![t] = kv'[o]]
          /\ SubMap' = [SubMap EXCEPT ![t] = subs'[o]]
      BY <1>1, <1>2, <1>3, <1>5, <2>1, <2>2, OneWritten
    <2>4. subs'[o] = [SubMap[t] EXCEPT ![k] = who] /\ kv'[o] = StoreMap[t]
      BY <1>1, <1>2, <1>3, <2>1
    <2>5. SubMap' = [SubMap EXCEPT ![t][k] = who] /\ StoreMap' = StoreMap
      <3>1. t \in DOMAIN SubMap /\ StoreMap = [u \in Targets |-> StoreMap[u]]
        BY <1>1 DEF StoreMap, SubMap
      <3> QED
        BY <1>1, <2>3, <2>4, <3>1
    <2>6. answer' = [answer EXCEPT ![a] = Store!Confirm({k})]
      BY <1>2 DEF Finish, Confirm, Store!Confirm, NoReply, Store!NoReply
    <2>7. CASE MetadataSub(a) /\ who = subs[o][k] \cup {a}
      <3>1. Store!Subscribe(a, t, k)
        BY <2>1, <2>5, <2>6, <2>7 DEF Store!Subscribe, Store!Reply
      <3> QED
        BY <1>1, <3>1 DEF Store!Next
    <2>8. CASE MetadataUnsub(a) /\ who = subs[o][k] \ {a}
      <3>1. Store!Unsubscribe(a, t, k)
        BY <2>1, <2>5, <2>6, <2>8 DEF Store!Unsubscribe, Store!Reply
      <3> QED
        BY <1>1, <3>1 DEF Store!Next
    <2> QED
      BY <1>2, <2>7, <2>8
  <1> QED
    BY <1>4, <1>5

\* The other commands are answered from the store.
LEMMA ReadStores ==
    ASSUME Inv, NEW a \in Accts,
           MetadataRefused(a) \/ MetadataGet(a) \/ MetadataList(a) \/ MetadataSubs(a)
    PROVE  Store!Next
  <1> DEFINE t == req[a].t
             k == req[a].k
  <1>1. pc[a] = "handle" /\ (\E reply : Finish(a, reply)) /\ UNCHANGED <<kv, subs>>
    BY DEF MetadataRefused, MetadataGet, MetadataList, MetadataSubs, Handling, At
  <1>2. t \in Targets /\ (MetadataGet(a) => k \in Keys)
    BY <1>1, HandlersObject, RequestArguments DEF MetadataGet, Handling
  <1>3. StoreMap' = StoreMap /\ SubMap' = SubMap
    BY <1>1 DEF Finish, StoreMap, SubMap
  <1>4. CASE t \in raced
    BY <1>1, <1>4, BrokenStores
  <1>5. CASE t \notin raced
    <2>1. Store!Answers(t) /\ kv[ptr[a]] = StoreMap[t] /\ subs[ptr[a]] = SubMap[t]
      BY <1>1, <1>5, HandlersObject
    <2>2. CASE MetadataRefused(a)
      <3>1. Store!Forbid(a, t)
        BY <1>3, <2>1, <2>2 DEF MetadataRefused, Store!Forbid, Store!MayWrite, NoPermission, Finish,
           Store!Reply, Refuse, Store!Refuse, NoReply, Store!NoReply
      <3> QED
        BY <1>2, <3>1 DEF Store!Next
    <2>3. CASE MetadataGet(a)
      <3>1. Store!Get(a, t, k)
        BY <1>3, <2>1, <2>3 DEF MetadataGet, Store!Get, Finish, Store!Reply, Tell, Store!Tell,
           NoReply, Store!NoReply
      <3> QED
        BY <1>2, <2>3, <3>1 DEF Store!Next
    <2>4. CASE MetadataList(a)
      <3>1. Store!List(a, t)
        BY <1>3, <2>1, <2>4 DEF MetadataList, Store!List, Finish, Store!Reply, TellAll,
           Store!TellAll, NoReply, Store!NoReply
      <3> QED
        BY <1>2, <3>1 DEF Store!Next
    <2>5. CASE MetadataSubs(a)
      <3>1. Store!Subscriptions(a, t)
        BY <1>3, <2>1, <2>5 DEF MetadataSubs, Store!Subscriptions, Finish, Store!Reply, Confirm,
           Store!Confirm, NoReply, Store!NoReply
      <3> QED
        BY <1>2, <3>1 DEF Store!Next
    <2> QED
      BY <2>2, <2>3, <2>4, <2>5
  <1> QED
    BY <1>4, <1>5

\* The steps that do not answer.
LEMMA SilentStores ==
    ASSUME Inv
    PROVE  /\ Restart => Store!Restart
           /\ \A a \in Accts : /\ \A r \in Requests : HandleMetadata(a, r) => Store!Ask(a) \/ Store!Break(a, r.t)
                               /\ FetchMetadata(a) => UNCHANGED Store!vars
                               /\ TornSubs(a) => Store!Break(a, req[a].t)
  <1>1. ASSUME Restart
        PROVE  Store!Restart
    <2>1. StoreMap' = Store!AllClosed
      BY <1>1 DEF Restart, StoreMap, Store!AllClosed
    <2>2. SubMap' = [t \in Targets |-> Store!NoSubs]
      BY <1>1 DEF Restart, SubMap, NoSubs, Store!NoSubs
    <2>3. answer' = [a \in Accts |-> Store!NoReply]
      BY <1>1 DEF Restart, NoReply, Store!NoReply
    <2> QED
      BY <2>1, <2>2, <2>3 DEF Store!Restart
  <1>2. ASSUME NEW a \in Accts, NEW r \in Requests, HandleMetadata(a, r)
        PROVE  Store!Ask(a) \/ Store!Break(a, r.t)
    <2>1. /\ UNCHANGED <<obj, kv, subs>> /\ answer' = [answer EXCEPT ![a] = NoReply]
          /\ raced' = raced \/ raced' = raced \cup {r.t}
      BY <1>2 DEF HandleMetadata, memory
    <2>2. CASE raced' = raced
      BY <2>1, <2>2 DEF Store!Ask, Store!Reply, NoReply, Store!NoReply, StoreMap, SubMap
    <2>3. CASE raced' = raced \cup {r.t}
      BY <2>1, <2>3, RequestArguments, BreaksOne
    <2> QED
      BY <2>1, <2>2, <2>3
  <1>3. ASSUME NEW a \in Accts, FetchMetadata(a)
        PROVE  UNCHANGED Store!vars
    BY <1>3 DEF FetchMetadata, Store!vars, StoreMap, SubMap, memory, faults
  <1>4. ASSUME NEW a \in Accts, TornSubs(a)
        PROVE  Store!Break(a, req[a].t)
    <2>1. /\ req[a].t \in Targets /\ raced' = raced \cup {req[a].t}
          /\ UNCHANGED <<obj, kv, subs, answer>>
      BY <1>4, RequestArguments DEF TornSubs, Handling, At, Inv, HandlerInv, memory
    <2> QED
      BY <2>1, BreaksOne
  <1> QED
    BY <1>1, <1>2, <1>3, <1>4

\* Every step is one of the store or does not show.
LEMMA NextStores ==
    ASSUME Inv, [Next]_vars
    PROVE  [Store!Next]_(Store!vars)
  <1>1. CASE UNCHANGED vars
    BY <1>1 DEF vars, memory, faults, Store!vars, StoreMap, SubMap
  <1>2. CASE Restart
    BY <1>2, SilentStores DEF Store!Next
  <1>3. ASSUME NEW a \in Accts, NEW r \in Requests, HandleMetadata(a, r)
        PROVE  Store!Next
    BY <1>3, SilentStores, RequestArguments DEF Store!Next
  <1>4. ASSUME NEW a \in Accts, CreateMetadata(a) \/ PublishMetadata(a) \/ FetchMetadata(a)
        PROVE  [Store!Next]_(Store!vars)
    BY <1>4, CreateStores, PublishStores, SilentStores
  <1>5. ASSUME NEW a \in Accts, TornSubs(a)
        PROVE  Store!Next
    <2>1. req[a].t \in Targets
      BY <1>5, RequestArguments DEF TornSubs, Handling, At, Inv, HandlerInv
    <2> QED
      BY <1>5, <2>1, SilentStores DEF Store!Next
  <1>6. ASSUME NEW a \in Accts, Handle(a)
        PROVE  Store!Next
    BY <1>6, WriteStores, SubscribeStores, ReadStores DEF Handle
  <1> QED
    BY <1>1, <1>2, <1>3, <1>4, <1>5, <1>6 DEF Next

\* For any workers, failing statements and restarts, the objects made at first use
\* implement the store: from then on and until the next restart every answer is the value
\* last set, and the subscribers those who asked last, unless two workers raced for the
\* object.
THEOREM StoreImplemented == Spec => ImplementsStore
  <1>1. Init => Store!Init
    BY DEF Init, Store!Init, StoreMap, SubMap, NoSubs, Store!NoSubs, Store!AllClosed, NoReply, Store!NoReply
  <1>2. Inv /\ [Next]_vars => [Store!Next]_(Store!vars)
    BY NextStores
  <1> QED
    BY <1>1, <1>2, InvAlways, PTL DEF Spec, ImplementsStore, Store!Spec
=============================================================================
