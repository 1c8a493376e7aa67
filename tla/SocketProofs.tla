---------------------------- MODULE SocketProofs ----------------------------
(***************************************************************************)
(* Proofs about ConnLimit, for any number of sockets, servers, addresses   *)
(* and workers and any limit: activeConnections is exact, so the limit per *)
(* address holds and the plain IRC server refuses nobody wrongly.  And     *)
(* about Lines, for any stream of bytes, however the network cuts it:      *)
(* what is read from a socket that was admitted are the lines that were    *)
(* sent, in order (the second part of the module).                         *)
(*                                                                         *)
(* SlotsExact is not inductive.  A worker that lowers a counter must be    *)
(* acting for a socket that holds a slot: AddressedInv, PostedInv and      *)
(* OnceInv say that a posted socket is untouched and posted once.  And a   *)
(* counter must be positive when it is lowered, which SlotsExact itself    *)
(* gives, through Cardinality.                                             *)
(*                                                                         *)
(* InOrder is not inductive either.  L!Inv says where the bytes are: those *)
(* handled end with a newline and are followed by those buffered, unread   *)
(* and on their way.  Newlines are numbered by counting, which is why the  *)
(* lemmas speak of Rank and Cut.                                           *)
(***************************************************************************)
EXTENDS ConnLimit, FiniteSetTheorems, SequenceTheorems, TLAPS

-----------------------------------------------------------------------------
(* Who holds a slot                                                          *)

\* The sockets of one address are finitely many.
LEMMA InFinite ==
    ASSUME NEW v, NEW i, NEW states
    PROVE  /\ IsFiniteSet(In(v, i, states))
           /\ Cardinality(In(v, i, states)) \in Nat
  <1>1. In(v, i, states) \in SUBSET Socks
    BY DEF In
  <1>2. IsFiniteSet(In(v, i, states))
    BY <1>1, FS_Subset, ConnLimitAssumption
  <1> QED
    BY <1>2, FS_CardinalityType

\* Admitting s adds it to the sockets of its own address and to no other.
LEMMA Gain ==
    ASSUME TypeOK, NEW s \in Socks, NEW v \in Servers, NEW i \in Peers,
           sock[s] = "none",
           sock' = [sock EXCEPT ![s] = "queued"],
           server' = [server EXCEPT ![s] = v],
           peer' = [peer EXCEPT ![s] = i],
           AddressedInv
    PROVE  \A y \in Servers, j \in Peers :
               /\ y = v /\ j = i => Cardinality(In(y, j, Holding))' =
                                       Cardinality(In(y, j, Holding)) + 1
               /\ ~(y = v /\ j = i) => Cardinality(In(y, j, Holding))' =
                                          Cardinality(In(y, j, Holding))
  <1> SUFFICES ASSUME NEW y \in Servers, NEW j \in Peers
               PROVE  /\ y = v /\ j = i => Cardinality(In(y, j, Holding))' =
                                              Cardinality(In(y, j, Holding)) + 1
                      /\ ~(y = v /\ j = i) => Cardinality(In(y, j, Holding))' =
                                                 Cardinality(In(y, j, Holding))
    OBVIOUS
  <1>1. s \notin In(y, j, Holding)
    BY DEF In, Holding, Live
  <1>2. CASE y = v /\ j = i
    <2>1. In(y, j, Holding)' = In(y, j, Holding) \cup {s}
      BY <1>2 DEF In, Holding, Live, TypeOK
    <2>2. Cardinality(In(y, j, Holding) \cup {s}) = Cardinality(In(y, j, Holding)) + 1
      BY <1>1, InFinite, FS_AddElement
    <2> QED
      BY <1>2, <2>1, <2>2
  <1>3. CASE ~(y = v /\ j = i)
    <2>1. In(y, j, Holding)' = In(y, j, Holding)
      BY <1>3 DEF In, Holding, Live, TypeOK
    <2> QED
      BY <1>3, <2>1, InFinite
  <1> QED
    BY <1>2, <1>3

\* Ending s removes it from the sockets of its own address and from no other.
LEMMA Lose ==
    ASSUME TypeOK, NEW s \in Socks, NEW x \in SockStates \ Holding,
           sock[s] \in Holding, sock' = [sock EXCEPT ![s] = x],
           UNCHANGED <<server, peer>>
    PROVE  \A y \in Servers, j \in Peers :
               Cardinality(In(y, j, Holding))' =
                   Cardinality(In(y, j, Holding))
                       - (IF y = server[s] /\ j = peer[s] THEN 1 ELSE 0)
  <1> SUFFICES ASSUME NEW y \in Servers, NEW j \in Peers
               PROVE  Cardinality(In(y, j, Holding))' =
                          Cardinality(In(y, j, Holding))
                              - (IF y = server[s] /\ j = peer[s] THEN 1 ELSE 0)
    OBVIOUS
  <1>2. CASE y = server[s] /\ j = peer[s]
    <2>1. s \in In(y, j, Holding)
      BY <1>2 DEF In
    <2>2. In(y, j, Holding)' = In(y, j, Holding) \ {s}
      BY <1>2 DEF In, TypeOK, Holding, Live
    <2>3. Cardinality(In(y, j, Holding) \ {s}) = Cardinality(In(y, j, Holding)) - 1
      BY <2>1, InFinite, FS_RemoveElement
    <2> QED
      BY <1>2, <2>2, <2>3
  <1>3. CASE ~(y = server[s] /\ j = peer[s])
    <2>1. In(y, j, Holding)' = In(y, j, Holding)
      BY <1>3 DEF In, TypeOK, Holding, Live
    <2> QED
      BY <1>3, <2>1, InFinite
  <1> QED
    BY <1>2, <1>3

\* A step between two states that both hold a slot, or both do not, changes no count.
LEMMA Keep ==
    ASSUME TypeOK, NEW s \in Socks, NEW x \in SockStates,
           sock[s] \in Holding <=> x \in Holding,
           sock' = [sock EXCEPT ![s] = x],
           UNCHANGED <<server, peer>>
    PROVE  \A y \in Servers, j \in Peers : In(y, j, Holding)' = In(y, j, Holding)
  BY DEF In, TypeOK, Holding, Live

\* A counter of the invariant that covers a slot-holding socket is positive.
LEMMA SlotCounted ==
    ASSUME Inv, NEW s \in Socks, sock[s] \in Holding, peer[s] # Unknown
    PROVE  active[<<server[s], peer[s]>>] > 0
  <1>1. server[s] \in Servers /\ peer[s] \in Ips
    BY DEF Inv, AddressedInv, Holding, Live, Peers
  <1>2. s \in In(server[s], peer[s], Holding)
    BY DEF In
  <1>3. Cardinality(In(server[s], peer[s], Holding)) > 0
    BY <1>2, InFinite, FS_EmptySet
  <1> QED
    BY <1>1, <1>3 DEF Inv, SlotsExact

-----------------------------------------------------------------------------
(* Giving a slot back                                                        *)

\* Release keeps the counters exact and within their bounds.
LEMMA ReleaseCounts ==
    ASSUME Inv, NEW s \in Socks, NEW x \in SockStates \ Holding,
           sock[s] \in Holding, sock' = [sock EXCEPT ![s] = x],
           UNCHANGED <<server, peer>>, Release(s)
    PROVE  /\ active' \in [Servers \X Peers -> Nat]
           /\ CountInv'
           /\ SlotsExact'
  <1> DEFINE k == <<server[s], peer[s]>>
  <1>1. server[s] \in Servers /\ peer[s] \in Peers
    BY DEF Inv, AddressedInv, Holding, Live
  <1>2. active \in [Servers \X Peers -> Nat] /\ k \in Servers \X Peers
    BY <1>1 DEF Inv, TypeOK
  <1>3. active' = [active EXCEPT ![k] = Decrement(active[k])]
    BY DEF Release
  <1>4. active[k] \in Nat /\ Decrement(active[k]) \in Nat /\ Decrement(active[k]) <= active[k]
    BY <1>2 DEF Decrement
  <1>5. active' \in [Servers \X Peers -> Nat]
    BY <1>2, <1>3, <1>4
  <1>6. \A y \in Servers, j \in Peers :
            active'[<<y, j>>] = IF y = server[s] /\ j = peer[s]
                                THEN Decrement(active[k]) ELSE active[<<y, j>>]
    BY <1>2, <1>3
  <1>7. peer[s] = Unknown => Decrement(active[k]) = 0
    BY <1>1 DEF Inv, CountInv, Decrement
  <1>8. CountInv'
    <2> SUFFICES ASSUME NEW y \in Servers
                 PROVE  /\ active'[<<y, Unknown>>] = 0
                        /\ \A i \in Ips : active'[<<y, i>>] <= MaxPerIp
      BY DEF CountInv
    <2>1. active[<<y, Unknown>>] = 0 /\ \A i \in Ips : active[<<y, i>>] <= MaxPerIp
      BY DEF Inv, CountInv
    <2>2. active'[<<y, Unknown>>] = 0
      BY <1>6, <1>7, <2>1 DEF Peers
    <2>3. ASSUME NEW i \in Ips
          PROVE  active'[<<y, i>>] <= MaxPerIp
      <3>1. active[<<y, i>>] \in Nat /\ active'[<<y, i>>] \in Nat
        BY <1>2, <1>5 DEF Peers
      <3>2. active'[<<y, i>>] <= active[<<y, i>>]
        BY <1>4, <1>6, <3>1 DEF Peers
      <3> QED
        BY <2>1, <3>1, <3>2, ConnLimitAssumption
    <2> QED
      BY <2>2, <2>3
  <1>9. SlotsExact'
    <2> SUFFICES ASSUME NEW y \in Servers, NEW i \in Ips
                 PROVE  active'[<<y, i>>] = Cardinality(In(y, i, Holding))'
      BY DEF SlotsExact
    <2>1. active[<<y, i>>] = Cardinality(In(y, i, Holding)) /\ active[<<y, i>>] \in Nat
      BY <1>2 DEF Inv, SlotsExact, Peers
    <2>2. Cardinality(In(y, i, Holding))' =
              Cardinality(In(y, i, Holding))
                  - (IF y = server[s] /\ i = peer[s] THEN 1 ELSE 0)
      BY Lose DEF Inv, Peers
    <2>3. CASE y = server[s] /\ i = peer[s]
      <3>1. active[k] > 0
        BY <2>3, SlotCounted, ConnLimitAssumption
      <3>2. Decrement(active[k]) = active[k] - 1
        BY <1>4, <3>1 DEF Decrement
      <3> QED
        BY <1>6, <2>1, <2>2, <2>3, <3>2 DEF Peers
    <2>4. CASE ~(y = server[s] /\ i = peer[s])
      BY <1>6, <2>1, <2>2, <2>4 DEF Peers
    <2> QED
      BY <2>3, <2>4
  <1> QED
    BY <1>5, <1>8, <1>9

-----------------------------------------------------------------------------
(* The workers' queues                                                       *)

\* The socket at the head of a queue is "queued", belongs to that server and is in
\* no other place of any queue.
LEMMA Dequeued ==
    ASSUME Inv, NEW v \in Servers, NEW w \in Workers, NEW s \in Socks, Dequeue(v, w, s),
           NEW x \in SockStates, sock' = [sock EXCEPT ![s] = x]
    PROVE  /\ sock[s] = "queued"
           /\ server[s] = v
           /\ queue' \in [Servers \X Workers -> Seq(Socks)]
           /\ PostedInv'
           /\ OnceInv'
  <1> DEFINE p == <<v, w>>
  <1>1. queue \in [Queues -> Seq(Socks)] /\ p \in Queues /\ p[1] = v
    BY DEF Inv, TypeOK, Queues
  <1>2. /\ queue' = [queue EXCEPT ![p] = Tail(queue[p])]
        /\ queue[p] # << >> /\ s = Head(queue[p])
        /\ UNCHANGED server
    BY DEF Dequeue
  <1> HIDE DEF p
  <1>3. /\ queue[p] \in Seq(Socks) /\ Len(queue[p]) \in Nat
        /\ s = queue[p][1] /\ 1 \in 1 .. Len(queue[p])
    BY <1>1, <1>2
  <1>4. /\ Tail(queue[p]) \in Seq(Socks)
        /\ Len(Tail(queue[p])) = Len(queue[p]) - 1
        /\ \A j \in 1 .. Len(Tail(queue[p])) : Tail(queue[p])[j] = queue[p][j + 1]
    BY <1>2, <1>3, HeadTailProperties
  <1>5. sock[s] = "queued" /\ server[s] = v
    BY <1>1, <1>3 DEF Inv, PostedInv
  <1>6. queue' \in [Queues -> Seq(Socks)]
    BY <1>1, <1>2, <1>4
  <1>7. \A q \in Queues : queue'[q] = IF q = p THEN Tail(queue[p]) ELSE queue[q]
    BY <1>1, <1>2
  \* What stands at place j of a queue stood one place further back before.
  <1> DEFINE Was(q, j) == IF q = p THEN j + 1 ELSE j
  <1>8. ASSUME NEW q \in Queues, NEW j \in 1 .. Len(queue'[q])
        PROVE  /\ Was(q, j) \in 1 .. Len(queue[q])
               /\ queue'[q][j] = queue[q][Was(q, j)]
               /\ queue'[q][j] # s
               /\ queue'[q][j] \in Socks
    <2>1. queue[q] \in Seq(Socks)
      BY <1>1
    <2>2. CASE q = p
      <3>1. j \in 1 .. Len(Tail(queue[p])) /\ queue'[q][j] = Tail(queue[p])[j]
        BY <1>7, <2>2
      <3>2. j + 1 \in 1 .. Len(queue[p]) /\ j + 1 # 1 /\ Tail(queue[p])[j] = queue[p][j + 1]
        BY <3>1, <1>3, <1>4
      <3>3. queue[p][j + 1] # queue[p][1]
        BY <3>2, <1>1, <1>3 DEF Inv, OnceInv
      <3>4. queue[p][j + 1] \in Socks
        BY <3>2, <1>3
      <3> QED
        BY <2>2, <3>1, <3>2, <3>3, <3>4, <1>3
    <2>3. CASE q # p
      <3>1. queue'[q] = queue[q] /\ j \in 1 .. Len(queue[q])
        BY <1>7, <2>3
      <3>2. queue[q][j] # queue[p][1]
        BY <3>1, <2>3, <1>1, <1>3 DEF Inv, OnceInv
      <3> QED
        BY <2>1, <2>3, <3>1, <3>2, <1>3
    <2> QED
      BY <2>2, <2>3
  <1>9. PostedInv'
    <2> SUFFICES ASSUME NEW q \in Queues, NEW j \in 1 .. Len(queue'[q])
                 PROVE  sock'[queue'[q][j]] = "queued" /\ server'[queue'[q][j]] = q[1]
      BY DEF PostedInv
    <2>1. sock[queue[q][Was(q, j)]] = "queued" /\ server[queue[q][Was(q, j)]] = q[1]
      BY <1>8 DEF Inv, PostedInv
    <2>2. queue'[q][j] = queue[q][Was(q, j)] /\ queue'[q][j] # s /\ queue'[q][j] \in Socks
      BY <1>8
    <2> QED
      BY <2>1, <2>2, <1>2 DEF Inv, TypeOK
  <1>10. OnceInv'
    <2> SUFFICES ASSUME NEW q \in Queues, NEW r \in Queues,
                        NEW j \in 1 .. Len(queue'[q]), NEW k \in 1 .. Len(queue'[r]),
                        queue'[q][j] = queue'[r][k]
                 PROVE  q = r /\ j = k
      BY DEF OnceInv
    <2>1. /\ Was(q, j) \in 1 .. Len(queue[q])
          /\ Was(r, k) \in 1 .. Len(queue[r])
          /\ queue[q][Was(q, j)] = queue[r][Was(r, k)]
      BY <1>8
    <2>2. q = r /\ Was(q, j) = Was(r, k)
      <3> HIDE DEF Was
      <3> QED
        BY <2>1 DEF Inv, OnceInv
    <2> QED
      BY <2>2
  <1> QED
    BY <1>5, <1>6, <1>9, <1>10 DEF Queues

\* Posting a socket that was not posted before keeps the queues in order.
LEMMA Enqueued ==
    ASSUME Inv, NEW v \in Servers, NEW w \in Workers, NEW s \in Socks, NEW i,
           sock[s] = "none",
           sock' = [sock EXCEPT ![s] = "queued"],
           server' = [server EXCEPT ![s] = v],
           queue' = [queue EXCEPT ![<<v, w>>] = Append(queue[<<v, w>>], s)]
    PROVE  /\ queue' \in [Servers \X Workers -> Seq(Socks)]
           /\ PostedInv'
           /\ OnceInv'
  <1> DEFINE p == <<v, w>>
  <1>1. queue \in [Queues -> Seq(Socks)] /\ p \in Queues /\ p[1] = v
    BY DEF Inv, TypeOK, Queues
  <1>2. queue' = [queue EXCEPT ![p] = Append(queue[p], s)]
    OBVIOUS
  <1> HIDE DEF p
  <1>3. queue[p] \in Seq(Socks) /\ Len(queue[p]) \in Nat
    BY <1>1
  <1>4. /\ Append(queue[p], s) \in Seq(Socks)
        /\ Len(Append(queue[p], s)) = Len(queue[p]) + 1
        /\ \A j \in 1 .. Len(queue[p]) : Append(queue[p], s)[j] = queue[p][j]
        /\ Append(queue[p], s)[Len(queue[p]) + 1] = s
    BY <1>3, AppendProperties
  <1>5. queue' \in [Queues -> Seq(Socks)]
    BY <1>1, <1>2, <1>4
  <1>6. \A q \in Queues : queue'[q] = IF q = p THEN Append(queue[p], s) ELSE queue[q]
    BY <1>1, <1>2
  <1>7. ASSUME NEW q \in Queues, NEW j \in 1 .. Len(queue[q])
        PROVE  queue[q][j] # s /\ queue[q][j] \in Socks
    <2>1. queue[q] \in Seq(Socks)
      BY <1>1
    <2>2. sock[queue[q][j]] = "queued"
      BY DEF Inv, PostedInv
    <2> QED
      BY <2>1, <2>2
  \* A place of a queue is an old one, or the new last place of p.
  <1>8. ASSUME NEW q \in Queues, NEW j \in 1 .. Len(queue'[q])
        PROVE  \/ j \in 1 .. Len(queue[q]) /\ queue'[q][j] = queue[q][j]
               \/ q = p /\ j = Len(queue[p]) + 1 /\ queue'[q][j] = s
    <2>1. CASE q = p
      BY <2>1, <1>3, <1>4, <1>6
    <2>2. CASE q # p
      BY <2>2, <1>6
    <2> QED
      BY <2>1, <2>2
  <1>9. PostedInv'
    <2> SUFFICES ASSUME NEW q \in Queues, NEW j \in 1 .. Len(queue'[q])
                 PROVE  sock'[queue'[q][j]] = "queued" /\ server'[queue'[q][j]] = q[1]
      BY DEF PostedInv
    <2>1. CASE j \in 1 .. Len(queue[q]) /\ queue'[q][j] = queue[q][j]
      <3>1. sock[queue[q][j]] = "queued" /\ server[queue[q][j]] = q[1]
        BY <2>1 DEF Inv, PostedInv
      <3>2. queue[q][j] # s /\ queue[q][j] \in Socks
        BY <2>1, <1>7
      <3> QED
        BY <2>1, <3>1, <3>2 DEF Inv, TypeOK
    <2>2. CASE q = p /\ queue'[q][j] = s
      BY <2>2, <1>1 DEF Inv, TypeOK
    <2> QED
      BY <1>8, <2>1, <2>2
  <1>10. OnceInv'
    <2> SUFFICES ASSUME NEW q \in Queues, NEW r \in Queues,
                        NEW j \in 1 .. Len(queue'[q]), NEW k \in 1 .. Len(queue'[r]),
                        queue'[q][j] = queue'[r][k]
                 PROVE  q = r /\ j = k
      BY DEF OnceInv
    <2>1. CASE j \in 1 .. Len(queue[q]) /\ queue'[q][j] = queue[q][j]
      <3>1. queue'[r][k] # s
        BY <2>1, <1>7
      <3>2. k \in 1 .. Len(queue[r]) /\ queue'[r][k] = queue[r][k]
        BY <1>8, <3>1
      <3> QED
        BY <2>1, <3>2 DEF Inv, OnceInv
    <2>2. CASE q = p /\ j = Len(queue[p]) + 1 /\ queue'[q][j] = s
      <3>1. ~(k \in 1 .. Len(queue[r]) /\ queue'[r][k] = queue[r][k])
        BY <2>2, <1>7
      <3> QED
        BY <2>2, <3>1, <1>8
    <2> QED
      BY <1>8, <2>1, <2>2
  <1> QED
    BY <1>5, <1>9, <1>10 DEF Queues

\* A step that neither posts nor takes a call keeps the queues in order, if the
\* socket it moves was not posted.
LEMMA QueuesKept ==
    ASSUME Inv, NEW s \in Socks, NEW x \in SockStates, sock[s] # "queued",
           sock' = [sock EXCEPT ![s] = x],
           \A z \in Socks \ {s} : server'[z] = server[z],
           UNCHANGED queue
    PROVE  PostedInv' /\ OnceInv'
  <1>1. PostedInv'
    <2> SUFFICES ASSUME NEW q \in Queues, NEW j \in 1 .. Len(queue[q])
                 PROVE  sock'[queue[q][j]] = "queued" /\ server'[queue[q][j]] = q[1]
      BY DEF PostedInv
    <2>1. sock[queue[q][j]] = "queued" /\ server[queue[q][j]] = q[1]
      BY DEF Inv, PostedInv
    <2>2. queue[q][j] \in Socks
      BY DEF Inv, TypeOK, Queues
    <2> QED
      BY <2>1, <2>2 DEF Inv, TypeOK
  <1>2. OnceInv'
    BY DEF Inv, OnceInv
  <1> QED
    BY <1>1, <1>2

-----------------------------------------------------------------------------
(* Dealing out                                                               *)

\* m_next_worker counts up and starts again at zero.
LEMMA NextWorkerValue ==
    ASSUME NEW w \in Workers
    PROVE  /\ NextWorker(w) \in Workers
           /\ NextWorker(w) = IF w + 1 = ThreadCount THEN 0 ELSE w + 1
  <1>1. w \in Nat /\ w + 1 \in 1 .. ThreadCount /\ ThreadCount \in Nat \ {0}
    BY ConnLimitAssumption DEF Workers
  <1>2. CASE w + 1 = ThreadCount
    <2>1. ThreadCount % ThreadCount = 0
      BY <1>1
    <2> QED
      BY <1>1, <1>2, <2>1 DEF NextWorker, Workers
  <1>3. CASE w + 1 < ThreadCount
    <2>1. (w + 1) % ThreadCount = w + 1
      BY <1>1, <1>3
    <2> QED
      BY <1>1, <1>3, <2>1 DEF NextWorker, Workers
  <1> QED
    BY <1>1, <1>2, <1>3

\* Giving the next worker of v one socket more keeps the round in order.
LEMMA Dealing ==
    ASSUME TypeOK, DealtInv, NEW v \in Servers,
           dealt' = [dealt EXCEPT ![<<v, next[v]>>] = dealt[<<v, next[v]>>] + 1],
           next' = [next EXCEPT ![v] = NextWorker(next[v])]
    PROVE  /\ dealt' \in [Servers \X Workers -> Nat]
           /\ next' \in [Servers -> Workers]
           /\ DealtInv'
  <1>1. /\ next[v] \in Workers
        /\ dealt \in [Servers \X Workers -> Nat]
        /\ \A y \in Servers, w \in Workers : dealt[<<y, w>>] \in Nat
    BY DEF TypeOK
  <1>2. /\ NextWorker(next[v]) \in Workers
        /\ NextWorker(next[v]) = IF next[v] + 1 = ThreadCount THEN 0 ELSE next[v] + 1
    BY <1>1, NextWorkerValue
  <1>3. /\ dealt' \in [Servers \X Workers -> Nat]
        /\ next' \in [Servers -> Workers]
    BY <1>1, <1>2 DEF TypeOK
  <1>4. \A y \in Servers, w \in Workers :
            dealt'[<<y, w>>] = dealt[<<y, w>>] + (IF y = v /\ w = next[v] THEN 1 ELSE 0)
    <2> SUFFICES ASSUME NEW y \in Servers, NEW w \in Workers
                 PROVE  dealt'[<<y, w>>] =
                            dealt[<<y, w>>] + (IF y = v /\ w = next[v] THEN 1 ELSE 0)
      OBVIOUS
    <2>1. <<y, w>> \in Servers \X Workers /\ dealt[<<y, w>>] \in Nat
      BY <1>1
    <2>2. CASE y = v /\ w = next[v]
      BY <1>1, <2>1, <2>2
    <2>3. CASE ~(y = v /\ w = next[v])
      BY <1>1, <2>1, <2>3
    <2> QED
      BY <2>2, <2>3
  <1>5. \A y \in Servers : next'[y] = IF y = v THEN NextWorker(next[v]) ELSE next[y]
    BY DEF TypeOK
  <1>6. DealtInv'
    <2> SUFFICES ASSUME NEW y \in Servers, NEW w \in Workers
                 PROVE  dealt'[<<y, w>>] =
                            dealt'[<<y, next'[y]>>] + (IF w < next'[y] THEN 1 ELSE 0)
      BY DEF DealtInv
    <2>1. next[y] \in Workers /\ next'[y] \in Workers
      BY <1>3 DEF TypeOK
    <2>2. /\ dealt[<<y, w>>] = dealt[<<y, next[y]>>] + (IF w < next[y] THEN 1 ELSE 0)
          /\ dealt[<<y, next'[y]>>] = dealt[<<y, next[y]>>] + (IF next'[y] < next[y] THEN 1 ELSE 0)
      BY <2>1 DEF DealtInv
    <2>3. CASE y = v
      <3>1. /\ dealt'[<<y, w>>] = dealt[<<y, w>>] + (IF w = next[y] THEN 1 ELSE 0)
            /\ dealt'[<<y, next'[y]>>] =
                   dealt[<<y, next'[y]>>] + (IF next'[y] = next[y] THEN 1 ELSE 0)
            /\ next'[y] = IF next[y] + 1 = ThreadCount THEN 0 ELSE next[y] + 1
        BY <2>1, <2>3, <1>2, <1>4, <1>5
      <3>2. dealt[<<y, next[y]>>] \in Nat /\ next[y] \in 0 .. ThreadCount - 1
            /\ w \in 0 .. ThreadCount - 1 /\ ThreadCount \in Nat \ {0}
        BY <2>1, <1>1, ConnLimitAssumption DEF Workers
      <3> QED
        BY <3>1, <3>2, <2>2
    <2>4. CASE y # v
      <3>1. /\ dealt'[<<y, w>>] = dealt[<<y, w>>]
            /\ dealt'[<<y, next'[y]>>] = dealt[<<y, next'[y]>>]
            /\ next'[y] = next[y]
        BY <2>1, <2>4, <1>1, <1>4, <1>5
      <3> QED
        BY <3>1, <2>2
    <2> QED
      BY <2>3, <2>4
  <1> QED
    BY <1>3, <1>6

-----------------------------------------------------------------------------
(* The actions                                                               *)

LEMMA InitInv == Init => Inv
  <1> SUFFICES ASSUME Init PROVE Inv
    OBVIOUS
  <1>1. TypeOK
    BY ConnLimitAssumption DEF Init, TypeOK, SockStates, Workers
  <1>2. AddressedInv /\ PostedInv /\ OnceInv
    BY DEF Init, AddressedInv, PostedInv, OnceInv, Queues
  <1>3. CountInv
    BY ConnLimitAssumption DEF Init, CountInv, Peers
  <1>4. SlotsExact
    <2> SUFFICES ASSUME NEW v \in Servers, NEW i \in Ips
                 PROVE  active[<<v, i>>] = Cardinality(In(v, i, Holding))
      BY DEF SlotsExact
    <2>1. In(v, i, Holding) = {}
      BY DEF Init, In, Holding, Live
    <2> QED
      BY <2>1, FS_EmptySet DEF Init, Peers
  <1>5. DealtInv
    <2>1. \A v \in Servers : next[v] = 0
      BY DEF Init
    <2>2. \A v \in Servers, w \in Workers : dealt[<<v, w>>] = 0
      BY DEF Init
    <2>3. 0 \in Workers /\ \A w \in Workers : ~(w < 0)
      BY ConnLimitAssumption DEF Workers
    <2> SUFFICES ASSUME NEW v \in Servers, NEW w \in Workers
                 PROVE  dealt[<<v, w>>] =
                            dealt[<<v, next[v]>>] + (IF w < next[v] THEN 1 ELSE 0)
      BY DEF DealtInv
    <2>4. next[v] = 0 /\ dealt[<<v, w>>] = 0 /\ dealt[<<v, 0>>] = 0 /\ ~(w < 0)
      BY <2>1, <2>2, <2>3
    <2> QED
      BY <2>4
  <1> QED
    BY <1>1, <1>2, <1>3, <1>4, <1>5 DEF Inv

\* incomingConnection: refused, or counted, dealt out and posted.
LEMMA IncomingInv ==
    ASSUME Inv, NEW s \in Socks, NEW v \in Servers, NEW i \in Peers,
           IncomingConnection(s, v, i)
    PROVE  Inv'
  <1>1. /\ sock[s] = "none"
        /\ server' = [server EXCEPT ![s] = v]
        /\ peer' = [peer EXCEPT ![s] = i]
        /\ \A z \in Socks \ {s} : server'[z] = server[z]
    BY DEF IncomingConnection, Inv, TypeOK
  <1>2. /\ server' \in [Socks -> Servers \cup {NULL}]
        /\ peer' \in [Socks -> Peers \cup {NULL}]
        /\ hook' \in Servers \cup {NULL}
    BY DEF IncomingConnection, Inv, TypeOK
  <1>3. CASE /\ LimitReached(v, i)
             /\ sock' = [sock EXCEPT ![s] = "refused"]
             /\ UNCHANGED <<active, next, queue, dealt>>
    <2>1. TypeOK'
      BY <1>2, <1>3 DEF Inv, TypeOK, SockStates
    <2>2. AddressedInv'
      BY <1>1, <1>3 DEF Inv, TypeOK, AddressedInv
    <2>3. PostedInv' /\ OnceInv'
      BY <1>1, <1>3, QueuesKept DEF SockStates
    <2>4. \A y \in Servers, j \in Peers : In(y, j, Holding)' = In(y, j, Holding)
      BY <1>1, <1>3 DEF Inv, TypeOK, In, Holding, Live
    <2>5. SlotsExact'
      BY <1>3, <2>4 DEF Inv, SlotsExact, Peers
    <2>6. CountInv' /\ DealtInv'
      BY <1>3 DEF Inv, CountInv, DealtInv
    <2> QED
      BY <2>1, <2>2, <2>3, <2>5, <2>6 DEF Inv
  <1>4. CASE /\ ~LimitReached(v, i)
             /\ sock' = [sock EXCEPT ![s] = "queued"]
             /\ active' = IF i = Unknown THEN active
                          ELSE [active EXCEPT ![<<v, i>>] = active[<<v, i>>] + 1]
             /\ queue' = [queue EXCEPT ![<<v, next[v]>>] = Append(queue[<<v, next[v]>>], s)]
             /\ dealt' = [dealt EXCEPT ![<<v, next[v]>>] = dealt[<<v, next[v]>>] + 1]
             /\ next' = [next EXCEPT ![v] = NextWorker(next[v])]
    <2>1. next[v] \in Workers /\ active \in [Servers \X Peers -> Nat]
      BY DEF Inv, TypeOK
    <2>2. queue' \in [Servers \X Workers -> Seq(Socks)] /\ PostedInv' /\ OnceInv'
      BY <1>1, <1>4, <2>1, Enqueued
    <2>3. /\ dealt' \in [Servers \X Workers -> Nat]
          /\ next' \in [Servers -> Workers]
          /\ DealtInv'
      BY <1>4, Dealing DEF Inv
    <2>4. /\ active' \in [Servers \X Peers -> Nat]
          /\ \A y \in Servers, j \in Peers :
                 active'[<<y, j>>] = active[<<y, j>>]
                     + (IF y = v /\ j = i /\ i # Unknown THEN 1 ELSE 0)
      <3>1. CASE i = Unknown
        BY <1>4, <2>1, <3>1
      <3>2. CASE i # Unknown
        BY <1>4, <2>1, <3>2
      <3> QED
        BY <3>1, <3>2
    <2>5. TypeOK'
      BY <1>2, <1>4, <2>2, <2>3, <2>4 DEF Inv, TypeOK, SockStates
    <2>6. AddressedInv'
      BY <1>1, <1>4 DEF Inv, TypeOK, AddressedInv
    <2>7. CountInv'
      <3> SUFFICES ASSUME NEW y \in Servers
                   PROVE  /\ active'[<<y, Unknown>>] = 0
                          /\ \A j \in Ips : active'[<<y, j>>] <= MaxPerIp
        BY DEF CountInv
      <3>1. active[<<y, Unknown>>] = 0 /\ \A j \in Ips : active[<<y, j>>] <= MaxPerIp
        BY DEF Inv, CountInv
      <3>2. active'[<<y, Unknown>>] = 0
        BY <2>4, <3>1 DEF Peers
      <3>3. ASSUME NEW j \in Ips
            PROVE  active'[<<y, j>>] <= MaxPerIp
        <4>1. active[<<y, j>>] \in Nat /\ active[<<y, j>>] <= MaxPerIp
          BY <2>1, <3>1 DEF Peers
        <4>2. y = v /\ j = i => ~(active[<<y, j>>] >= MaxPerIp)
          BY <1>4, ConnLimitAssumption DEF LimitReached
        <4> QED
          BY <2>4, <4>1, <4>2, ConnLimitAssumption DEF Peers
      <3> QED
        BY <3>2, <3>3
    <2>8. SlotsExact'
      <3> SUFFICES ASSUME NEW y \in Servers, NEW j \in Ips
                   PROVE  active'[<<y, j>>] = Cardinality(In(y, j, Holding))'
        BY DEF SlotsExact
      <3>1. active[<<y, j>>] = Cardinality(In(y, j, Holding)) /\ active[<<y, j>>] \in Nat
        BY <2>1 DEF Inv, SlotsExact, Peers
      <3>2. /\ y = v /\ j = i => Cardinality(In(y, j, Holding))' =
                                     Cardinality(In(y, j, Holding)) + 1
            /\ ~(y = v /\ j = i) => Cardinality(In(y, j, Holding))' =
                                        Cardinality(In(y, j, Holding))
        <4>1. TypeOK /\ AddressedInv /\ j \in Peers
          BY DEF Inv, Peers
        <4>2. /\ sock[s] = "none" /\ sock' = [sock EXCEPT ![s] = "queued"]
              /\ server' = [server EXCEPT ![s] = v] /\ peer' = [peer EXCEPT ![s] = i]
          BY <1>1, <1>4
        <4> QED
          BY <4>1, <4>2, Gain
      <3> QED
        BY <2>4, <3>1, <3>2, ConnLimitAssumption DEF Peers
    <2> QED
      BY <2>2, <2>3, <2>5, <2>6, <2>7, <2>8 DEF Inv
  <1> QED
    BY <1>3, <1>4 DEF IncomingConnection

\* A step of a worker that gives no slot back keeps the counters.
LEMMA KeepsSlot ==
    ASSUME Inv, NEW s \in Socks, NEW x \in {"handshake", "open", "closing", "lost", "closed"},
           sock' = [sock EXCEPT ![s] = x], sock[s] # "none",
           sock[s] \in Holding <=> x \in Holding,
           x \in {"handshake", "lost"} => server[s] \in WsServers,
           UNCHANGED <<server, peer, active, next, dealt, hook>>,
           queue' \in [Servers \X Workers -> Seq(Socks)], PostedInv', OnceInv'
    PROVE  Inv'
  <1>1. x \in SockStates
    BY DEF SockStates
  <1>2. TypeOK'
    BY <1>1 DEF Inv, TypeOK
  <1>3. AddressedInv'
    BY DEF Inv, TypeOK, AddressedInv
  <1>4. \A y \in Servers, j \in Peers : In(y, j, Holding)' = In(y, j, Holding)
    BY <1>1, Keep DEF Inv
  <1>5. SlotsExact'
    BY <1>4 DEF Inv, SlotsExact, Peers
  <1>6. CountInv' /\ DealtInv'
    BY DEF Inv, CountInv, DealtInv
  <1> QED
    BY <1>2, <1>3, <1>5, <1>6 DEF Inv

\* A step of a worker that gives the slot of s back keeps the invariant.
LEMMA GivesSlotBack ==
    ASSUME Inv, NEW s \in Socks, NEW x \in {"closed", "dropped"},
           sock[s] \in Live, sock' = [sock EXCEPT ![s] = x], Release(s),
           UNCHANGED <<server, peer, next, dealt, hook>>,
           queue' \in [Servers \X Workers -> Seq(Socks)], PostedInv', OnceInv'
    PROVE  Inv'
  <1>1. x \in SockStates \ Holding /\ sock[s] \in Holding
    BY DEF SockStates, Holding, Live
  <1>2. active' \in [Servers \X Peers -> Nat] /\ CountInv' /\ SlotsExact'
    BY <1>1, ReleaseCounts
  <1>3. TypeOK'
    BY <1>1, <1>2 DEF Inv, TypeOK
  <1>4. AddressedInv'
    BY <1>1 DEF Inv, TypeOK, AddressedInv, Holding, Live
  <1>5. DealtInv'
    BY DEF Inv, DealtInv
  <1> QED
    BY <1>2, <1>3, <1>4, <1>5 DEF Inv

\* Worker::handleConnection, whether setSocketDescriptor succeeds or not.
LEMMA WorkerInv ==
    ASSUME Inv, NEW v \in Servers, NEW w \in Workers, WorkerStep(v, w)
    PROVE  Inv'
  <1> PICK s \in Socks : HandleConnection(v, w, s) \/ SetSocketDescriptorFails(v, w, s)
    BY DEF WorkerStep
  <1>1. CASE HandleConnection(v, w, s)
    <2> DEFINE x == IF v \in WsServers THEN "handshake" ELSE "open"
    <2>1. /\ Dequeue(v, w, s)
          /\ sock' = [sock EXCEPT ![s] = x]
          /\ x \in SockStates
          /\ UNCHANGED <<server, peer, active, next, dealt, hook>>
      BY <1>1 DEF HandleConnection, Dequeue, SockStates
    <2>2. /\ sock[s] = "queued" /\ server[s] = v
          /\ queue' \in [Servers \X Workers -> Seq(Socks)] /\ PostedInv' /\ OnceInv'
      BY <2>1, Dequeued
    <2>3. /\ x \in {"handshake", "open", "closing", "lost", "closed"}
          /\ sock[s] \in Holding /\ x \in Holding
          /\ x \in {"handshake", "lost"} => server[s] \in WsServers
      BY <2>2 DEF Holding, Live
    <2> HIDE DEF x
    <2> QED
      BY <2>1, <2>2, <2>3, KeepsSlot
  <1>2. CASE SetSocketDescriptorFails(v, w, s)
    <2>1. /\ Dequeue(v, w, s)
          /\ sock' = [sock EXCEPT ![s] = "closed"]
          /\ Release(s)
          /\ UNCHANGED <<server, peer, next, dealt, hook>>
      BY <1>2 DEF SetSocketDescriptorFails, Dequeue
    <2>2. /\ sock[s] = "queued"
          /\ queue' \in [Servers \X Workers -> Seq(Socks)] /\ PostedInv' /\ OnceInv'
      BY <2>1, Dequeued DEF SockStates
    <2> QED
      BY <2>1, <2>2, GivesSlotBack DEF Live
  <1> QED
    BY <1>1, <1>2

\* The handshake and the exits of a connection.
LEMMA ConnectionInv ==
    ASSUME Inv, NEW s \in Socks, ConnectionStep(s)
    PROVE  Inv'
  <1>1. UNCHANGED <<server, peer, next, queue, dealt, hook>>
    BY DEF ConnectionStep, NewWsConnection, HandshakeFails, SocketCloses,
           OnSocketDisconnected, DropOverlong, DroppedCloses, Unqueued
  <1>2. queue' \in [Servers \X Workers -> Seq(Socks)]
    BY <1>1 DEF Inv, TypeOK
  <1>3. ASSUME NEW x \in SockStates, sock' = [sock EXCEPT ![s] = x], sock[s] # "queued"
        PROVE  PostedInv' /\ OnceInv'
    BY <1>1, <1>3, QueuesKept
  <1>4. CASE NewWsConnection(s)
    <2>1. sock[s] = "handshake" /\ sock' = [sock EXCEPT ![s] = "open"] /\ UNCHANGED active
      BY <1>4 DEF NewWsConnection
    <2> QED
      BY <2>1, <1>1, <1>2, <1>3, KeepsSlot DEF Holding, Live, SockStates
  <1>5. CASE HandshakeFails(s)
    <2>1. sock[s] = "handshake" /\ sock' = [sock EXCEPT ![s] = "lost"] /\ UNCHANGED active
      BY <1>5 DEF HandshakeFails
    <2>2. server[s] \in WsServers
      BY <2>1 DEF Inv, AddressedInv
    <2> QED
      BY <2>1, <2>2, <1>1, <1>2, <1>3, KeepsSlot DEF Holding, Live, SockStates
  <1>6. CASE SocketCloses(s)
    <2>1. sock[s] = "open" /\ sock' = [sock EXCEPT ![s] = "closing"] /\ UNCHANGED active
      BY <1>6 DEF SocketCloses
    <2> QED
      BY <2>1, <1>1, <1>2, <1>3, KeepsSlot DEF Holding, Live, SockStates
  <1>7. CASE OnSocketDisconnected(s)
    <2>1. sock[s] = "closing" /\ sock' = [sock EXCEPT ![s] = "closed"] /\ Release(s)
      BY <1>7 DEF OnSocketDisconnected
    <2> QED
      BY <2>1, <1>1, <1>2, <1>3, GivesSlotBack DEF Live, SockStates
  <1>8. CASE DropOverlong(s)
    <2>1. sock[s] = "open" /\ sock' = [sock EXCEPT ![s] = "dropped"] /\ Release(s)
      BY <1>8 DEF DropOverlong
    <2> QED
      BY <2>1, <1>1, <1>2, <1>3, GivesSlotBack DEF Live, SockStates
  <1>9. CASE DroppedCloses(s)
    <2>1. sock[s] = "dropped" /\ sock' = [sock EXCEPT ![s] = "closed"] /\ UNCHANGED active
      BY <1>9 DEF DroppedCloses
    <2> QED
      BY <2>1, <1>1, <1>2, <1>3, KeepsSlot DEF Holding, Live, SockStates
  <1> QED
    BY <1>4, <1>5, <1>6, <1>7, <1>8, <1>9 DEF ConnectionStep

LEMMA StutterInv ==
    ASSUME Inv, UNCHANGED <<sock, server, peer, active, next, queue, dealt>>,
           hook' \in Servers \cup {NULL}
    PROVE  Inv'
  <1>1. TypeOK' /\ AddressedInv' /\ CountInv' /\ DealtInv'
    BY DEF Inv, TypeOK, AddressedInv, CountInv, DealtInv
  <1>2. PostedInv' /\ OnceInv'
    BY DEF Inv, PostedInv, OnceInv
  <1>3. SlotsExact'
    BY DEF Inv, SlotsExact, In
  <1> QED
    BY <1>1, <1>2, <1>3 DEF Inv

LEMMA NextInv == Inv /\ [Next]_vars => Inv'
  <1> SUFFICES ASSUME Inv, [Next]_vars PROVE Inv'
    OBVIOUS
  <1>1. ASSUME NEW s \in Socks, NEW v \in Servers, NEW i \in Peers,
               IncomingConnection(s, v, i)
        PROVE  Inv'
    BY <1>1, IncomingInv
  <1>2. CASE HookReturns
    BY <1>2, StutterInv DEF HookReturns
  <1>3. ASSUME NEW v \in Servers, NEW w \in Workers, WorkerStep(v, w)
        PROVE  Inv'
    BY <1>3, WorkerInv
  <1>4. ASSUME NEW s \in Socks, ConnectionStep(s)
        PROVE  Inv'
    BY <1>4, ConnectionInv
  <1>5. CASE UNCHANGED vars
    BY <1>5, StutterInv DEF vars, Inv, TypeOK
  <1> QED
    BY <1>1, <1>2, <1>3, <1>4, <1>5 DEF Next

-----------------------------------------------------------------------------
(* The theorems                                                              *)

\* Inv holds in every reachable state of the admission model.
THEOREM Invariance == Spec => []Inv
  BY InitInv, NextInv, PTL DEF Spec

\* The counters, the queues and the sockets of ThreadedServer are always well
\* typed; no counter of activeConnections is ever negative.
THEOREM TypeCorrect == Spec => []TypeOK
  <1>1. Inv => TypeOK
    BY DEF Inv
  <1> QED
    BY <1>1, Invariance, PTL

\* activeConnections counts exactly the sockets that hold a slot.
THEOREM CountersExact == Spec => []SlotsExact
  <1>1. Inv => SlotsExact
    BY DEF Inv
  <1> QED
    BY <1>1, Invariance, PTL

\* No address ever has more than m_max_per_ip connections on one server.
THEOREM LimitHolds == Spec => []PerIpLimit
  <1>1. Inv => PerIpLimit
    <2> SUFFICES ASSUME Inv, NEW v \in Servers, NEW i \in Ips
                 PROVE  Cardinality(In(v, i, Live)) <= MaxPerIp
      BY DEF PerIpLimit
    <2>1. In(v, i, Live) \in SUBSET In(v, i, Holding)
      BY DEF In, Holding
    <2>2. Cardinality(In(v, i, Live)) <= Cardinality(In(v, i, Holding))
      BY <2>1, InFinite, FS_Subset
    <2>3. Cardinality(In(v, i, Holding)) <= MaxPerIp
      BY DEF Inv, SlotsExact, CountInv
    <2> QED
      BY <2>2, <2>3, InFinite, ConnLimitAssumption
  <1> QED
    BY <1>1, Invariance, PTL

\* The loads of two workers of a server differ by at most one.
THEOREM LoadsEven == Spec => []EvenlyDealt
  <1>1. Inv => EvenlyDealt
    <2> SUFFICES ASSUME Inv, NEW v \in Servers, NEW w \in Workers, NEW x \in Workers
                 PROVE  dealt[<<v, w>>] <= dealt[<<v, x>>] + 1
      BY DEF EvenlyDealt
    <2>1. next[v] \in Workers /\ dealt[<<v, next[v]>>] \in Nat
      BY DEF Inv, TypeOK
    <2>2. /\ dealt[<<v, w>>] = dealt[<<v, next[v]>>] + (IF w < next[v] THEN 1 ELSE 0)
          /\ dealt[<<v, x>>] = dealt[<<v, next[v]>>] + (IF x < next[v] THEN 1 ELSE 0)
      BY DEF Inv, DealtInv
    <2> QED
      BY <2>1, <2>2
  <1> QED
    BY <1>1, Invariance, PTL

\* The plain IRC server refuses a peer only while its address has m_max_per_ip
\* connections.
THEOREM NoWrongRefusal == Spec => RefusalsJustified
  <1> DEFINE Justified == \A v \in Servers \ WsServers : RefusedAtLimit(v)
  <1>1. ASSUME Inv, [Next]_vars
        PROVE  [Justified]_vars
    <2> SUFFICES ASSUME NEW v \in Servers \ WsServers, NEW s \in Socks,
                        sock[s] = "none", sock'[s] = "refused", server'[s] = v
                 PROVE  Cardinality(In(v, peer'[s], Live)) >= MaxPerIp
      BY DEF RefusedAtLimit
    <2>1. \E i \in Peers, y \in Servers : IncomingConnection(s, y, i)
      <3>1. ASSUME NEW z \in Socks, NEW y \in Servers, NEW i \in Peers,
                   IncomingConnection(z, y, i)
            PROVE  z = s
        <4>1. sock \in [Socks -> SockStates]
          BY <1>1 DEF Inv, TypeOK
        <4> QED
          BY <3>1, <4>1 DEF IncomingConnection
      <3>2. ~HookReturns /\ ~UNCHANGED vars
        BY DEF HookReturns, vars
      <3>3. ASSUME NEW y \in Servers, NEW w \in Workers, WorkerStep(y, w)
            PROVE  FALSE
        <4>1. sock \in [Socks -> SockStates]
          BY <1>1 DEF Inv, TypeOK
        <4> QED
          BY <3>3, <4>1 DEF WorkerStep, HandleConnection, SetSocketDescriptorFails
      <3>4. ASSUME NEW z \in Socks, ConnectionStep(z)
            PROVE  FALSE
        <4>1. sock \in [Socks -> SockStates]
          BY <1>1 DEF Inv, TypeOK
        <4> QED
          BY <3>4, <4>1 DEF ConnectionStep, NewWsConnection, HandshakeFails, SocketCloses,
             OnSocketDisconnected, DropOverlong, DroppedCloses
      <3> QED
        BY <1>1, <3>1, <3>2, <3>3, <3>4 DEF Next
    <2> PICK i \in Peers, y \in Servers : IncomingConnection(s, y, i)
      BY <2>1
    <2>2. y = v /\ peer'[s] = i /\ LimitReached(v, i)
      BY <1>1 DEF IncomingConnection, Inv, TypeOK
    <2>3. i \in Ips /\ active[<<v, i>>] >= MaxPerIp
      BY <2>2 DEF LimitReached, Peers
    <2>4. In(v, i, Live) = In(v, i, Holding)
      BY <1>1 DEF Inv, AddressedInv, In, Holding, Live
    <2>5. active[<<v, i>>] = Cardinality(In(v, i, Live))
      BY <1>1, <2>3, <2>4 DEF Inv, SlotsExact
    <2> QED
      BY <2>2, <2>3, <2>5
  <1> QED
    BY <1>1, Invariance, PTL DEF Spec, RefusalsJustified

-----------------------------------------------------------------------------
(* What is read from a socket: Lines                                         *)

\* The parameters and variables of Lines.
CONSTANTS Streams, RAW_MSG(_), Dropped, AccountTag, Before(_, _),
          MAX_BUFFER_SIZE, max_tag_data
VARIABLES sent, wire, socket, m_buffer, cap, handled, relayed, connected

L == INSTANCE Lines

Bytes == Seq(STRING)

\* The places of the newlines, the place among them, and the i-th of them.
Ends(s) == {i \in 1 .. Len(s) : s[i] = "LF"}
Rank(s, c) == Cardinality({d \in Ends(s) : d <= c})
Count(s) == Cardinality(Ends(s))
Cut(s, i) == CHOOSE c \in Ends(s) : L!Cardinality({d \in Ends(s) : d <= c}) = i

\* The i-th piece of a stream cut at its newlines.
Piece(s, i) ==
    SubSeq(s, IF i = 1 THEN 1 ELSE Cut(s, i - 1) + 1,
              IF i > Count(s) THEN Len(s) ELSE Cut(s, i) - 1)

\* Nothing, or whole lines.
Whole(s) == s = << >> \/ s[Len(s)] = "LF"

\* Lines counts as this module does.
LEMMA SameCardinality ==
    \A S : L!Cardinality(S) = Cardinality(S)
  BY DEF L!Cardinality, Cardinality

\* There are finitely many newlines.
LEMMA EndsFinite ==
    ASSUME NEW s \in Bytes
    PROVE  /\ IsFiniteSet(Ends(s)) /\ Count(s) \in Nat
           /\ \A c \in Nat : /\ IsFiniteSet({d \in Ends(s) : d <= c})
                             /\ Rank(s, c) \in 0 .. Count(s)
  <1>1. Ends(s) \subseteq 1 .. Len(s) /\ Len(s) \in Nat
    BY DEF Ends, Bytes
  <1>2. IsFiniteSet(Ends(s))
    <2>1. IsFiniteSet(1 .. Len(s))
      BY <1>1, FS_Interval
    <2> QED
      BY <1>1, <2>1, FS_Subset
  <1>3. Count(s) \in Nat
    BY <1>2, FS_CardinalityType DEF Count
  <1>4. ASSUME NEW c \in Nat
        PROVE  /\ IsFiniteSet({d \in Ends(s) : d <= c})
               /\ Rank(s, c) \in 0 .. Count(s)
    <2>1. {d \in Ends(s) : d <= c} \subseteq Ends(s)
      OBVIOUS
    <2>2. /\ IsFiniteSet({d \in Ends(s) : d <= c})
          /\ Cardinality({d \in Ends(s) : d <= c}) <= Cardinality(Ends(s))
      BY <1>2, <2>1, FS_Subset
    <2>3. Cardinality({d \in Ends(s) : d <= c}) \in Nat
      BY <2>2, FS_CardinalityType
    <2> QED
      BY <1>3, <2>2, <2>3 DEF Rank, Count
  <1> QED
    BY <1>2, <1>3, <1>4

\* A later newline has a higher place.
LEMMA RankGrows ==
    ASSUME NEW s \in Bytes, NEW c \in Ends(s), NEW e \in Ends(s), c < e
    PROVE  Rank(s, c) < Rank(s, e)
  <1> DEFINE low == {d \in Ends(s) : d <= c}
             high == {d \in Ends(s) : d <= e}
  <1>1. \A d \in Ends(s) : d \in Nat
    BY DEF Ends, Bytes
  <1>2. low \subseteq high /\ e \in high /\ e \notin low
    BY <1>1
  <1>3. IsFiniteSet(high) /\ IsFiniteSet(low)
    BY <1>1, EndsFinite
  <1>4. Cardinality(low) < Cardinality(high)
    <2> HIDE DEF low, high
    <2>1. low # high
      BY <1>2
    <2>2. Cardinality(low) <= Cardinality(high)
      BY <1>2, <1>3, FS_Subset
    <2>3. Cardinality(low) # Cardinality(high)
      BY <1>2, <1>3, <2>1, FS_Subset
    <2>4. Cardinality(low) \in Nat /\ Cardinality(high) \in Nat
      BY <1>3, FS_CardinalityType
    <2> QED
      BY <2>2, <2>3, <2>4
  <1> QED
    BY <1>4 DEF Rank

\* The places number the newlines.
LEMMA CutFinds ==
    ASSUME NEW s \in Bytes
    PROVE  /\ \A c \in Ends(s) : /\ Rank(s, c) \in 1 .. Count(s)
                                 /\ Cut(s, Rank(s, c)) = c
           /\ \A i \in 1 .. Count(s) : /\ Cut(s, i) \in Ends(s)
                                       /\ Rank(s, Cut(s, i)) = i
  <1> DEFINE E == Ends(s)
             rank == [c \in E |-> Rank(s, c)]
  <1>0. \A d \in E : d \in Nat
    BY DEF Ends, Bytes
  <1>1. ASSUME NEW c \in E
        PROVE  Rank(s, c) \in 1 .. Count(s)
    <2>1. c \in {d \in E : d <= c}
      BY <1>0
    <2>2. Rank(s, c) # 0
      <3>1. IsFiniteSet({d \in E : d <= c})
        BY <1>0, EndsFinite
      <3>2. {d \in E : d <= c} # {}
        BY <2>1
      <3> HIDE DEF E
      <3> QED
        BY <3>1, <3>2, FS_EmptySet DEF Rank, E
    <2>3. Rank(s, c) \in 0 .. Count(s) /\ Count(s) \in Nat
      BY <1>0, EndsFinite
    <2> QED
      BY <2>2, <2>3
  <1>2. ASSUME NEW c \in E, NEW e \in E, Rank(s, c) = Rank(s, e)
        PROVE  c = e
    <2>1. c < e => Rank(s, c) < Rank(s, e)
      BY RankGrows
    <2>2. e < c => Rank(s, e) < Rank(s, c)
      BY RankGrows
    <2>3. Rank(s, c) \in Int /\ c \in Nat /\ e \in Nat
      BY <1>0, <1>1, EndsFinite
    <2> QED
      BY <1>2, <2>1, <2>2, <2>3
  <1>3. rank \in Injection(E, 1 .. Count(s))
    <2>1. rank \in [E -> 1 .. Count(s)]
      BY <1>1
    <2>2. \A a, b \in E : rank[a] = rank[b] => a = b
      BY <1>2
    <2> HIDE DEF rank, E
    <2> QED
      BY <2>1, <2>2 DEF Injection, IsInjective
  <1>4. rank \in Surjection(E, 1 .. Count(s))
    <2>1. IsFiniteSet(1 .. Count(s)) /\ Cardinality(1 .. Count(s)) = Cardinality(E)
      <3>1. Count(s) \in Nat
        BY EndsFinite
      <3>2. /\ IsFiniteSet(1 .. Count(s))
            /\ Cardinality(1 .. Count(s)) = IF 1 > Count(s) THEN 0 ELSE Count(s) - 1 + 1
        BY <3>1, FS_Interval
      <3> QED
        BY <3>1, <3>2 DEF Count
    <2> HIDE DEF rank, E
    <2> QED
      BY <1>3, <2>1, FS_Injection
  <1>5. ASSUME NEW i \in 1 .. Count(s)
        PROVE  Cut(s, i) \in E /\ Rank(s, Cut(s, i)) = i
    <2>1. PICK c \in E : rank[c] = i
      <3> HIDE DEF rank, E
      <3> QED
        BY <1>4 DEF Surjection
    <2>2. Rank(s, c) = i
      BY <2>1
    <2>3. L!Cardinality({d \in Ends(s) : d <= c}) = i
      BY <2>2, SameCardinality DEF Rank
    <2>4. /\ Cut(s, i) \in Ends(s)
          /\ L!Cardinality({d \in Ends(s) : d <= Cut(s, i)}) = i
      BY <2>3 DEF Cut
    <2> QED
      BY <2>4, SameCardinality DEF Rank
  <1>6. ASSUME NEW c \in E
        PROVE  Cut(s, Rank(s, c)) = c
    <2>1. Cut(s, Rank(s, c)) \in E /\ Rank(s, Cut(s, Rank(s, c))) = Rank(s, c)
      BY <1>1, <1>5
    <2> QED
      BY <1>2, <2>1
  <1> QED
    BY <1>1, <1>5, <1>6

\* Moving a set of numbers keeps its size.
LEMMA Moved ==
    ASSUME NEW T, T \subseteq Nat, IsFiniteSet(T), NEW k \in Nat
    PROVE  /\ IsFiniteSet({k + d : d \in T})
           /\ Cardinality({k + d : d \in T}) = Cardinality(T)
  <1> DEFINE U == {k + d : d \in T}
             f == [d \in T |-> k + d]
  <1>1. f \in [T -> U] /\ \A d \in T : f[d] = k + d
    OBVIOUS
  <1>2. \A u \in U : \E d \in T : f[d] = u
    OBVIOUS
  <1>3. \A a, b \in T : f[a] = f[b] => a = b
    BY <1>1
  <1>4. f \in Surjection(T, U) /\ f \in Injection(T, U)
    <2> HIDE DEF f, U
    <2> QED
      BY <1>1, <1>2, <1>3 DEF Surjection, Injection, IsInjective
  <1> HIDE DEF f, U
  <1>5. IsFiniteSet(U) /\ Cardinality(U) = Cardinality(T)
    BY <1>4, FS_Surjection
  <1> QED
    BY <1>5 DEF U

\* The newlines of two streams put together.
LEMMA EndsJoin ==
    ASSUME NEW s \in Bytes, NEW t \in Bytes
    PROVE  /\ Len(s) \in Nat /\ Len(t) \in Nat
           /\ s \o t \in Bytes /\ Len(s \o t) = Len(s) + Len(t)
           /\ Ends(s) \subseteq 1 .. Len(s) /\ Ends(t) \subseteq 1 .. Len(t)
           /\ Ends(s \o t) = Ends(s) \cup {Len(s) + d : d \in Ends(t)}
  <1>1. Len(s) \in Nat /\ Len(t) \in Nat /\ s \o t \in Bytes /\ Len(s \o t) = Len(s) + Len(t)
    BY DEF Bytes
  <1>2. Ends(s) \subseteq 1 .. Len(s) /\ Ends(t) \subseteq 1 .. Len(t)
    BY DEF Ends
  <1>3. \A i \in 1 .. Len(s) + Len(t) :
            (s \o t)[i] = IF i <= Len(s) THEN s[i] ELSE t[i - Len(s)]
    BY DEF Bytes
  <1>4. ASSUME NEW c \in Ends(s \o t)
        PROVE  c \in Ends(s) \cup {Len(s) + d : d \in Ends(t)}
    <2>1. c \in 1 .. Len(s) + Len(t) /\ (s \o t)[c] = "LF"
      BY <1>1 DEF Ends
    <2>2. CASE c <= Len(s)
      BY <1>1, <1>3, <2>1, <2>2 DEF Ends
    <2>3. CASE c > Len(s)
      <3>1. c - Len(s) \in 1 .. Len(t) /\ t[c - Len(s)] = "LF"
        BY <1>1, <1>3, <2>1, <2>3
      <3>2. c - Len(s) \in Ends(t) /\ c = Len(s) + (c - Len(s))
        BY <1>1, <2>1, <3>1 DEF Ends
      <3> QED
        BY <3>2
    <2> QED
      BY <1>1, <2>1, <2>2, <2>3
  <1>5. ASSUME NEW c \in Ends(s)
        PROVE  c \in Ends(s \o t)
    BY <1>1, <1>3 DEF Ends
  <1>6. ASSUME NEW d \in Ends(t)
        PROVE  Len(s) + d \in Ends(s \o t)
    <2>1. d \in 1 .. Len(t) /\ t[d] = "LF"
      BY DEF Ends
    <2>2. Len(s) + d \in 1 .. Len(s) + Len(t) /\ ~ (Len(s) + d <= Len(s))
          /\ (Len(s) + d) - Len(s) = d
      BY <1>1, <2>1
    <2>3. (s \o t)[Len(s) + d] = "LF"
      BY <1>3, <2>1, <2>2
    <2> QED
      BY <1>1, <2>2, <2>3 DEF Ends
  <1>7. Ends(s \o t) = Ends(s) \cup {Len(s) + d : d \in Ends(t)}
    BY <1>4, <1>5, <1>6
  <1> QED
    BY <1>1, <1>2, <1>7

\* The second stream's newlines keep their order and come after the first's.
LEMMA RankJoin ==
    ASSUME NEW s \in Bytes, NEW t \in Bytes
    PROVE  /\ Count(s \o t) = Count(s) + Count(t)
           /\ \A c \in Ends(s) : c \in Ends(s \o t) /\ Rank(s \o t, c) = Rank(s, c)
           /\ \A c \in Ends(t) : /\ Len(s) + c \in Ends(s \o t)
                                 /\ Rank(s \o t, Len(s) + c) = Count(s) + Rank(t, c)
  <1>1. /\ Len(s) \in Nat /\ Len(t) \in Nat
        /\ Ends(s) \subseteq 1 .. Len(s) /\ Ends(t) \subseteq 1 .. Len(t)
        /\ Ends(s \o t) = Ends(s) \cup {Len(s) + d : d \in Ends(t)}
    BY EndsJoin
  <1>2. ASSUME NEW T, T \subseteq Ends(t), IsFiniteSet(T)
        PROVE  Cardinality(Ends(s) \cup {Len(s) + d : d \in T}) = Count(s) + Cardinality(T)
    <2> DEFINE U == {Len(s) + d : d \in T}
    <2>1. IsFiniteSet(U) /\ Cardinality(U) = Cardinality(T)
      <3>1. T \subseteq Nat
        BY <1>1, <1>2
      <3> QED
        BY <1>1, <1>2, <3>1, Moved
    <2>2. IsFiniteSet(Ends(s)) /\ Ends(s) \cap U = {}
      <3>1. \A u \in U : u > Len(s)
        BY <1>1, <1>2
      <3>2. \A u \in Ends(s) : u <= Len(s) /\ u \in Nat
        BY <1>1
      <3>3. \A u \in U : u \notin Ends(s)
        BY <1>1, <1>2, <3>1, <3>2
      <3> QED
        BY <3>3, EndsFinite
    <2>3. Cardinality({}) = 0
      BY FS_EmptySet
    <2> HIDE DEF U
    <2>4. Cardinality(Ends(s) \cup U) =
              Cardinality(Ends(s)) + Cardinality(U) - Cardinality(Ends(s) \cap U)
      BY <2>1, <2>2, FS_Union
    <2>5. Cardinality(Ends(s)) \in Nat /\ Cardinality(U) \in Nat
      BY <2>1, <2>2, FS_CardinalityType
    <2>6. Cardinality(Ends(s) \cap U) = 0
      BY <2>2, <2>3
    <2>7. Cardinality(Ends(s) \cup U) = Count(s) + Cardinality(T)
      BY <2>1, <2>4, <2>5, <2>6 DEF Count
    <2> QED
      BY <2>7 DEF U
  <1>3. Count(s \o t) = Count(s) + Count(t)
    <2>1. IsFiniteSet(Ends(t))
      BY EndsFinite
    <2> QED
      BY <1>1, <1>2, <2>1 DEF Count
  <1>4. ASSUME NEW c \in Ends(s)
        PROVE  c \in Ends(s \o t) /\ Rank(s \o t, c) = Rank(s, c)
    <2>1. {d \in Ends(s \o t) : d <= c} = {d \in Ends(s) : d <= c}
      <3>1. \A d \in Ends(t) : ~ (Len(s) + d <= c)
        BY <1>1
      <3> QED
        BY <1>1, <3>1
    <2> QED
      BY <1>1, <2>1 DEF Rank
  <1>5. ASSUME NEW c \in Ends(t)
        PROVE  /\ Len(s) + c \in Ends(s \o t)
               /\ Rank(s \o t, Len(s) + c) = Count(s) + Rank(t, c)
    <2> DEFINE T == {d \in Ends(t) : d <= c}
    <2>1. IsFiniteSet(T)
      <3>1. c \in Nat
        BY <1>1
      <3> QED
        BY <3>1, EndsFinite
    <2>2. {d \in Ends(s \o t) : d <= Len(s) + c} = Ends(s) \cup {Len(s) + d : d \in T}
      <3>1. \A d \in Ends(s) : d <= Len(s) + c
        BY <1>1
      <3>2. \A d \in Ends(t) : Len(s) + d <= Len(s) + c <=> d <= c
        BY <1>1
      <3> QED
        BY <1>1, <3>1, <3>2
    <2>3. T \subseteq Ends(t)
      OBVIOUS
    <2>4. Cardinality(Ends(s) \cup {Len(s) + d : d \in T}) = Count(s) + Cardinality(T)
      <3> HIDE DEF T
      <3> QED
        BY <1>2, <2>1, <2>3
    <2> QED
      BY <1>1, <2>2, <2>4 DEF Rank
  <1> QED
    BY <1>3, <1>4, <1>5

\* So does cutting.
LEMMA CutJoin ==
    ASSUME NEW s \in Bytes, NEW t \in Bytes
    PROVE  /\ \A i \in 1 .. Count(s) : Cut(s \o t, i) = Cut(s, i)
           /\ \A i \in 1 .. Count(t) : Cut(s \o t, Count(s) + i) = Len(s) + Cut(t, i)
  <1>1. s \o t \in Bytes
    BY EndsJoin
  <1>2. ASSUME NEW i \in 1 .. Count(s)
        PROVE  Cut(s \o t, i) = Cut(s, i)
    <2>1. Cut(s, i) \in Ends(s) /\ Rank(s, Cut(s, i)) = i
      BY CutFinds
    <2>2. Cut(s, i) \in Ends(s \o t) /\ Rank(s \o t, Cut(s, i)) = i
      BY <2>1, RankJoin
    <2> QED
      BY <1>1, <2>2, CutFinds
  <1>3. ASSUME NEW i \in 1 .. Count(t)
        PROVE  Cut(s \o t, Count(s) + i) = Len(s) + Cut(t, i)
    <2>1. Cut(t, i) \in Ends(t) /\ Rank(t, Cut(t, i)) = i
      BY CutFinds
    <2>2. /\ Len(s) + Cut(t, i) \in Ends(s \o t)
          /\ Rank(s \o t, Len(s) + Cut(t, i)) = Count(s) + i
      BY <2>1, RankJoin
    <2> QED
      BY <1>1, <2>2, CutFinds
  <1> QED
    BY <1>2, <1>3

-----------------------------------------------------------------------------
(* The pieces between the newlines                                           *)

\* The first stream's part of two streams put together, and the second's.
LEMMA SubJoin ==
    ASSUME NEW s \in Bytes, NEW t \in Bytes, NEW a \in Nat \ {0}, NEW b \in Int
    PROVE  /\ b <= Len(s) => SubSeq(s \o t, a, b) = SubSeq(s, a, b)
           /\ b <= Len(t) => SubSeq(s \o t, Len(s) + a, Len(s) + b) = SubSeq(t, a, b)
  <1>1. Len(s) \in Nat /\ Len(t) \in Nat
    BY EndsJoin
  <1>2. CASE b < a
    <2>1. SubSeq(s \o t, a, b) = << >> /\ SubSeq(s, a, b) = << >> /\ SubSeq(t, a, b) = << >>
      BY <1>2, SubSeqEmpty
    <2>2. Len(s) + a \in Int /\ Len(s) + b \in Int /\ Len(s) + b < Len(s) + a
      BY <1>1, <1>2
    <2>3. SubSeq(s \o t, Len(s) + a, Len(s) + b) = << >>
      BY <2>2, SubSeqEmpty
    <2> QED
      BY <2>1, <2>3
  <1>3. CASE a <= b
    <2>1. ASSUME b <= Len(s)
          PROVE  SubSeq(s \o t, a, b) = SubSeq(s, a, b)
      <3>1. a \in 1 .. Len(s) /\ b \in 1 .. Len(s)
        BY <1>1, <1>3, <2>1
      <3> QED
        BY <3>1, SubSeqOfConcat1 DEF Bytes
    <2>2. ASSUME b <= Len(t)
          PROVE  SubSeq(s \o t, Len(s) + a, Len(s) + b) = SubSeq(t, a, b)
      <3>1. /\ Len(s) + a \in Len(s) + 1 .. Len(s) + Len(t)
            /\ Len(s) + b \in Len(s) + 1 .. Len(s) + Len(t)
            /\ (Len(s) + a) - Len(s) = a /\ (Len(s) + b) - Len(s) = b
        BY <1>1, <1>3, <2>2
      <3>2. SubSeq(s \o t, Len(s) + a, Len(s) + b) =
                SubSeq(t, (Len(s) + a) - Len(s), (Len(s) + b) - Len(s))
        BY <3>1, SubSeqOfConcat2 DEF Bytes
      <3> QED
        BY <3>1, <3>2
    <2> QED
      BY <2>1, <2>2
  <1> QED
    BY <1>2, <1>3

\* What comes after does not change the lines that are complete.
LEMMA PieceBefore ==
    ASSUME NEW s \in Bytes, NEW t \in Bytes, NEW i \in 1 .. Count(s)
    PROVE  Piece(s \o t, i) = Piece(s, i)
  <1>1. /\ Count(s) \in Nat /\ Count(t) \in Nat
        /\ Count(s \o t) = Count(s) + Count(t) /\ Len(s) \in Nat
        /\ Ends(s) \subseteq 1 .. Len(s)
    BY EndsFinite, RankJoin, EndsJoin
  <1>2. Cut(s \o t, i) = Cut(s, i) /\ Cut(s, i) \in 1 .. Len(s)
    BY <1>1, CutJoin, CutFinds
  <1>3. i # 1 => Cut(s \o t, i - 1) = Cut(s, i - 1) /\ Cut(s, i - 1) \in 1 .. Len(s)
    <2>1. i # 1 => i - 1 \in 1 .. Count(s)
      BY <1>1
    <2> QED
      BY <1>1, <2>1, CutJoin, CutFinds
  <1> DEFINE a == IF i = 1 THEN 1 ELSE Cut(s, i - 1) + 1
             b == Cut(s, i) - 1
  <1>4. a \in Nat \ {0} /\ b \in Int /\ b <= Len(s)
    BY <1>1, <1>2, <1>3
  <1>5. ~ (i > Count(s)) /\ ~ (i > Count(s \o t))
    BY <1>1
  <1>6. Piece(s, i) = SubSeq(s, a, b)
    BY <1>5 DEF Piece
  <1>7. Piece(s \o t, i) = SubSeq(s \o t, a, b)
    BY <1>2, <1>3, <1>5 DEF Piece
  <1> HIDE DEF a, b
  <1> QED
    BY <1>4, <1>6, <1>7, SubJoin

\* The last newline of whole lines is their last byte.
LEMMA WholeEnds ==
    ASSUME NEW s \in Bytes, Whole(s)
    PROVE  IF Count(s) = 0 THEN Len(s) = 0 ELSE Cut(s, Count(s)) = Len(s)
  <1>1. Count(s) \in Nat /\ Len(s) \in Nat /\ Ends(s) \subseteq 1 .. Len(s)
    BY EndsFinite, EndsJoin
  <1>2. CASE s = << >>
    <2>1. Ends(s) = {} /\ Len(s) = 0
      BY <1>2 DEF Ends
    <2> QED
      BY <2>1, FS_EmptySet DEF Count
  <1>3. CASE s # << >>
    <2>1. Len(s) \in 1 .. Len(s)
      BY <1>1, <1>3 DEF Bytes
    <2>2. Len(s) \in Ends(s)
      BY <1>3, <2>1 DEF Whole, Ends
    <2>3. Rank(s, Len(s)) \in 1 .. Count(s) /\ Cut(s, Rank(s, Len(s))) = Len(s)
      BY <2>2, CutFinds
    <2>4. {d \in Ends(s) : d <= Len(s)} = Ends(s)
      BY <1>1
    <2>5. Rank(s, Len(s)) = Count(s)
      BY <2>4 DEF Rank, Count
    <2> QED
      BY <1>1, <2>3, <2>5
  <1> QED
    BY <1>2, <1>3

\* After whole lines the pieces are those of what follows.
LEMMA PieceAfter ==
    ASSUME NEW s \in Bytes, NEW t \in Bytes, Whole(s), NEW i \in 1 .. Count(t)
    PROVE  Piece(s \o t, Count(s) + i) = Piece(t, i)
  <1>1. /\ Count(s) \in Nat /\ Count(t) \in Nat
        /\ Count(s \o t) = Count(s) + Count(t) /\ Len(s) \in Nat /\ Len(t) \in Nat
        /\ Ends(t) \subseteq 1 .. Len(t)
    BY EndsFinite, RankJoin, EndsJoin
  <1> DEFINE a == IF i = 1 THEN 1 ELSE Cut(t, i - 1) + 1
             b == Cut(t, i) - 1
             k == Count(s) + i
  <1>2. Cut(s \o t, k) = Len(s) + Cut(t, i) /\ Cut(t, i) \in 1 .. Len(t)
    BY <1>1, CutJoin, CutFinds
  <1>3. (IF k = 1 THEN 1 ELSE Cut(s \o t, k - 1) + 1) = Len(s) + a /\ a \in Nat \ {0}
    <2>1. CASE i # 1
      <3>1. i - 1 \in 1 .. Count(t) /\ k - 1 = Count(s) + (i - 1) /\ k # 1
        BY <1>1, <2>1
      <3>2. Cut(s \o t, k - 1) = Len(s) + Cut(t, i - 1) /\ Cut(t, i - 1) \in 1 .. Len(t)
        BY <1>1, <3>1, CutJoin, CutFinds
      <3>3. a = Cut(t, i - 1) + 1
        BY <2>1
      <3> HIDE DEF a, k
      <3>4. a \in Nat \ {0} /\ Cut(s \o t, k - 1) + 1 = Len(s) + a
        BY <1>1, <3>2, <3>3
      <3> QED
        BY <3>1, <3>4
    <2>2. CASE i = 1 /\ Count(s) = 0
      <3>1. Len(s) = 0
        BY <2>2, WholeEnds
      <3> QED
        BY <2>2, <3>1
    <2>3. CASE i = 1 /\ Count(s) # 0
      <3>1. k # 1 /\ k - 1 = Count(s) /\ Count(s) \in 1 .. Count(s)
        BY <1>1, <2>3
      <3>2. Cut(s, Count(s)) = Len(s)
        BY <2>3, WholeEnds
      <3>3. Cut(s \o t, k - 1) = Len(s)
        BY <3>1, <3>2, CutJoin
      <3> QED
        BY <2>3, <3>1, <3>3
    <2> QED
      BY <2>1, <2>2, <2>3
  <1>4. b \in Int /\ b <= Len(t) /\ Cut(s \o t, k) - 1 = Len(s) + b
    BY <1>1, <1>2
  <1>5. ~ (i > Count(t)) /\ ~ (k > Count(s \o t))
    BY <1>1
  <1>6. Piece(t, i) = SubSeq(t, a, b)
    BY <1>5 DEF Piece
  <1>7. Piece(s \o t, k) = SubSeq(s \o t, Len(s) + a, Len(s) + b)
    BY <1>3, <1>4, <1>5 DEF Piece
  <1>8. Piece(s \o t, k) = Piece(t, i)
    <2> HIDE DEF a, b, k
    <2> QED
      BY <1>3, <1>4, <1>6, <1>7, SubJoin
  <1> QED
    BY <1>8

-----------------------------------------------------------------------------
(* The complete lines                                                        *)

\* Split gives the pieces.
LEMMA SplitPieces ==
    ASSUME NEW s
    PROVE  L!Split(s, "LF") = [i \in 1 .. Count(s) + 1 |-> Piece(s, i)]
  <1>1. L!Cardinality(Ends(s)) = Count(s)
    BY SameCardinality DEF Count
  <1>2. L!Split(s, "LF") =
            [i \in 1 .. L!Cardinality(Ends(s)) + 1 |->
                SubSeq(s, IF i = 1 THEN 1 ELSE Cut(s, i - 1) + 1,
                          IF i > L!Cardinality(Ends(s)) THEN Len(s) ELSE Cut(s, i) - 1)]
    BY Zenon DEF L!Split, Cut, Ends
  <1> QED
    BY <1>1, <1>2 DEF Piece

\* Every newline completes a line, and Remainder is what follows the last one.
LEMMA LinesAre ==
    ASSUME NEW s \in Bytes
    PROVE  /\ L!CompleteLines(s) = [i \in 1 .. Count(s) |-> L!Chop(Piece(s, i))]
           /\ L!Remainder(s) = Piece(s, Count(s) + 1)
  <1> DEFINE all == L!Split(s, "LF")
  <1>1. Count(s) \in Nat
    BY EndsFinite
  <1>2. all = [i \in 1 .. Count(s) + 1 |-> Piece(s, i)]
    BY SplitPieces
  <1>3. Len(all) = Count(s) + 1
    BY <1>1, <1>2
  <1>4. \A i \in 1 .. Count(s) + 1 : all[i] = Piece(s, i)
    BY <1>2
  <1> HIDE DEF all
  <1>5. Len(all) - 1 = Count(s)
    BY <1>1, <1>3
  <1>6. [i \in 1 .. Len(all) - 1 |-> L!Chop(all[i])] = [i \in 1 .. Count(s) |-> L!Chop(Piece(s, i))]
    BY <1>1, <1>4, <1>5
  <1>7. all[Len(all)] = Piece(s, Count(s) + 1)
    BY <1>1, <1>3, <1>4
  <1> QED
    BY <1>6, <1>7 DEF all, L!CompleteLines, L!Remainder, L!Last

\* A stream is its complete lines, as they came, and the remainder.
LEMMA Halves ==
    ASSUME NEW s \in Bytes
    PROVE  \E q \in Bytes : /\ Whole(q) /\ L!Remainder(s) \in Bytes
                            /\ s = q \o L!Remainder(s)
                            /\ Count(q) = Count(s) /\ Ends(L!Remainder(s)) = {}
  <1>1. /\ Count(s) \in Nat /\ Len(s) \in Nat /\ Ends(s) \subseteq 1 .. Len(s)
        /\ s \in Seq(STRING)
    BY EndsFinite, EndsJoin DEF Bytes
  <1> DEFINE n == IF Count(s) = 0 THEN 0 ELSE Cut(s, Count(s))
             q == SubSeq(s, 1, n)
             r == SubSeq(s, n + 1, Len(s))
  <1>2. n \in 0 .. Len(s) /\ (n # 0 => n \in Ends(s) /\ Rank(s, n) = Count(s))
    <2>1. Count(s) # 0 => /\ Cut(s, Count(s)) \in Ends(s)
                          /\ Rank(s, Cut(s, Count(s))) = Count(s)
      BY <1>1, CutFinds
    <2> QED
      BY <1>1, <2>1
  <1>3. L!Remainder(s) = r
    <2>1. L!Remainder(s) = Piece(s, Count(s) + 1)
      BY LinesAre
    <2>2. Count(s) + 1 > Count(s) /\ (Count(s) + 1) - 1 = Count(s)
          /\ (Count(s) + 1 = 1 <=> Count(s) = 0)
      BY <1>1
    <2> QED
      BY <2>1, <2>2 DEF Piece
  <1> HIDE DEF n
  <1>4. q \in Bytes /\ r \in Bytes /\ Len(q) = n /\ s = q \o r
    <2>1. /\ 1 \in 1 .. Len(s) + 1 /\ n \in 1 - 1 .. Len(s) /\ Len(s) \in n .. Len(s)
      BY <1>1, <1>2
    <2>2. SubSeq(s, 1, n) \o SubSeq(s, n + 1, Len(s)) = SubSeq(s, 1, Len(s))
      BY <1>1, <2>1, ConcatAdjacentSubSeq
    <2>3. SubSeq(s, 1, Len(s)) = s
      BY <1>1, SubSeqFull
    <2>4. q \in Bytes /\ Len(q) = n
      BY <1>1, <1>2 DEF Bytes
    <2>5. r \in Bytes
      BY <1>1, <1>2 DEF Bytes
    <2> QED
      BY <2>2, <2>3, <2>4, <2>5
  <1>5. Whole(q)
    <2>1. n # 0 => q[n] = s[n] /\ s[n] = "LF"
      BY <1>1, <1>2 DEF Ends
    <2>2. n = 0 => q = << >>
      BY SubSeqEmpty
    <2> QED
      BY <1>4, <2>1, <2>2 DEF Whole
  <1>6. Count(q) = Count(s)
    <2> HIDE DEF q, r
    <2>1. Count(q \o r) = Count(q) + Count(r)
      BY <1>4, RankJoin
    <2>2. Count(q) \in Nat /\ Count(r) \in Nat
      BY <1>4, EndsFinite
    <2>3. CASE Count(r) = 0
      BY <1>4, <2>1, <2>2, <2>3
    <2>4. CASE Count(r) # 0
      <3>1. 1 \in 1 .. Count(r)
        BY <2>2, <2>4
      <3>2. Cut(r, 1) \in Ends(r)
        BY <1>4, <3>1, CutFinds
      <3> DEFINE c == Cut(r, 1)
      <3>3. /\ n + c \in Ends(s) /\ c > 0 /\ c \in Nat
            /\ Rank(s, n + c) \in 1 .. Count(s)
        <4>1. Ends(r) \subseteq 1 .. Len(r) /\ Len(r) \in Nat
          BY <1>4, EndsJoin
        <4> QED
          BY <1>4, <3>2, <4>1, RankJoin, CutFinds
      <3>4. n # 0
        <4>1. n = 0 => Count(s) = 0
          BY <1>1, <1>2, CutFinds DEF n
        <4> QED
          BY <1>1, <3>3, <4>1
      <3>5. Rank(s, n) < Rank(s, n + c)
        BY <1>1, <1>2, <3>3, <3>4, RankGrows
      <3> HIDE DEF c
      <3> QED
        BY <1>1, <1>2, <3>3, <3>4, <3>5
    <2> QED
      BY <2>3, <2>4
  <1>7. Ends(r) = {}
    <2> HIDE DEF q, r
    <2>1. Count(q) \in Nat /\ Count(r) \in Nat /\ Count(s) = Count(q) + Count(r)
      BY <1>4, EndsFinite, RankJoin
    <2>2. IsFiniteSet(Ends(r)) /\ Cardinality(Ends(r)) = 0
      BY <1>4, <1>6, <2>1, EndsFinite DEF Count
    <2> QED
      BY <2>2, FS_EmptySet
  <1> QED
    BY <1>3, <1>4, <1>5, <1>6, <1>7

\* The bytes that have arrived do not lose the lines that were complete before.
LEMMA LinesKept ==
    ASSUME NEW s \in Bytes, NEW t \in Bytes
    PROVE  /\ Len(L!CompleteLines(s)) = Count(s) /\ Count(s) \in Nat
           /\ DOMAIN L!CompleteLines(s) = 1 .. Count(s)
           /\ Len(L!CompleteLines(s \o t)) = Count(s) + Count(t) /\ Count(t) \in Nat
           /\ \A i \in 1 .. Count(s) : L!CompleteLines(s \o t)[i] = L!CompleteLines(s)[i]
  <1>1. s \o t \in Bytes
    BY EndsJoin
  <1>2. Count(s) \in Nat /\ Count(t) \in Nat /\ Count(s \o t) = Count(s) + Count(t)
    BY EndsFinite, RankJoin
  <1>3. /\ L!CompleteLines(s) = [i \in 1 .. Count(s) |-> L!Chop(Piece(s, i))]
        /\ L!CompleteLines(s \o t) =
               [i \in 1 .. Count(s \o t) |-> L!Chop(Piece(s \o t, i))]
    BY <1>1, LinesAre
  <1>4. Len(L!CompleteLines(s)) = Count(s) /\ DOMAIN L!CompleteLines(s) = 1 .. Count(s)
    BY <1>2, <1>3
  <1>5. Len(L!CompleteLines(s \o t)) = Count(s) + Count(t)
    <2>1. Count(s \o t) \in Nat
      BY <1>2
    <2> QED
      BY <1>2, <1>3, <2>1
  <1>6. ASSUME NEW i \in 1 .. Count(s)
        PROVE  L!CompleteLines(s \o t)[i] = L!CompleteLines(s)[i]
    <2>1. i \in 1 .. Count(s \o t)
      BY <1>2
    <2>2. Piece(s \o t, i) = Piece(s, i)
      BY PieceBefore
    <2> QED
      BY <1>3, <2>1, <2>2
  <1> QED
    BY <1>2, <1>4, <1>5, <1>6

\* A list of m and one of n elements, put together.
LEMMA Append2 ==
    ASSUME NEW m \in Nat, NEW n \in Nat, NEW f, NEW g,
           f = [i \in 1 .. m |-> f[i]], g = [i \in 1 .. n |-> g[i]]
    PROVE  f \o g = [i \in 1 .. m + n |-> IF i <= m THEN f[i] ELSE g[i - m]]
  <1> DEFINE S == {f[i] : i \in 1 .. m} \cup {g[i] : i \in 1 .. n}
  <1>1. (\A i \in 1 .. m : f[i] \in S) /\ (\A i \in 1 .. n : g[i] \in S)
    OBVIOUS
  <1> HIDE DEF S
  <1>2. f \in Seq(S) /\ Len(f) = m
    BY <1>1
  <1>3. g \in Seq(S) /\ Len(g) = n
    BY <1>1
  <1>4. f \o g \in Seq(S) /\ Len(f \o g) = m + n
    BY <1>2, <1>3
  <1>5. \A i \in 1 .. m + n : (f \o g)[i] = IF i <= m THEN f[i] ELSE g[i - m]
    BY <1>2, <1>3
  <1> QED
    BY <1>4, <1>5

\* What the i-th line of s may be handled as.
Outcomes(s, i) == L!parseIncoming(L!Chop(Piece(s, i)), cap)

\* Line by line.
LEMMA HandledAre ==
    ASSUME NEW s \in Bytes, NEW h
    PROVE  /\ Count(s) \in Nat
           /\ h \in L!Handled(s) <=> /\ h = [i \in 1 .. Count(s) |-> h[i]]
                                     /\ \A i \in 1 .. Count(s) : h[i] \in Outcomes(s, i)
  <1> DEFINE lines == L!CompleteLines(s)
             may(i) == L!parseIncoming(lines[i], cap)
             all == UNION {may(i) : i \in DOMAIN lines}
  <1>1. /\ lines = [i \in 1 .. Count(s) |-> L!Chop(Piece(s, i))] /\ Count(s) \in Nat
    BY LinesAre, EndsFinite
  <1>2. DOMAIN lines = 1 .. Count(s) /\ \A i \in 1 .. Count(s) : lines[i] = L!Chop(Piece(s, i))
    BY <1>1
  <1>3. L!Handled(s) = {k \in [DOMAIN lines -> all] : \A i \in DOMAIN lines : k[i] \in may(i)}
    BY DEF L!Handled
  <1>4. \A i \in 1 .. Count(s) : may(i) = Outcomes(s, i)
    BY <1>2 DEF Outcomes
  <1> HIDE DEF lines, may
  <1>5. \A k : k \in [DOMAIN lines -> all] /\ (\A i \in DOMAIN lines : k[i] \in may(i))
            <=> k = [i \in DOMAIN lines |-> k[i]] /\ (\A i \in DOMAIN lines : k[i] \in may(i))
    OBVIOUS
  <1> QED
    BY <1>1, <1>2, <1>3, <1>4, <1>5

\* Handling whole lines, then what follows, is handling all of it.
LEMMA HandledJoin ==
    ASSUME NEW s \in Bytes, NEW t \in Bytes, Whole(s),
           NEW h \in L!Handled(s), NEW k \in L!Handled(t)
    PROVE  h \o k \in L!Handled(s \o t)
  <1>1. s \o t \in Bytes /\ Count(s \o t) = Count(s) + Count(t)
    BY EndsJoin, RankJoin
  <1>2. \A i \in 1 .. Count(s) : Outcomes(s \o t, i) = Outcomes(s, i)
    BY PieceBefore DEF Outcomes
  <1>3. \A i \in 1 .. Count(t) : Outcomes(s \o t, Count(s) + i) = Outcomes(t, i)
    BY PieceAfter DEF Outcomes
  <1>4. /\ Count(s) \in Nat /\ h = [i \in 1 .. Count(s) |-> h[i]]
        /\ \A i \in 1 .. Count(s) : h[i] \in Outcomes(s, i)
    BY HandledAre
  <1>5. /\ Count(t) \in Nat /\ k = [i \in 1 .. Count(t) |-> k[i]]
        /\ \A i \in 1 .. Count(t) : k[i] \in Outcomes(t, i)
    BY HandledAre
  <1>6. h \o k = [i \in 1 .. Count(s) + Count(t) |->
                     IF i <= Count(s) THEN h[i] ELSE k[i - Count(s)]]
    BY <1>4, <1>5, Append2
  <1>7. ASSUME NEW i \in 1 .. Count(s) + Count(t)
        PROVE  (h \o k)[i] \in Outcomes(s \o t, i)
    <2>1. (h \o k)[i] = IF i <= Count(s) THEN h[i] ELSE k[i - Count(s)]
      BY <1>6
    <2>2. CASE i <= Count(s)
      BY <1>2, <1>4, <2>1, <2>2
    <2>3. CASE i > Count(s)
      <3>1. i - Count(s) \in 1 .. Count(t) /\ Count(s) + (i - Count(s)) = i
        BY <1>4, <1>5, <2>3
      <3>2. Outcomes(s \o t, i) = Outcomes(t, i - Count(s))
        BY <1>3, <3>1
      <3> QED
        BY <1>4, <1>5, <2>1, <2>3, <3>1, <3>2
    <2> QED
      BY <1>4, <1>5, <2>2, <2>3
  <1>8. h \o k = [i \in 1 .. Count(s) + Count(t) |-> (h \o k)[i]]
    BY <1>6
  <1> QED
    BY <1>1, <1>7, <1>8, HandledAre

\* Handling a buffer is handling the part it loses.
LEMMA HandledHalf ==
    ASSUME NEW q \in Bytes, NEW r \in Bytes, Count(q \o r) = Count(q)
    PROVE  L!Handled(q \o r) = L!Handled(q)
  <1>1. /\ L!CompleteLines(q) = [i \in 1 .. Count(q) |-> L!Chop(Piece(q, i))]
        /\ L!CompleteLines(q \o r) = [i \in 1 .. Count(q) |-> L!Chop(Piece(q \o r, i))]
    BY LinesAre, EndsJoin
  <1>2. \A i \in 1 .. Count(q) : Piece(q \o r, i) = Piece(q, i)
    BY PieceBefore
  <1>3. L!CompleteLines(q \o r) = L!CompleteLines(q)
    BY <1>1, <1>2
  <1> QED
    BY <1>3 DEF L!Handled

-----------------------------------------------------------------------------
(* The steps of Lines                                                        *)

\* A stream put together of two falls into them again.
LEMMA Parts ==
    ASSUME NEW u \in Bytes, NEW v \in Bytes
    PROVE  /\ Len(u) \in 0 .. Len(u \o v)
           /\ L!Left(u \o v, Len(u)) = u /\ L!Mid(u \o v, Len(u) + 1) = v
  <1>1. Len(u) \in Nat /\ Len(v) \in Nat /\ Len(u \o v) = Len(u) + Len(v)
    BY EndsJoin
  <1>2. SubSeq(u \o v, 1, Len(u)) = SubSeq(u, 1, Len(u))
    BY <1>1, SubJoin
  <1>3. SubSeq(u \o v, Len(u) + 1, Len(u) + Len(v)) = SubSeq(v, 1, Len(v))
    BY <1>1, SubJoin
  <1>4. SubSeq(u, 1, Len(u)) = u /\ SubSeq(v, 1, Len(v)) = v
    BY SubSeqFull DEF Bytes
  <1> QED
    BY <1>1, <1>2, <1>3, <1>4 DEF L!Left, L!Mid

\* Three and four streams put together, in two ways each.
FirstTwo(s, t, u) == (s \o t) \o u
LastTwo(s, t, u) == s \o (t \o u)
Middle(s, t, u, v) == s \o ((t \o u) \o v)
Pairs(s, t, u, v) == (s \o t) \o (u \o v)

\* Putting together is associative.
LEMMA JoinAssociates ==
    ASSUME NEW s \in Bytes, NEW t \in Bytes, NEW u \in Bytes
    PROVE  FirstTwo(s, t, u) = LastTwo(s, t, u)
  <1>1. /\ (s \o t) \o u \in Seq(STRING) /\ s \o (t \o u) \in Seq(STRING)
        /\ Len(s) \in Nat /\ Len(t) \in Nat /\ Len(u) \in Nat
        /\ Len(s \o t) = Len(s) + Len(t) /\ Len(t \o u) = Len(t) + Len(u)
        /\ Len((s \o t) \o u) = Len(s) + Len(t) + Len(u)
        /\ Len(s \o (t \o u)) = Len(s) + Len(t) + Len(u)
    BY DEF Bytes
  <1>2. \A i \in 1 .. Len(s) + Len(t) + Len(u) : ((s \o t) \o u)[i] = (s \o (t \o u))[i]
    BY <1>1 DEF Bytes
  <1> QED
    BY <1>1, <1>2, SeqEqual DEF FirstTwo, LastTwo

\* Four streams put together with the middle two first, or pairwise.
LEMMA Regroup ==
    ASSUME NEW s \in Bytes, NEW t \in Bytes, NEW u \in Bytes, NEW v \in Bytes
    PROVE  Middle(s, t, u, v) = Pairs(s, t, u, v)
  <1>1. FirstTwo(t, u, v) = LastTwo(t, u, v)
    BY JoinAssociates
  <1>2. u \o v \in Bytes
    BY EndsJoin
  <1>3. FirstTwo(s, t, u \o v) = LastTwo(s, t, u \o v)
    BY <1>2, JoinAssociates
  <1> QED
    BY <1>1, <1>3 DEF FirstTwo, LastTwo, Middle, Pairs

\* A stream is what comes up to a byte and what comes after it.
LEMMA CutAnywhere ==
    ASSUME NEW s \in Bytes, NEW n \in 0 .. Len(s)
    PROVE  /\ L!Left(s, n) \in Bytes /\ L!Mid(s, n + 1) \in Bytes
           /\ Len(L!Left(s, n)) = n
           /\ \A i \in 1 .. n : L!Left(s, n)[i] = s[i]
           /\ s = L!Left(s, n) \o L!Mid(s, n + 1)
  <1>1. Len(s) \in Nat /\ s \in Seq(STRING)
    BY DEF Bytes
  <1>2. 1 \in 1 .. Len(s) + 1 /\ n \in 1 - 1 .. Len(s) /\ Len(s) \in n .. Len(s)
    BY <1>1
  <1>3. SubSeq(s, 1, n) \o SubSeq(s, n + 1, Len(s)) = SubSeq(s, 1, Len(s))
    BY <1>1, <1>2, ConcatAdjacentSubSeq
  <1>4. SubSeq(s, 1, Len(s)) = s
    BY <1>1, SubSeqFull
  <1>5. /\ SubSeq(s, 1, n) \in Bytes /\ Len(SubSeq(s, 1, n)) = n
        /\ \A i \in 1 .. n : SubSeq(s, 1, n)[i] = s[i]
    BY <1>1 DEF Bytes
  <1>6. SubSeq(s, n + 1, Len(s)) \in Bytes
    BY <1>1 DEF Bytes
  <1> QED
    BY <1>3, <1>4, <1>5, <1>6 DEF L!Left, L!Mid

\* The two halves of the stream: handled and not.
Halved(done, rest) ==
    /\ done \in Bytes /\ rest \in Bytes
    /\ sent = done \o rest
    /\ handled \in L!Handled(done)
    /\ connected => Whole(done) /\ rest = (m_buffer \o socket) \o wire

\* Inv in terms of the halves.
Streaming ==
    /\ sent \in Bytes /\ wire \in Bytes /\ socket \in Bytes /\ m_buffer \in Bytes
    /\ Ends(m_buffer) = {}
    /\ \E done, rest \in Bytes : Halved(done, rest)

\* They say the same.
LEMMA InvHalves ==
    L!Inv <=> Streaming
  <1>1. ASSUME L!Inv
        PROVE  Streaming
    <2>1. /\ sent \in Bytes /\ wire \in Bytes /\ socket \in Bytes /\ m_buffer \in Bytes
          /\ Ends(m_buffer) = {}
      BY <1>1 DEF L!Inv, Bytes, Ends
    <2>2. PICK n \in 0 .. Len(sent) :
              /\ handled \in L!Handled(L!Left(sent, n))
              /\ connected => /\ n = 0 \/ sent[n] = "LF"
                              /\ L!Mid(sent, n + 1) = m_buffer \o socket \o wire
      BY <1>1 DEF L!Inv
    <2> DEFINE done == L!Left(sent, n)
               rest == L!Mid(sent, n + 1)
    <2>3. done \in Bytes /\ rest \in Bytes /\ sent = done \o rest
      BY <2>1, CutAnywhere
    <2>4. n = 0 \/ sent[n] = "LF" => Whole(done)
      <3>1. Len(done) = n /\ \A i \in 1 .. n : done[i] = sent[i]
        BY <2>1, CutAnywhere
      <3>2. n # 0 => n \in 1 .. n
        OBVIOUS
      <3> HIDE DEF done
      <3>3. n = 0 => done = << >>
        BY <2>3, <3>1 DEF Bytes
      <3> QED
        BY <3>1, <3>2, <3>3 DEF Whole
    <2>5. Halved(done, rest)
      BY <2>2, <2>3, <2>4 DEF Halved
    <2> HIDE DEF done, rest
    <2> QED
      BY <2>1, <2>3, <2>5 DEF Streaming
  <1>2. ASSUME sent \in Bytes, wire \in Bytes, socket \in Bytes, m_buffer \in Bytes,
               Ends(m_buffer) = {},
               NEW done \in Bytes, NEW rest \in Bytes, Halved(done, rest)
        PROVE  L!Inv
    <2> DEFINE n == Len(done)
    <2>1. sent = done \o rest
      BY <1>2 DEF Halved
    <2>2. n \in 0 .. Len(sent) /\ L!Left(sent, n) = done /\ L!Mid(sent, n + 1) = rest
      BY <2>1, Parts
    <2>3. Whole(done) => n = 0 \/ sent[n] = "LF"
      <3>1. n \in Nat /\ \A i \in 1 .. n : sent[i] = done[i]
        BY <2>1 DEF Bytes
      <3>2. done = << >> => n = 0
        OBVIOUS
      <3> QED
        BY <3>1, <3>2 DEF Whole
    <2> HIDE DEF n
    <2>4. /\ handled \in L!Handled(L!Left(sent, n))
          /\ connected => /\ n = 0 \/ sent[n] = "LF"
                          /\ L!Mid(sent, n + 1) = m_buffer \o socket \o wire
      BY <1>2, <2>2, <2>3 DEF Halved
    <2>5. \A i \in 1 .. Len(m_buffer) : m_buffer[i] # "LF"
      BY <1>2 DEF Ends
    <2> QED
      BY <1>2, <2>2, <2>4, <2>5 DEF L!Inv, Bytes
  <1> QED
    BY <1>1, <1>2 DEF Streaming

\* So it is after a step.
LEMMA InvHalvesNext ==
    Streaming' => L!Inv'
  BY InvHalves, PTL

\* The invariant gives InOrder.
LEMMA HalvesInOrder ==
    L!Inv => L!InOrder
  <1> SUFFICES ASSUME L!Inv
               PROVE  L!InOrder
    OBVIOUS
  <1>1. PICK done \in Bytes, rest \in Bytes : Halved(done, rest)
    BY InvHalves DEF Streaming
  <1> DEFINE all == L!CompleteLines(sent)
             lines == L!CompleteLines(done)
  <1>2. sent = done \o rest /\ handled \in L!Handled(done)
    BY <1>1 DEF Halved
  <1>3. /\ Len(all) = Count(done) + Count(rest) /\ DOMAIN lines = 1 .. Count(done)
        /\ Count(done) \in Nat /\ Count(rest) \in Nat
        /\ \A i \in 1 .. Count(done) : all[i] = lines[i]
    BY <1>2, LinesKept
  <1>4. /\ DOMAIN handled = 1 .. Count(done) /\ Len(handled) = Count(done)
        /\ \A i \in 1 .. Count(done) : handled[i] \in L!parseIncoming(lines[i], cap)
    <2>1. handled = [i \in 1 .. Count(done) |-> handled[i]]
      BY <1>2, HandledAre
    <2>2. DOMAIN handled = 1 .. Count(done) /\ Len(handled) = Count(done)
      BY <1>3, <2>1
    <2>3. \A i \in 1 .. Count(done) : handled[i] \in L!parseIncoming(lines[i], cap)
      BY <1>2, <1>3 DEF L!Handled
    <2> QED
      BY <2>2, <2>3
  <1>5. ASSUME connected
        PROVE  Len(handled) = Len(L!CompleteLines(L!Left(sent, Len(sent) - (Len(socket) + Len(wire)))))
    <2>1. /\ wire \in Bytes /\ socket \in Bytes /\ m_buffer \in Bytes /\ Ends(m_buffer) = {}
      BY InvHalves DEF Streaming
    <2>2. Middle(done, m_buffer, socket, wire) = Pairs(done, m_buffer, socket, wire)
      BY <2>1, Regroup
    <2>3. sent = (done \o m_buffer) \o (socket \o wire)
      BY <1>1, <1>5, <2>2 DEF Halved, Middle, Pairs
    <2>4. /\ done \o m_buffer \in Bytes /\ socket \o wire \in Bytes
          /\ Len(socket \o wire) = Len(socket) + Len(wire)
      BY <2>1, EndsJoin
    <2>5. /\ Len(sent) = Len(done \o m_buffer) + Len(socket \o wire)
          /\ Len(done \o m_buffer) \in Nat /\ Len(socket \o wire) \in Nat
      BY <2>3, <2>4, EndsJoin
    <2>6. Len(sent) - (Len(socket) + Len(wire)) = Len(done \o m_buffer)
      BY <2>4, <2>5
    <2>7. L!Left(sent, Len(done \o m_buffer)) = done \o m_buffer
      BY <2>3, <2>4, Parts
    <2>8. Len(L!CompleteLines(done \o m_buffer)) = Count(done)
      <3>1. Count(m_buffer) = 0
        BY <2>1, FS_EmptySet DEF Count
      <3> QED
        BY <1>3, <2>1, <3>1, LinesKept
    <2>9. Len(handled) = Count(done)
      BY <1>3, <1>4
    <2> QED
      BY <2>6, <2>7, <2>8, <2>9
  <1> HIDE DEF all, lines
  <1>6. Len(handled) <= Len(all)
    BY <1>3, <1>4
  <1>7. \A i \in DOMAIN handled : handled[i] \in L!parseIncoming(all[i], cap)
    BY <1>3, <1>4
  <1> QED
    BY <1>5, <1>6, <1>7 DEF L!InOrder, all

\* Initially nothing is handled and all of the stream is on its way.
LEMMA LinesInit ==
    ASSUME L!LinesAssumption, L!Init
    PROVE  L!Inv
  <1>1. /\ sent \in Bytes /\ wire = sent /\ socket = << >> /\ m_buffer = << >>
        /\ handled = << >>
    BY DEF L!LinesAssumption, L!Init, Bytes
  <1>2. << >> \in Bytes /\ Whole(<< >>)
    BY DEF Bytes, Whole
  <1>3. sent = << >> \o sent /\ << >> \o << >> = << >>
    BY <1>1, <1>2, ConcatEmptySeq DEF Bytes
  <1>4. handled \in L!Handled(<< >>)
    <2>1. Ends(<< >>) = {}
      BY DEF Ends
    <2>2. Count(<< >>) = 0
      BY <2>1, FS_EmptySet DEF Count
    <2>3. 1 .. 0 = {} /\ << >> = [i \in 1 .. 0 |-> << >>[i]]
      OBVIOUS
    <2> QED
      BY <1>1, <1>2, <2>2, <2>3, HandledAre
  <1>5. Halved(<< >>, sent)
    BY <1>1, <1>2, <1>3, <1>4 DEF Halved
  <1>6. Ends(m_buffer) = {}
    BY <1>1 DEF Ends
  <1> QED
    BY <1>1, <1>2, <1>5, <1>6, InvHalves DEF Streaming

\* Bytes that arrive move from the wire to the socket.
LEMMA ArriveKeeps ==
    ASSUME L!Inv, L!Arrive
    PROVE  L!Inv'
  <1>1. /\ sent \in Bytes /\ wire \in Bytes /\ socket \in Bytes /\ m_buffer \in Bytes
        /\ Ends(m_buffer) = {}
    BY InvHalves DEF Streaming
  <1>2. PICK done \in Bytes, rest \in Bytes : Halved(done, rest)
    BY InvHalves DEF Streaming
  <1>3. PICK n \in 1 .. Len(wire) : socket' = socket \o L!Left(wire, n)
                                    /\ wire' = L!Mid(wire, n + 1)
    BY DEF L!Arrive
  <1>4. UNCHANGED <<sent, m_buffer, cap, handled, connected>>
    BY DEF L!Arrive
  <1> DEFINE l == L!Left(wire, n)
             r == L!Mid(wire, n + 1)
  <1>5. l \in Bytes /\ r \in Bytes /\ wire = l \o r
    <2>1. n \in 0 .. Len(wire)
      OBVIOUS
    <2> QED
      BY <1>1, <2>1, CutAnywhere
  <1>6. socket' = socket \o l /\ wire' = r
    BY <1>3
  <1> HIDE DEF l, r
  <1>7. (m_buffer \o (socket \o l)) \o r = (m_buffer \o socket) \o wire
    <2>1. FirstTwo(m_buffer, socket, l) = LastTwo(m_buffer, socket, l)
      BY <1>1, <1>5, JoinAssociates
    <2>2. m_buffer \o socket \in Bytes
      BY <1>1, EndsJoin
    <2>3. FirstTwo(m_buffer \o socket, l, r) = LastTwo(m_buffer \o socket, l, r)
      BY <1>5, <2>2, JoinAssociates
    <2> QED
      BY <1>5, <2>1, <2>3 DEF FirstTwo, LastTwo
  <1>8. L!Handled(done)' = L!Handled(done)
    BY <1>4 DEF L!Handled
  <1>9. Halved(done, rest)'
    BY <1>2, <1>4, <1>6, <1>7, <1>8 DEF Halved
  <1>10. (sent \in Bytes /\ wire \in Bytes /\ socket \in Bytes /\ m_buffer \in Bytes
        /\ Ends(m_buffer) = {})'
    BY <1>1, <1>4, <1>5, <1>6, EndsJoin
  <1> QED
    BY <1>9, <1>10, InvHalvesNext DEF Streaming

\* The complete lines of the buffer move to what is handled.
Advanced(done, buffer, w, moved) ==
    /\ Whole(moved)
    /\ done \o (buffer \o w) = moved \o (L!Remainder(buffer) \o w)
    /\ \A h \in L!Handled(done), k \in L!Handled(buffer) : h \o k \in L!Handled(moved)

\* Cutting at the last newline does that, and leaves no newline in the buffer.
LEMMA Advance ==
    ASSUME NEW done \in Bytes, NEW buffer \in Bytes, NEW w \in Bytes, Whole(done)
    PROVE  /\ L!Remainder(buffer) \in Bytes /\ Ends(L!Remainder(buffer)) = {}
           /\ \E moved \in Bytes : Advanced(done, buffer, w, moved)
  <1>1. PICK q \in Bytes : /\ Whole(q) /\ L!Remainder(buffer) \in Bytes
                           /\ buffer = q \o L!Remainder(buffer) /\ Count(q) = Count(buffer)
                           /\ Ends(L!Remainder(buffer)) = {}
    BY Halves
  <1> DEFINE r == L!Remainder(buffer)
  <1>2. r \in Bytes
    BY <1>1
  <1>3. buffer = q \o r
    BY <1>1
  <1> HIDE DEF r
  <1>4. Middle(done, q, r, w) = Pairs(done, q, r, w)
    BY <1>2, Regroup
  <1>5. done \o q \in Bytes
    BY EndsJoin
  <1>6. Whole(done \o q)
    <2>1. /\ Len(q) \in Nat /\ Len(done) \in Nat /\ Len(done \o q) = Len(done) + Len(q)
      BY EndsJoin
    <2>2. CASE q = << >>
      <3>1. done \o q = done
        BY <2>2, ConcatEmptySeq DEF Bytes
      <3> QED
        BY <3>1
    <2>3. CASE q # << >>
      <3>1. Len(q) \in 1 .. Len(q) /\ q[Len(q)] = "LF"
        BY <1>1, <2>1, <2>3 DEF Whole, Bytes
      <3>2. (done \o q)[Len(done) + Len(q)] = q[Len(q)]
        BY <2>1, <3>1 DEF Bytes
      <3> QED
        BY <2>1, <3>1, <3>2 DEF Whole
    <2> QED
      BY <2>2, <2>3
  <1>7. L!Handled(buffer) = L!Handled(q)
    BY <1>1, <1>2, <1>3, HandledHalf
  <1>8. \A h \in L!Handled(done), k \in L!Handled(q) : h \o k \in L!Handled(done \o q)
    BY HandledJoin
  <1>9. Advanced(done, buffer, w, done \o q)
    BY <1>3, <1>4, <1>6, <1>7, <1>8 DEF r, Middle, Pairs, Advanced
  <1> QED
    BY <1>1, <1>5, <1>9

\* The lines of the buffer are appended to what is handled, or the connection ends.
LEMMA onReadyReadKeeps ==
    ASSUME L!Inv, L!onReadyRead
    PROVE  L!Inv'
  <1>1. /\ sent \in Bytes /\ wire \in Bytes /\ socket \in Bytes /\ m_buffer \in Bytes
        /\ Ends(m_buffer) = {}
    BY InvHalves DEF Streaming
  <1>2. PICK done \in Bytes, rest \in Bytes : Halved(done, rest)
    BY InvHalves DEF Streaming
  <1> DEFINE buffer == m_buffer \o socket
  <1>3. /\ connected /\ socket' = << >>
        /\ UNCHANGED <<sent, wire, cap>>
        /\ \/ m_buffer' = << >> /\ connected' = FALSE /\ UNCHANGED handled
           \/ /\ m_buffer' = L!Remainder(buffer) /\ UNCHANGED connected
              /\ \E more \in L!Handled(buffer) : handled' = handled \o more
    BY DEF L!onReadyRead
  <1>4. buffer \in Bytes /\ << >> \in Bytes /\ Ends(<< >>) = {}
    BY <1>1, EndsJoin DEF Bytes, Ends
  <1> HIDE DEF buffer
  <1>5. CASE m_buffer' = << >> /\ connected' = FALSE /\ UNCHANGED handled
    <2>1. L!Handled(done)' = L!Handled(done)
      BY <1>3 DEF L!Handled
    <2>2. Halved(done, rest)'
      BY <1>2, <1>3, <1>5, <2>1 DEF Halved
    <2>3. (sent \in Bytes /\ wire \in Bytes /\ socket \in Bytes /\ m_buffer \in Bytes
        /\ Ends(m_buffer) = {})'
      BY <1>1, <1>3, <1>4, <1>5
    <2> QED
      BY <2>2, <2>3, InvHalvesNext DEF Streaming
  <1>6. CASE /\ m_buffer' = L!Remainder(buffer) /\ UNCHANGED connected
             /\ \E more \in L!Handled(buffer) : handled' = handled \o more
    <2>1. PICK more \in L!Handled(buffer) : handled' = handled \o more
      BY <1>6
    <2>2. Whole(done) /\ sent = done \o (buffer \o wire)
      BY <1>2, <1>3 DEF Halved, buffer
    <2>3. PICK moved : /\ moved \in Bytes /\ L!Remainder(buffer) \in Bytes
                       /\ Ends(L!Remainder(buffer)) = {}
                       /\ Advanced(done, buffer, wire, moved)
      BY <1>1, <1>4, <2>2, Advance
    <2>4. /\ moved \in Bytes /\ Whole(moved) /\ L!Remainder(buffer) \in Bytes
          /\ Ends(L!Remainder(buffer)) = {}
          /\ sent = moved \o (L!Remainder(buffer) \o wire)
          /\ handled' \in L!Handled(moved)
      BY <1>2, <2>1, <2>2, <2>3 DEF Advanced, Halved
    <2>5. PICK rest2 : rest2 = L!Remainder(buffer) \o wire /\ rest2 \in Bytes
      BY <1>1, <2>4, EndsJoin
    <2>6. L!Handled(moved)' = L!Handled(moved)
      BY <1>3 DEF L!Handled
    <2>7. (m_buffer' \o socket') \o wire' = rest2
      <3>1. m_buffer' \in Bytes /\ socket' = << >>
        BY <1>3, <1>6, <2>4
      <3>2. m_buffer' \o socket' = m_buffer'
        BY <3>1, ConcatEmptySeq DEF Bytes
      <3> QED
        BY <1>3, <1>6, <2>5, <3>2
    <2>8. Halved(moved, rest2)'
      BY <1>3, <2>1, <2>4, <2>5, <2>6, <2>7 DEF Halved
    <2>9. (sent \in Bytes /\ wire \in Bytes /\ socket \in Bytes /\ m_buffer \in Bytes
        /\ Ends(m_buffer) = {})'
      BY <1>1, <1>3, <1>4, <1>6, <2>4
    <2> QED
      BY <2>4, <2>5, <2>8, <2>9, InvHalvesNext DEF Streaming
  <1> QED
    BY <1>3, <1>5, <1>6

\* Relaying, and doing nothing, leave the stream alone.
LEMMA OthersKeep ==
    ASSUME L!Inv, L!Relay \/ UNCHANGED L!vars
    PROVE  L!Inv'
  <1>1. UNCHANGED <<sent, wire, socket, m_buffer, cap, handled, connected>>
    BY DEF L!Relay, L!vars
  <1>2. PICK done \in Bytes, rest \in Bytes : Halved(done, rest)
    BY InvHalves DEF Streaming
  <1>3. L!Handled(done)' = L!Handled(done)
    BY <1>1 DEF L!Handled
  <1>4. Halved(done, rest)'
    BY <1>1, <1>2, <1>3 DEF Halved
  <1>5. (sent \in Bytes /\ wire \in Bytes /\ socket \in Bytes /\ m_buffer \in Bytes
        /\ Ends(m_buffer) = {})'
    BY <1>1, InvHalves DEF Streaming
  <1> QED
    BY <1>4, <1>5, InvHalvesNext DEF Streaming

\* Whatever clients send and however the network cuts it, parseIncoming gets the
\* lines that were sent, in order, whole and once (onReadyRead and m_buffer).
THEOREM ReadInOrder ==
    ASSUME L!LinesAssumption
    PROVE  L!Spec => []L!InOrder
  <1>1. L!Init => L!Inv
    BY LinesInit
  <1>2. L!Inv /\ [L!Next]_(L!vars) => L!Inv'
    BY ArriveKeeps, onReadyReadKeeps, OthersKeep DEF L!Next
  <1>3. L!Inv => L!InOrder
    BY HalvesInOrder
  <1> QED
    BY <1>1, <1>2, <1>3, PTL DEF L!Spec
=============================================================================
