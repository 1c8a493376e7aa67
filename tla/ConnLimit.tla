----------------------------- MODULE ConnLimit ------------------------------
(***************************************************************************)
(* Admission of sockets: ThreadedServer accepts on the main thread, counts *)
(* the connections of every IP, deals the sockets out to its worker        *)
(* threads, and the workers give the slots back when a connection ends.    *)
(* There are two ThreadedServers, plain IRC and WebSocket, each with a     *)
(* counter, a mutex and a pool of its own; both accept on the main thread. *)
(*                                                                         *)
(* One action is one handler, or its critical section under                *)
(* activeConnectionsMutex.  A worker that waits for the mutex is a worker  *)
(* whose action is not enabled.                                            *)
(***************************************************************************)
EXTENDS Integers, Sequences, FiniteSets

CONSTANTS
    Socks,          \* socket descriptors that are ever accepted
    Servers,        \* irc_server and irc_ws
    WsServers,      \* the servers listening on wsServerListeningPort
    Ips,            \* peer addresses that getpeername reports
    Unknown,        \* remote_ip = 0: getpeername failed
    MaxPerIp,       \* m_max_per_ip
    ThreadCount,    \* m_thread_count
    PeerMaxHook,    \* is a Python handler for PEER_MAX_CONNECTIONS registered?
    NULL

ASSUME ConnLimitAssumption ==
    /\ IsFiniteSet(Socks)
    /\ WsServers \subseteq Servers
    /\ Unknown \notin Ips
    /\ MaxPerIp \in Nat \ {0}
    /\ ThreadCount \in Nat \ {0}
    /\ PeerMaxHook \in BOOLEAN
    /\ NULL \notin Servers \cup Ips \cup {Unknown}

Peers == Ips \cup {Unknown}

Workers == 0 .. ThreadCount - 1

VARIABLES
    sock,       \* where a socket is in its life
    server,     \* the server that accepted it
    peer,       \* its remote_ip
    active,     \* activeConnections: a missing entry is 0
    next,       \* m_next_worker
    queue,      \* handleConnection calls posted to each worker
    dealt,      \* history: sockets dealt out to each worker
    hook        \* the server whose refusal hook runs with its mutex held

vars == <<sock, server, peer, active, next, queue, dealt, hook>>

\* "queued":    posted to a worker          "handshake": with QWebSocketServer
\* "open":      has a client_connection     "dropped":   freed, socket not yet deleted
\* "closing":   its disconnected signal is  "lost":      handshake never completed
\*              due                         "closed", "refused": gone
SockStates == {"none", "queued", "handshake", "open", "closing", "dropped",
               "lost", "closed", "refused"}

Init ==
    /\ sock = [s \in Socks |-> "none"]
    /\ server = [s \in Socks |-> NULL]
    /\ peer = [s \in Socks |-> NULL]
    /\ active = [k \in Servers \X Peers |-> 0]
    /\ next = [v \in Servers |-> 0]
    /\ queue = [k \in Servers \X Workers |-> << >>]
    /\ dealt = [k \in Servers \X Workers |-> 0]
    /\ hook = NULL

----------------------------------------------------------------------------
(* The main thread                                                          *)

\* Mutant: one connection too many is admitted.
LimitOffByOne(v, i) == i # Unknown /\ active[<<v, i>>] > MaxPerIp

LimitReached(v, i) == i # Unknown /\ active[<<v, i>>] >= MaxPerIp

\* Mutant: the last worker is never reached.
SkipsLast(w) == IF w + 1 >= ThreadCount - 1 THEN 0 ELSE w + 1

NextWorker(w) == (w + 1) % ThreadCount

IncomingConnection(s, v, i) ==
    /\ hook = NULL
    /\ sock[s] = "none"
    /\ server' = [server EXCEPT ![s] = v]
    /\ peer' = [peer EXCEPT ![s] = i]
    /\ \/ /\ LimitReached(v, i)
          /\ sock' = [sock EXCEPT ![s] = "refused"]
          /\ hook' = IF PeerMaxHook THEN v ELSE NULL
          /\ UNCHANGED <<active, next, queue, dealt>>
       \/ /\ ~LimitReached(v, i)
          /\ sock' = [sock EXCEPT ![s] = "queued"]
          /\ active' = IF i = Unknown THEN active
                       ELSE [active EXCEPT ![<<v, i>>] = @ + 1]
          /\ queue' = [queue EXCEPT ![<<v, next[v]>>] = Append(@, s)]
          /\ dealt' = [dealt EXCEPT ![<<v, next[v]>>] = @ + 1]
          /\ next' = [next EXCEPT ![v] = NextWorker(@)]
          /\ UNCHANGED hook

\* Mutant: the handler returns and the mutex stays locked.
HookKeepsMutex ==
    /\ hook # NULL
    /\ UNCHANGED vars

\* The Python handler returns and the QMutexLocker goes out of scope.
HookReturns ==
    /\ hook # NULL
    /\ hook' = NULL
    /\ UNCHANGED <<sock, server, peer, active, next, queue, dealt>>

----------------------------------------------------------------------------
(* The workers                                                              *)

\* Mutant: the counter of peers that were never counted goes below zero.
GoesNegative(n) == n - 1

\* Mutant: the entry of an address is removed by its first disconnect.
RemoveEntry(n) == 0

\* --activeConnections[ip], and the entry is removed at zero or below.
Decrement(n) == IF n - 1 <= 0 THEN 0 ELSE n - 1

\* Mutant: the slot is not given back.
KeepSlot(s) ==
    /\ hook # server[s]
    /\ UNCHANGED active

Release(s) ==
    /\ hook # server[s]
    /\ active' = [active EXCEPT ![<<server[s], peer[s]>>] = Decrement(@)]

Dequeue(v, w, s) ==
    /\ queue[<<v, w>>] # << >>
    /\ s = Head(queue[<<v, w>>])
    /\ queue' = [queue EXCEPT ![<<v, w>>] = Tail(@)]
    /\ UNCHANGED <<server, peer, next, dealt, hook>>

\* setSocketDescriptor succeeds: a client_connection is made at once, or the
\* socket is handed to the worker's QWebSocketServer.
HandleConnection(v, w, s) ==
    /\ Dequeue(v, w, s)
    /\ sock' = [sock EXCEPT ![s] = IF v \in WsServers THEN "handshake" ELSE "open"]
    /\ UNCHANGED active

SetSocketDescriptorFails(v, w, s) ==
    /\ Dequeue(v, w, s)
    /\ sock' = [sock EXCEPT ![s] = "closed"]
    /\ Release(s)

Unqueued == UNCHANGED <<server, peer, next, queue, dealt, hook>>

\* QWebSocketServer::newConnection.  A socket whose peer was already gone at
\* accept (no address) does not get this far.
NewWsConnection(s) ==
    /\ sock[s] = "handshake"
    /\ peer[s] # Unknown
    /\ sock' = [sock EXCEPT ![s] = "open"]
    /\ Unqueued /\ UNCHANGED active

\* The handshake is refused, times out, or the peer leaves during it: Qt
\* closes the socket and newConnection is never emitted.
HandshakeFails(s) ==
    /\ sock[s] = "handshake"
    /\ sock' = [sock EXCEPT ![s] = "lost"]
    /\ Unqueued /\ UNCHANGED active

\* The peer closes the socket, or forceDisconnect does.
SocketCloses(s) ==
    /\ sock[s] = "open"
    /\ sock' = [sock EXCEPT ![s] = "closing"]
    /\ Unqueued /\ UNCHANGED active

\* The socket's disconnected signal: client_connection::disconnected gives the
\* slot back and frees the connection.
OnSocketDisconnected(s) ==
    /\ sock[s] = "closing"
    /\ sock' = [sock EXCEPT ![s] = "closed"]
    /\ Release(s)
    /\ Unqueued

\* onReadyRead drops a client that sends too much without a newline: it calls
\* onSocketDisconnected directly, the worker frees the connection, and its destructor
\* leaves the socket to deleteLater().
DropOverlong(s) ==
    /\ sock[s] = "open"
    /\ server[s] \notin WsServers
    /\ sock' = [sock EXCEPT ![s] = "dropped"]
    /\ Release(s)
    /\ Unqueued

\* The event loop deletes, and so closes, the dropped socket, unless its peer closes it
\* first; nothing is connected to its signals any more.
DroppedCloses(s) ==
    /\ sock[s] = "dropped"
    /\ sock' = [sock EXCEPT ![s] = "closed"]
    /\ Unqueued /\ UNCHANGED active

----------------------------------------------------------------------------
WorkerStep(v, w) ==
    \E s \in Socks : HandleConnection(v, w, s) \/ SetSocketDescriptorFails(v, w, s)

ConnectionStep(s) ==
    \/ NewWsConnection(s)
    \/ HandshakeFails(s)
    \/ SocketCloses(s)
    \/ OnSocketDisconnected(s)
    \/ DropOverlong(s)
    \/ DroppedCloses(s)

Next ==
    \/ \E s \in Socks, v \in Servers, i \in Peers : IncomingConnection(s, v, i)
    \/ HookReturns
    \/ \E v \in Servers, w \in Workers : WorkerStep(v, w)
    \/ \E s \in Socks : ConnectionStep(s)

Spec == Init /\ [][Next]_vars

\* A worker's event loop delivers the disconnected signal of a closed socket,
\* and a Python handler returns.  Clients owe nothing.
Fairness ==
    /\ WF_vars(HookReturns)
    /\ \A s \in Socks : WF_vars(OnSocketDisconnected(s))

FairSpec == Spec /\ Fairness

----------------------------------------------------------------------------
(* Properties                                                               *)

\* Every variable of the admission model keeps its type: in particular no
\* counter of activeConnections is ever negative.
TypeOK ==
    /\ sock \in [Socks -> SockStates]
    /\ server \in [Socks -> Servers \cup {NULL}]
    /\ peer \in [Socks -> Peers \cup {NULL}]
    /\ active \in [Servers \X Peers -> Nat]
    /\ next \in [Servers -> Workers]
    /\ queue \in [Servers \X Workers -> Seq(Socks)]
    /\ dealt \in [Servers \X Workers -> Nat]
    /\ hook \in Servers \cup {NULL}

In(v, i, states) == {s \in Socks : server[s] = v /\ peer[s] = i /\ sock[s] \in states}

Live == {"queued", "handshake", "open", "closing"}

Holding == Live \cup {"lost"}

\* activeConnections, which the main thread raises and four workers lower, is
\* exact: the counter of an address is the number of its sockets that were
\* admitted and have not given their slot back.  None is lost or given back
\* twice, whichever of the exits of Worker and client_connection is taken.
SlotsExact ==
    \A v \in Servers, i \in Ips :
        active[<<v, i>>] = Cardinality(In(v, i, Holding))

\* "max connections per IP" (incomingConnection): however accepts and
\* disconnects interleave, no address has more than m_max_per_ip connections
\* waiting for a worker or being served by one server.
PerIpLimit ==
    \A v \in Servers, i \in Ips : Cardinality(In(v, i, Live)) <= MaxPerIp

RefusedAtLimit(v) ==
    \A s \in Socks :
        sock[s] = "none" /\ sock'[s] = "refused" /\ server'[s] = v =>
            Cardinality(In(v, peer'[s], Live)) >= MaxPerIp

\* incomingConnection of the plain IRC server turns a peer away only while that
\* address really has m_max_per_ip connections: no earlier client of the
\* address has used a slot up for good.
RefusalsJustified ==
    [][\A v \in Servers \ WsServers : RefusedAtLimit(v)]_vars

\* m_next_worker deals the admitted sockets out evenly: the loads of two
\* workers of one server never differ by more than one.
EvenlyDealt ==
    \A v \in Servers : \A w, x \in Workers :
        dealt[<<v, w>>] <= dealt[<<v, x>>] + 1

\* A connection that ends gives its slot back: the worker's disconnected
\* handler is not held up for ever by the mutex, which the main thread keeps
\* locked while the PEER_MAX_CONNECTIONS handler runs.
SlotsReturned ==
    \A s \in Socks : sock[s] = "closing" ~> sock[s] = "closed"

----------------------------------------------------------------------------
(* The inductive invariant behind the theorems of SocketProofs              *)

\* A socket has a server and an address from the moment it is accepted, and
\* only a WebSocket server sends one through a handshake.
AddressedInv ==
    \A s \in Socks :
        /\ sock[s] = "none" => server[s] = NULL /\ peer[s] = NULL
        /\ sock[s] # "none" => server[s] \in Servers /\ peer[s] \in Peers
        /\ sock[s] \in {"handshake", "lost"} => server[s] \in WsServers

Queues == Servers \X Workers

\* A posted handleConnection call is for a socket of that server that nobody
\* has touched since.
PostedInv ==
    \A q \in Queues : \A j \in 1 .. Len(queue[q]) :
        sock[queue[q][j]] = "queued" /\ server[queue[q][j]] = q[1]

\* No socket is posted twice.
OnceInv ==
    \A q, r \in Queues : \A j \in 1 .. Len(queue[q]), k \in 1 .. Len(queue[r]) :
        queue[q][j] = queue[r][k] => q = r /\ j = k

\* Peers without an address are not counted, the others never above the limit.
CountInv ==
    \A v \in Servers :
        /\ active[<<v, Unknown>>] = 0
        /\ \A i \in Ips : active[<<v, i>>] <= MaxPerIp

\* In the current round the workers before m_next_worker have had their socket.
DealtInv ==
    \A v \in Servers : \A w \in Workers :
        dealt[<<v, w>>] = dealt[<<v, next[v]>>] + (IF w < next[v] THEN 1 ELSE 0)

Inv ==
    /\ TypeOK
    /\ AddressedInv
    /\ PostedInv
    /\ OnceInv
    /\ CountInv
    /\ SlotsExact
    /\ DealtInv
=============================================================================
