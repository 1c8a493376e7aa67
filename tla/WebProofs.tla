------------------------------ MODULE WebProofs ------------------------------
(***************************************************************************)
(* Proofs about Web, for any number of threads, addresses, accounts,       *)
(* requests and any lengths of windows, sessions and uploads: the limiters *)
(* are fair, sessions last as long as they should, and nothing of an       *)
(* earlier upload is left in a file.                                       *)
(***************************************************************************)
EXTENDS Web, FiniteSetTheorems, TLAPS

----------------------------------------------------------------------------
(* The parts of a state                                                    *)

\* What the steps need to know about the constants.
LEMMA Constants ==
    /\ Lifetime \in Nat /\ Period \in Nat
    /\ MaxRequests \in Nat /\ MaxRequests >= 1
    /\ Burst \in Nat /\ Burst = MaxRequests + MaxRequests
    /\ \A size \in Sizes : size \in Nat /\ size >= 1
    /\ Tokens \in Seq(STRING)
  BY WebAssumption DEF Lifetime, Period, Burst

\* Whole seconds: a window is over exactly when its period has passed.
LEMMA WindowTest ==
    ASSUME now \in Nat, NEW e, e.windowStart \in 0 .. now
    PROVE  WindowOver(e) <=> now - e.windowStart >= Period
<1>1. \A d \in Nat, T \in Nat \ {0}, w \in Nat : (d \div T >= w) <=> (d >= w * T)
  OBVIOUS
<1>2. now - e.windowStart \in Nat /\ Ticks \in Nat \ {0} /\ Window \in Nat
  BY WebAssumption
<1> QED
  BY <1>1, <1>2 DEF WindowOver, secsTo, Period

\* What the job of a thread consists of.
LEMMA JobFields ==
    ASSUME NEW j \in Jobs
    PROVE  /\ j.at \in {"validate", "name"} => j.req \in Lists \cup Uploads
           /\ j.at = "name" => j.since \in Nat /\ j.idle \in Nat
           /\ j.at \in {"body", "write"} => j.req \in Uploads
           /\ (j.at = "refused" /\ j.why = "rate") =>
                  j.limiter \in Limiters /\ j.addr \in Addrs /\ j.time \in Nat
           /\ (j.at = "refused" /\ j.why = "session") => j.idle \in Nat
  BY DEF Jobs, Free

\* What a request asks for.
LEMMA RequestFields ==
    /\ \A r \in Lists : r.route = "list" /\ r.token \in STRING
    /\ \A r \in Uploads : /\ r.route = "upload" /\ r.token \in STRING
                          /\ r.name \in Names /\ r.size \in Sizes /\ r.id \in Nat
  BY DEF Lists, Uploads

\* An entry is set in a table or taken out of it.
LEMMA Entries ==
    ASSUME NEW f, NEW x, NEW v
    PROVE  /\ DOMAIN Set(f, x, v) = DOMAIN f \cup {x} /\ Set(f, x, v)[x] = v
           /\ \A y \in DOMAIN f : y # x => Set(f, x, v)[y] = f[y]
           /\ DOMAIN Without(f, x) = DOMAIN f \ {x}
           /\ \A y \in DOMAIN f : y # x => Without(f, x)[y] = f[y]
  BY DEF Set, Without

\* A thread goes on to its next job, and no other thread does.
LEMMA Moved ==
    ASSUME TypeOK, NEW t \in Threads, NEW j, Go(t, j)
    PROVE  /\ job'[t] = j /\ \A u \in Threads : u # t => job'[u] = job[u]
           /\ j \in Jobs => job' \in [Threads -> Jobs]
  BY DEF TypeOK, Go

----------------------------------------------------------------------------
(* What a step leaves alone                                                *)

\* Sessions, for a step that touches none and neither finds nor misses one.
LEMMA SessionsKept ==
    ASSUME Inv, now' = now, m_sessions' = m_sessions, lastUse' = lastUse,
           \A t \in Threads : \/ job'[t] = job[t]
                              \/ job'[t].at \notin {"name", "refused"}
                              \/ job'[t].at = "refused" /\ job'[t].why = "rate"
    PROVE  SessionInv' /\ SessionsSlide'
<1>1. SessionInv'
  BY DEF Inv, SessionInv, Has
<1>2. SessionsSlide'
  BY DEF Inv, SessionsSlide
<1> QED
  BY <1>1, <1>2

\* Files, for a step that neither opens nor writes one.
LEMMA FilesKept ==
    ASSUME Inv, files' = files, sharing' = sharing /\ cut' = cut,
           \A t \in Threads : \/ job'[t] = job[t]
                              \/ job[t].at # "write" /\ job'[t].at # "write"
    PROVE  FilesInv' /\ FilesFresh'
<1>1. \A name : Writing(name)' = Writing(name)
  <2>1. \A t \in Threads : job'[t] = job[t] \/ (job[t].at # "write" /\ job'[t].at # "write")
    OBVIOUS
  <2>2. \A name : Writing(name)' = {job'[t].req : t \in {u \in Threads : job'[u].at = "write" /\ job'[u].req.name = name}}
    BY DEF Writing
  <2>3. ASSUME NEW name
        PROVE  {u \in Threads : job'[u].at = "write" /\ job'[u].req.name = name}
                   = {u \in Threads : job[u].at = "write" /\ job[u].req.name = name}
    BY <2>1
  <2>4. \A t \in Threads : job[t].at = "write" => job'[t].req = job[t].req
    BY <2>1
  <2> QED
    BY <2>2, <2>3, <2>4 DEF Writing
<1>2. FilesInv'
  BY <1>1 DEF Inv, FilesInv, Has
<1>3. FilesFresh'
  BY <1>1 DEF Inv, FilesFresh
<1> QED
  BY <1>2, <1>3

\* The limiters, for a step that does not ask them; time may pass.
LEMMA RatesKept ==
    ASSUME Inv, now' \in Nat, now' >= now, m_table' = m_table, passed' = passed,
           \A t \in Threads : \/ job'[t] = job[t]
                              \/ job'[t].at # "refused"
                              \/ job'[t].why # "rate"
    PROVE  WindowInv' /\ RefusalInv' /\ RateFair'
<1>1. WindowInv'
  <2>1. ASSUME NEW l \in Limiters, NEW a \in Addrs
        PROVE  Ordered(passed[l][a], now')
    <3>1. passed[l][a] \in Seq(Nat) /\ now \in Nat
      BY DEF Inv, TypeOK
    <3>2. \A j \in 1 .. Len(passed[l][a]) : passed[l][a][j] \in Nat
      BY <3>1
    <3> QED
      BY <3>1, <3>2 DEF Inv, WindowInv, Ordered
  <2>2. ASSUME NEW l \in Limiters, NEW a \in Addrs, Has(m_table[l], a)
        PROVE  InWindow(passed[l][a], m_table[l][a], now')
    <3>1. now \in Nat /\ InWindow(passed[l][a], m_table[l][a], now)
      BY <2>2 DEF Inv, TypeOK, WindowInv
    <3>2. [count : 1 .. MaxRequests, windowStart : 0 .. now]
              \subseteq [count : 1 .. MaxRequests, windowStart : 0 .. now']
      BY <3>1, Constants
    <3> QED
      BY <3>1, <3>2 DEF InWindow
  <2> QED
    BY <2>1, <2>2 DEF Inv, WindowInv, Has
<1>2. RefusalInv'
  BY DEF Inv, RefusalInv
<1>3. RateFair'
  BY DEF Inv, RateFair, AtMostTwice, RefusedWhenFull
<1> QED
  BY <1>1, <1>2, <1>3

----------------------------------------------------------------------------
(* Initially, and the clock                                                *)

\* Initially there is nothing.
LEMMA InitEstablishes == Init => Inv
<1> SUFFICES ASSUME Init PROVE Inv
  OBVIOUS
<1>1. /\ \A t \in Threads : job[t].at = "free"
      /\ \A l \in Limiters, a \in Addrs : passed[l][a] = <<>>
      /\ \A l \in Limiters : m_table[l] = <<>>
      /\ m_sessions = <<>> /\ lastUse = <<>> /\ files = <<>> /\ sharing = <<>>
  BY DEF Init, Free
<1>2. TypeOK
  BY <1>1 DEF Init, TypeOK, Jobs
<1>3. SessionInv /\ SessionsSlide
  BY <1>1 DEF SessionInv, SessionsSlide
<1>4. FilesInv /\ FilesFresh
  BY <1>1 DEF FilesInv, FilesFresh
<1>5. WindowInv /\ RefusalInv /\ RateFair
  BY <1>1 DEF WindowInv, Ordered, RefusalInv, RateFair, AtMostTwice, Spread, RefusedWhenFull, Has
<1> QED
  BY <1>2, <1>3, <1>4, <1>5 DEF Inv

\* Time passes: what has expired stays expired.
LEMMA TickStep ==
    ASSUME Inv, Tick
    PROVE  Inv'
<1>1. /\ now \in Nat /\ now' = now + 1 /\ m_table' = m_table /\ m_sessions' = m_sessions
      /\ files' = files /\ job' = job /\ jobs' = jobs /\ passed' = passed
      /\ lastUse' = lastUse /\ sharing' = sharing /\ cut' = cut
  BY DEF Tick, history, Inv, TypeOK
<1>2. TypeOK'
  BY <1>1 DEF Inv, TypeOK
<1>3. SessionInv'
  <2>1. \A k \in DOMAIN lastUse : /\ lastUse[k] \in 0 .. now'
                                  /\ now - lastUse[k] > Lifetime => now' - lastUse[k] > Lifetime
    BY <1>1, Constants DEF Inv, SessionInv
  <2> QED
    BY <1>1, <2>1 DEF Inv, SessionInv, Has
<1>4. SessionsSlide'
  BY <1>1 DEF Inv, SessionsSlide
<1>5. FilesInv' /\ FilesFresh'
  BY <1>1, FilesKept
<1>6. now' \in Nat /\ now' >= now
  BY <1>1
<1>7. WindowInv' /\ RefusalInv' /\ RateFair'
  BY <1>1, <1>6, RatesKept
<1> QED
  BY <1>2, <1>3, <1>4, <1>5, <1>7 DEF Inv

----------------------------------------------------------------------------
(* Sessions                                                                *)

\* A request without a limiter is taken up.
LEMMA ListStep ==
    ASSUME Inv, NEW t \in Threads, NEW token \in STRING, ListRoute(t, token)
    PROVE  Inv'
<1> DEFINE j == [at |-> "validate", req |-> [route |-> "list", token |-> token]]
<1>1. /\ now' = now /\ m_table' = m_table /\ m_sessions' = m_sessions /\ files' = files
      /\ passed' = passed /\ lastUse' = lastUse /\ sharing' = sharing /\ cut' = cut
      /\ jobs' = jobs + 1 /\ Go(t, j) /\ job[t] = Free
  BY DEF ListRoute, Take
<1>2. j \in Jobs /\ j.at = "validate" /\ Free.at = "free"
  BY DEF Jobs, Lists, Free
<1> HIDE DEF j
<1>3. /\ job'[t] = j /\ \A u \in Threads : u # t => job'[u] = job[u]
      /\ job' \in [Threads -> Jobs]
  BY <1>1, <1>2, Moved DEF Inv
<1>4. TypeOK'
  BY <1>1, <1>3 DEF Inv, TypeOK
<1>5. SessionInv' /\ SessionsSlide'
  BY <1>1, <1>2, <1>3, SessionsKept
<1>6. FilesInv' /\ FilesFresh'
  BY <1>1, <1>2, <1>3, FilesKept
<1>7. now \in Nat
  BY DEF Inv, TypeOK
<1>8. WindowInv' /\ RefusalInv' /\ RateFair'
  BY <1>1, <1>2, <1>3, <1>7, RatesKept
<1> QED
  BY <1>4, <1>5, <1>6, <1>8 DEF Inv

\* A thread is done with a request that is neither writing nor at a session.
LEMMA DoneStep ==
    ASSUME Inv, NEW t \in Threads, job[t].at # "write", Done(t),
           UNCHANGED <<now, m_table, m_sessions, files, history>>
    PROVE  Inv'
<1>1. /\ now' = now /\ m_table' = m_table /\ m_sessions' = m_sessions /\ files' = files
      /\ passed' = passed /\ lastUse' = lastUse /\ sharing' = sharing /\ cut' = cut /\ jobs' = jobs
      /\ Go(t, Free)
  BY DEF history, Done
<1>2. Free \in Jobs /\ Free.at = "free"
  BY DEF Jobs, Free
<1>3. /\ job'[t] = Free /\ \A u \in Threads : u # t => job'[u] = job[u]
      /\ job' \in [Threads -> Jobs]
  BY <1>1, <1>2, Moved DEF Inv
<1>4. TypeOK'
  BY <1>1, <1>3 DEF Inv, TypeOK
<1>5. SessionInv' /\ SessionsSlide'
  BY <1>1, <1>2, <1>3, SessionsKept
<1>6. FilesInv' /\ FilesFresh'
  BY <1>1, <1>2, <1>3, FilesKept
<1>7. now \in Nat
  BY DEF Inv, TypeOK
<1>8. WindowInv' /\ RefusalInv' /\ RateFair'
  BY <1>1, <1>2, <1>3, <1>7, RatesKept
<1> QED
  BY <1>4, <1>5, <1>6, <1>8 DEF Inv

\* A token is issued: its session lasts from now.
LEMMA LoginStep ==
    ASSUME Inv, NEW t \in Threads, Login(t)
    PROVE  Inv'
<1>1. /\ now' = now /\ m_table' = m_table /\ files' = files /\ job[t].at = "login"
      /\ passed' = passed /\ sharing' = sharing /\ cut' = cut /\ jobs' = jobs /\ Done(t)
  BY DEF Login
<1>2. CASE UNCHANGED <<m_sessions, lastUse>>
  BY <1>1, <1>2, DoneStep DEF history
<1>3. ASSUME NEW user \in Users, createSession(user)
      PROVE  Inv'
  <2> DEFINE token == Tokens[Cardinality(DOMAIN lastUse) + 1]
             s == [username |-> user, expires |-> now + Lifetime]
  <2>1. m_sessions' = Set(m_sessions, token, s) /\ lastUse' = Set(lastUse, token, now)
    BY <1>3 DEF createSession
  <2>2. now \in Nat /\ Lifetime \in Nat /\ s \in [username : Users, expires : Nat]
        /\ s.expires = now + Lifetime
    BY Constants DEF Inv, TypeOK
  <2> HIDE DEF token, s
  <2>3. /\ DOMAIN m_sessions' = DOMAIN m_sessions \cup {token} /\ m_sessions'[token] = s
        /\ \A y \in DOMAIN m_sessions : y # token => m_sessions'[y] = m_sessions[y]
        /\ DOMAIN lastUse' = DOMAIN lastUse \cup {token} /\ lastUse'[token] = now
        /\ \A y \in DOMAIN lastUse : y # token => lastUse'[y] = lastUse[y]
    BY <2>1 DEF Set
  <2>4. Free \in Jobs /\ Free.at = "free"
    BY DEF Jobs, Free
  <2>5. /\ job'[t] = Free /\ \A u \in Threads : u # t => job'[u] = job[u]
        /\ job' \in [Threads -> Jobs]
    BY <1>1, <2>4, Moved DEF Inv, Done
  <2>6. TypeOK'
    BY <1>1, <2>2, <2>3, <2>5 DEF Inv, TypeOK
  <2>7. SessionInv'
    <3>1. DOMAIN m_sessions' \subseteq DOMAIN lastUse'
      BY <2>3 DEF Inv, SessionInv
    <3>2. ASSUME NEW k \in DOMAIN lastUse'
          PROVE  /\ lastUse'[k] \in 0 .. now
                 /\ IF k \in DOMAIN m_sessions' THEN m_sessions'[k].expires = lastUse'[k] + Lifetime
                    ELSE now - lastUse'[k] > Lifetime
      <4>1. CASE k = token
        BY <2>2, <2>3, <4>1
      <4>2. CASE k # token
        BY <2>3, <4>2 DEF Inv, SessionInv, Has
      <4> QED
        BY <4>1, <4>2
    <3>3. ASSUME NEW u \in Threads, job'[u].at = "name"
          PROVE  /\ job'[u].req.token \in DOMAIN lastUse'
                 /\ job'[u].since <= lastUse'[job'[u].req.token]
      <4>1. u # t /\ job'[u] = job[u]
        BY <2>4, <2>5, <3>3
      <4>2. /\ job[u].req.token \in DOMAIN lastUse /\ job[u].since <= lastUse[job[u].req.token]
            /\ lastUse[job[u].req.token] \in 0 .. now
        BY <3>3, <4>1 DEF Inv, SessionInv, Has
      <4>3. job[u].since \in Nat
        BY <3>3, <4>1, JobFields DEF Inv, TypeOK
      <4> QED
        BY <2>2, <2>3, <4>1, <4>2, <4>3
    <3> QED
      BY <1>1, <3>1, <3>2, <3>3 DEF SessionInv, Has
  <2>8. SessionsSlide'
    BY <2>4, <2>5 DEF Inv, SessionsSlide
  <2>9. FilesInv' /\ FilesFresh'
    BY <1>1, <2>4, <2>5, FilesKept
  <2>10. WindowInv' /\ RefusalInv' /\ RateFair'
    BY <1>1, <2>2, <2>4, <2>5, RatesKept
  <2> QED
    BY <2>6, <2>7, <2>8, <2>9, <2>10 DEF Inv
<1> QED
  BY <1>2, <1>3 DEF Login

\* validateToken accepts a token that was used within its lifetime and renews it;
\* it refuses one that was not, and forgets its session.
LEMMA ValidateStep ==
    ASSUME Inv, NEW t \in Threads, validateToken(t)
    PROVE  Inv'
<1> DEFINE token == job[t].req.token
           ok == token \in DOMAIN m_sessions /\ ~(m_sessions[token].expires < now)
           idle == IF token \in DOMAIN lastUse THEN now - lastUse[token] ELSE Lifetime + 1
           good == [at |-> "name", req |-> job[t].req, since |-> now, idle |-> idle]
<1>1. /\ now' = now /\ m_table' = m_table /\ files' = files /\ job[t].at = "validate"
      /\ passed' = passed /\ sharing' = sharing /\ cut' = cut /\ jobs' = jobs
      /\ m_sessions' = IF ok THEN [m_sessions EXCEPT ![token].expires = now + Lifetime]
                       ELSE Without(m_sessions, token)
      /\ lastUse' = IF ok THEN Set(lastUse, token, now) ELSE lastUse
      /\ Go(t, IF ok THEN good ELSE NoSession(idle))
  BY DEF validateToken, Has, Expired
<1>2. now \in Nat /\ Lifetime \in Nat /\ job[t] \in Jobs
  BY Constants DEF Inv, TypeOK
<1>3. \A k \in DOMAIN lastUse :
          /\ lastUse[k] \in 0 .. now
          /\ IF k \in DOMAIN m_sessions THEN m_sessions[k].expires = lastUse[k] + Lifetime
             ELSE now - lastUse[k] > Lifetime
  BY DEF Inv, SessionInv, Has
<1>4. DOMAIN m_sessions \subseteq DOMAIN lastUse
  BY DEF Inv, SessionInv
<1>5. idle \in Nat /\ (ok => idle <= Lifetime) /\ (~ok => idle > Lifetime)
  BY <1>2, <1>3, <1>4
<1>6. job[t].req \in Lists \cup Uploads
  BY <1>1, <1>2, JobFields
<1>7. /\ good \in Jobs /\ good.at = "name" /\ good.req.token = token /\ good.since = now
      /\ good.idle = idle
  <2> HIDE DEF idle
  <2> QED
    BY <1>2, <1>5, <1>6 DEF Jobs
<1>8. /\ NoSession(idle) \in Jobs /\ NoSession(idle).at = "refused"
      /\ NoSession(idle).why = "session" /\ NoSession(idle).idle = idle
  <2> HIDE DEF idle
  <2> QED
    BY <1>5 DEF Jobs, NoSession
<1>9. /\ IF ok THEN job'[t] = good ELSE job'[t] = NoSession(idle)
      /\ \A u \in Threads : u # t => job'[u] = job[u]
      /\ job' \in [Threads -> Jobs]
  <2> DEFINE j == IF ok THEN good ELSE NoSession(idle)
  <2> HIDE DEF good, idle, ok
  <2>1. j \in Jobs /\ Go(t, j)
    BY <1>1, <1>7, <1>8
  <2>2. job'[t] = j /\ job' \in [Threads -> Jobs] /\ \A u \in Threads : u # t => job'[u] = job[u]
    <3> HIDE DEF j
    <3> QED
      BY <2>1, Moved DEF Inv
  <2> QED
    BY <2>2
<1>10. /\ ok => /\ DOMAIN m_sessions' = DOMAIN m_sessions
                /\ m_sessions'[token] = [m_sessions[token] EXCEPT !.expires = now + Lifetime]
                /\ \A y \in DOMAIN m_sessions : y # token => m_sessions'[y] = m_sessions[y]
                /\ DOMAIN lastUse' = DOMAIN lastUse /\ lastUse'[token] = now
                /\ \A y \in DOMAIN lastUse : y # token => lastUse'[y] = lastUse[y]
       /\ ~ok => /\ DOMAIN m_sessions' = DOMAIN m_sessions \ {token}
                 /\ \A y \in DOMAIN m_sessions : y # token => m_sessions'[y] = m_sessions[y]
                 /\ lastUse' = lastUse
  <2>1. CASE ok
    <3>1. token \in DOMAIN m_sessions /\ token \in DOMAIN lastUse
      BY <2>1, <1>4
    <3>2. /\ m_sessions' = [m_sessions EXCEPT ![token].expires = now + Lifetime]
          /\ lastUse' = Set(lastUse, token, now)
      BY <2>1, <1>1
    <3> HIDE DEF token
    <3> QED
      BY <2>1, <3>1, <3>2 DEF Set
  <2>2. CASE ~ok
    <3>1. m_sessions' = Without(m_sessions, token) /\ lastUse' = lastUse
      BY <2>2, <1>1
    <3> HIDE DEF token
    <3> QED
      BY <2>2, <3>1 DEF Without
  <2> QED
    BY <2>1, <2>2
<1>11. ok => /\ token \in DOMAIN m_sessions
             /\ m_sessions[token] \in [username : Users, expires : Nat]
  BY DEF Inv, TypeOK
<1>12. ok => /\ m_sessions'[token] \in [username : Users, expires : Nat]
             /\ m_sessions'[token].expires = now + Lifetime
  <2> HIDE DEF token, ok
  <2> QED
    BY <1>2, <1>10, <1>11
<1>13. ~ok => (token \in DOMAIN lastUse => now - lastUse[token] > Lifetime)
  BY <1>2, <1>3, <1>4
<1> HIDE DEF token, ok, good, idle
<1>14. TypeOK'
  <2>1. \A k \in DOMAIN m_sessions' : m_sessions'[k] \in [username : Users, expires : Nat]
    BY <1>10, <1>12 DEF Inv, TypeOK
  <2> QED
    BY <1>1, <1>9, <2>1 DEF Inv, TypeOK
<1>15. SessionInv'
  <2>1. DOMAIN m_sessions' \subseteq DOMAIN lastUse'
    BY <1>4, <1>10
  <2>2. ASSUME NEW k \in DOMAIN lastUse'
        PROVE  /\ lastUse'[k] \in 0 .. now
               /\ IF k \in DOMAIN m_sessions' THEN m_sessions'[k].expires = lastUse'[k] + Lifetime
                  ELSE now - lastUse'[k] > Lifetime
    <3>1. CASE k = token /\ ok
      BY <1>2, <1>10, <1>11, <1>12, <3>1
    <3>2. CASE k = token /\ ~ok
      BY <1>3, <1>10, <1>13, <3>2
    <3>3. CASE k # token
      BY <1>3, <1>10, <3>3
    <3> QED
      BY <3>1, <3>2, <3>3
  <2>3. ASSUME NEW u \in Threads, job'[u].at = "name"
        PROVE  /\ job'[u].req.token \in DOMAIN lastUse'
               /\ job'[u].since <= lastUse'[job'[u].req.token]
    <3>1. CASE u = t
      <4>1. ok /\ job'[u] = good
        BY <1>8, <1>9, <2>3, <3>1
      <4> QED
        BY <1>2, <1>4, <1>7, <1>10, <1>11, <4>1
    <3>2. CASE u # t
      <4>1. job'[u] = job[u] /\ job[u].at = "name"
        BY <1>9, <2>3, <3>2
      <4>2. /\ job[u].req.token \in DOMAIN lastUse /\ job[u].since <= lastUse[job[u].req.token]
        BY <4>1 DEF Inv, SessionInv, Has
      <4>3. job[u].since \in Nat
        BY <4>1, JobFields DEF Inv, TypeOK
      <4>4. lastUse[job[u].req.token] \in 0 .. now
        BY <1>3, <4>2
      <4> QED
        BY <1>2, <1>10, <4>1, <4>2, <4>3, <4>4
    <3> QED
      BY <3>1, <3>2
  <2> QED
    BY <1>1, <2>1, <2>2, <2>3 DEF SessionInv, Has
<1>16. SessionsSlide'
  <2> SUFFICES ASSUME NEW u \in Threads
               PROVE  /\ job'[u].at = "name" => job'[u].idle <= Lifetime
                      /\ job'[u].at = "refused" /\ job'[u].why = "session" =>
                             job'[u].idle > Lifetime
    BY DEF SessionsSlide
  <2>1. CASE u = t
    BY <1>5, <1>7, <1>8, <1>9, <2>1
  <2>2. CASE u # t
    BY <1>9, <2>2 DEF Inv, SessionsSlide
  <2> QED
    BY <2>1, <2>2
<1>17. job[t].at # "write" /\ job'[t].at # "write"
       /\ (job'[t].at # "refused" \/ job'[t].why # "rate")
  BY <1>1, <1>7, <1>8, <1>9
<1>18. FilesInv' /\ FilesFresh'
  BY <1>1, <1>9, <1>17, FilesKept
<1>19. WindowInv' /\ RefusalInv' /\ RateFair'
  BY <1>1, <1>2, <1>9, <1>17, RatesKept
<1> QED
  BY <1>14, <1>15, <1>16, <1>18, <1>19 DEF Inv

\* usernameForToken misses a session only if it was erased meanwhile: it had expired,
\* though it was renewed when the request was validated.
LEMMA NameStep ==
    ASSUME Inv, NEW t \in Threads, usernameForToken(t)
    PROVE  Inv'
<1> DEFINE j == job[t]
           k == j.req.token
           idle == now - j.since
           on == [at |-> "body", req |-> j.req]
<1>1. /\ now' = now /\ m_table' = m_table /\ m_sessions' = m_sessions /\ files' = files
      /\ passed' = passed /\ lastUse' = lastUse /\ sharing' = sharing /\ cut' = cut /\ jobs' = jobs
      /\ j.at = "name"
  BY DEF usernameForToken, history
<1>2. PICK to :
          /\ Go(t, to)
          /\ \/ k \notin DOMAIN m_sessions /\ to = NoSession(idle)
             \/ to = Free
             \/ j.req.route # "list" /\ to = on
  BY DEF usernameForToken, Has
<1>3. now \in Nat /\ Lifetime \in Nat /\ j \in Jobs
  BY Constants DEF Inv, TypeOK
<1>4. j.req \in Lists \cup Uploads /\ j.since \in Nat
  BY <1>1, <1>3, JobFields
<1>5. /\ k \in DOMAIN lastUse /\ j.since <= lastUse[k] /\ lastUse[k] \in 0 .. now
      /\ k \notin DOMAIN m_sessions => now - lastUse[k] > Lifetime
  BY <1>1 DEF Inv, SessionInv, Has
<1>6. idle \in Nat /\ (k \notin DOMAIN m_sessions => idle > Lifetime)
  <2>1. ASSUME NEW x \in 0 .. now, j.since <= x
        PROVE  now - j.since \in Nat /\ now - j.since >= now - x
    BY <1>3, <1>4, <2>1
  <2>2. now - lastUse[k] \in Nat
    BY <1>3, <1>5
  <2> QED
    BY <1>3, <1>5, <2>1, <2>2
<1>7. /\ NoSession(idle) \in Jobs /\ NoSession(idle).at = "refused"
      /\ NoSession(idle).why = "session" /\ NoSession(idle).idle = idle
  <2> HIDE DEF idle
  <2> QED
    BY <1>6 DEF Jobs, NoSession
<1>8. j.req.route # "list" => on \in Jobs /\ on.at = "body"
  <2>1. j.req.route # "list" => j.req \in Uploads
    BY <1>4, RequestFields
  <2> HIDE DEF j
  <2> QED
    BY <2>1 DEF Jobs
<1>9. Free \in Jobs /\ Free.at = "free"
  BY DEF Jobs, Free
<1> HIDE DEF j, k, idle, on
<1>10. /\ job'[t] = to /\ \A u \in Threads : u # t => job'[u] = job[u]
       /\ job' \in [Threads -> Jobs]
  BY <1>2, <1>7, <1>8, <1>9, Moved DEF Inv
<1>11. /\ to.at \in {"free", "body", "refused"}
       /\ to.at = "refused" => to.why = "session" /\ to.idle > Lifetime
  BY <1>2, <1>6, <1>7, <1>8, <1>9
<1>12. TypeOK'
  BY <1>1, <1>10 DEF Inv, TypeOK
<1>13. SessionInv'
  <2>1. \A u \in Threads : job'[u].at = "name" => job'[u] = job[u]
    BY <1>10, <1>11
  <2> QED
    BY <1>1, <2>1 DEF Inv, SessionInv, Has
<1>14. SessionsSlide'
  <2> SUFFICES ASSUME NEW u \in Threads
               PROVE  /\ job'[u].at = "name" => job'[u].idle <= Lifetime
                      /\ job'[u].at = "refused" /\ job'[u].why = "session" =>
                             job'[u].idle > Lifetime
    BY DEF SessionsSlide
  <2>1. CASE u = t
    BY <1>10, <1>11, <2>1
  <2>2. CASE u # t
    BY <1>10, <2>2 DEF Inv, SessionsSlide
  <2> QED
    BY <2>1, <2>2
<1>15. FilesInv' /\ FilesFresh'
  BY <1>1, <1>10, <1>11, FilesKept DEF j
<1>16. WindowInv' /\ RefusalInv' /\ RateFair'
  BY <1>1, <1>3, <1>10, <1>11, RatesKept
<1> QED
  BY <1>12, <1>13, <1>14, <1>15, <1>16 DEF Inv

----------------------------------------------------------------------------
(* Uploads                                                                 *)

\* A file is emptied and shared by its new writer and those that have it open.
LEMMA OpenStep ==
    ASSUME Inv, NEW t \in Threads, OpenFile(t)
    PROVE  Inv'
<1>0. PICK r, name : r = job[t].req /\ name = r.name
  OBVIOUS
<1> DEFINE j == [at |-> "write", req |-> r]
<1>1. /\ now' = now /\ m_table' = m_table /\ m_sessions' = m_sessions /\ jobs' = jobs
      /\ passed' = passed /\ lastUse' = lastUse /\ cut' = cut /\ job[t].at = "body"
      /\ files' = Set(files, name, <<>>) /\ Go(t, j)
      /\ sharing' = Set(sharing, name, Writing(name) \cup {r})
  BY <1>0 DEF OpenFile, Opened
<1>2. job[t] \in Jobs /\ now \in Nat
  BY DEF Inv, TypeOK
<1>3. r \in Uploads /\ r.size \in Nat
  BY <1>0, <1>1, <1>2, JobFields, RequestFields, Constants
<1>4. j \in Jobs /\ j.at = "write" /\ j.req = r
  BY <1>3 DEF Jobs
<1> HIDE DEF j
<1>5. /\ job'[t] = j /\ \A u \in Threads : u # t => job'[u] = job[u]
      /\ job' \in [Threads -> Jobs]
  BY <1>1, <1>4, Moved DEF Inv
<1>6. /\ DOMAIN files' = DOMAIN files \cup {name} /\ files'[name] = <<>>
      /\ \A y \in DOMAIN files : y # name => files'[y] = files[y]
      /\ DOMAIN sharing' = DOMAIN sharing \cup {name}
      /\ sharing'[name] = Writing(name) \cup {r}
      /\ \A y \in DOMAIN sharing : y # name => sharing'[y] = sharing[y]
  BY <1>1 DEF Set
<1>7. r \in Writing(name)' /\ \A n : n # name => Writing(n)' = Writing(n)
  <2>1. \A n : Writing(n)' = {job'[u].req : u \in {v \in Threads : job'[v].at = "write" /\ job'[v].req.name = n}}
    BY DEF Writing
  <2>2. r \in Writing(name)'
    BY <1>0, <1>4, <1>5, <2>1
  <2>3. ASSUME NEW n, n # name PROVE Writing(n)' = Writing(n)
    <3>1. \A u \in Threads : (job'[u].at = "write" /\ job'[u].req.name = n) <=>
              (job[u].at = "write" /\ job[u].req.name = n)
      BY <1>0, <1>1, <1>4, <1>5, <2>3
    <3>2. \A u \in Threads : (job[u].at = "write" /\ job[u].req.name = n) => job'[u] = job[u]
      BY <1>1, <1>5
    <3> QED
      BY <2>1, <3>1, <3>2 DEF Writing
  <2> QED
    BY <2>2, <2>3
<1>8. TypeOK'
  BY <1>1, <1>5 DEF Inv, TypeOK
<1>9. SessionInv' /\ SessionsSlide'
  BY <1>1, <1>4, <1>5, SessionsKept
<1>10. WindowInv' /\ RefusalInv' /\ RateFair'
  BY <1>1, <1>2, <1>4, <1>5, RatesKept
<1>11. FilesInv'
  <2>1. DOMAIN sharing' = DOMAIN files'
    BY <1>6 DEF Inv, FilesInv
  <2>2. ASSUME NEW u \in Threads, job'[u].at = "write"
        PROVE  /\ job'[u].req.name \in DOMAIN files'
               /\ job'[u].req \in sharing'[job'[u].req.name]
    <3>1. CASE u = t
      BY <1>0, <1>4, <1>5, <1>6, <3>1
    <3>2. CASE u # t
      <4>1. job'[u] = job[u]
        BY <1>5, <3>2
      <4>2. job[u].req.name \in DOMAIN files /\ job[u].req \in sharing[job[u].req.name]
        BY <2>2, <4>1 DEF Inv, FilesInv, Has
      <4>3. job[u].req.name = name => job[u].req \in Writing(name)
        BY <2>2, <4>1 DEF Writing
      <4> QED
        BY <1>6, <4>1, <4>2, <4>3 DEF Inv, FilesInv
    <3> QED
      BY <3>1, <3>2
  <2>3. ASSUME NEW n \in DOMAIN files'
        PROVE  /\ files'[n] \in Seq(Nat) /\ sharing'[n] \subseteq Uploads
               /\ \A q \in sharing'[n] : sharing'[n] = {q} => Len(files'[n]) <= q.size
    <3>1. CASE n = name
      <4>1. Writing(name) \subseteq Uploads
        BY JobFields DEF Writing, Inv, TypeOK
      <4>2. \A q \in Uploads : q.size \in Nat
        BY RequestFields, Constants
      <4> QED
        BY <1>3, <1>6, <3>1, <4>1, <4>2
    <3>2. CASE n # name
      BY <1>6, <3>2 DEF Inv, FilesInv
    <3> QED
      BY <3>1, <3>2
  <2> QED
    BY <2>1, <2>2, <2>3 DEF FilesInv, Has
<1>12. FilesFresh'
  <2> SUFFICES ASSUME NEW n \in DOMAIN files'
               PROVE  /\ \A k \in DOMAIN files'[n] : files'[n][k] \in {q.id : q \in sharing'[n]}
                      /\ \A q \in sharing'[n] : sharing'[n] = {q} /\ Writing(n)' = {} /\ q \notin cut' =>
                             Len(files'[n]) = q.size
    BY DEF FilesFresh
  <2>1. CASE n = name
    BY <1>6, <1>7, <2>1
  <2>2. CASE n # name
    <3>1. n \in DOMAIN files /\ Writing(n)' = Writing(n) /\ files'[n] = files[n] /\ sharing'[n] = sharing[n]
      BY <1>6, <1>7, <2>2 DEF Inv, FilesInv
    <3> QED
      BY <1>1, <3>1 DEF Inv, FilesFresh
  <2> QED
    BY <2>1, <2>2
<1> QED
  BY <1>8, <1>9, <1>10, <1>11, <1>12 DEF Inv

\* A writer leaves bytes of its own and those of the ones it shares the file with.
LEMMA WriteStep ==
    ASSUME Inv, NEW t \in Threads, WriteFile(t)
    PROVE  Inv'
<1>0. PICK r, name : r = job[t].req /\ name = r.name
  OBVIOUS
<1>1. PICK m \in 0 .. r.size :
          /\ files' = [files EXCEPT ![name] = Overwritten(@, r.id, m)]
          /\ cut' = IF m < r.size THEN cut \cup {r} ELSE cut
  BY <1>0 DEF WriteFile
<1>2. /\ now' = now /\ m_table' = m_table /\ m_sessions' = m_sessions /\ jobs' = jobs
      /\ passed' = passed /\ lastUse' = lastUse /\ sharing' = sharing /\ job[t].at = "write"
      /\ Go(t, Free) /\ job[t] \in Jobs /\ now \in Nat
  BY DEF WriteFile, Done, Inv, TypeOK
<1>3. r \in Uploads /\ r.size \in Nat /\ r.id \in Nat
  BY <1>0, <1>2, JobFields, RequestFields, Constants
<1>4. /\ name \in DOMAIN files /\ r \in sharing[name] /\ files[name] \in Seq(Nat)
      /\ \A q \in sharing[name] : sharing[name] = {q} => Len(files[name]) <= q.size
  BY <1>0, <1>2 DEF Inv, FilesInv, Has
<1>5. PICK old, new : old = files[name] /\ new = Overwritten(old, r.id, m)
  OBVIOUS
<1>6. /\ new \in Seq(Nat) /\ Len(new) = IF Len(old) > m THEN Len(old) ELSE m
      /\ \A k \in 1 .. Len(new) : new[k] = r.id \/ (k \in 1 .. Len(old) /\ new[k] = old[k])
  <2>1. old \in Seq(Nat) /\ m \in Nat /\ Len(old) \in Nat
    BY <1>3, <1>4, <1>5
  <2> DEFINE len == IF Len(old) > m THEN Len(old) ELSE m
  <2>2. len \in Nat
    BY <2>1
  <2>3. new = [k \in 1 .. len |-> IF k <= m THEN r.id ELSE old[k]]
    BY <1>5 DEF Overwritten
  <2>4. \A k \in 1 .. len : k > m => k \in 1 .. Len(old)
    BY <2>1
  <2> HIDE DEF len
  <2>5. \A k \in 1 .. len : new[k] \in Nat
    BY <1>3, <2>1, <2>3, <2>4
  <2>6. new \in Seq(Nat) /\ Len(new) = len
    BY <2>2, <2>3, <2>5
  <2>7. \A k \in 1 .. len : new[k] = r.id \/ (k \in 1 .. Len(old) /\ new[k] = old[k])
    BY <2>1, <2>2, <2>3, <2>4
  <2> QED
    BY <2>6, <2>7 DEF len
<1>7. /\ DOMAIN files' = DOMAIN files /\ files'[name] = new
      /\ \A y \in DOMAIN files : y # name => files'[y] = files[y]
  BY <1>1, <1>4, <1>5
<1>8. Free \in Jobs /\ Free.at = "free"
  BY DEF Jobs, Free
<1>9. /\ job'[t] = Free /\ \A u \in Threads : u # t => job'[u] = job[u]
      /\ job' \in [Threads -> Jobs]
  BY <1>2, <1>8, Moved DEF Inv
<1>10. \A n : n # name => Writing(n)' = Writing(n)
  <2>1. \A n : Writing(n)' = {job'[u].req : u \in {v \in Threads : job'[v].at = "write" /\ job'[v].req.name = n}}
    BY DEF Writing
  <2> SUFFICES ASSUME NEW n, n # name PROVE Writing(n)' = Writing(n)
    OBVIOUS
  <2>2. \A u \in Threads : (job'[u].at = "write" /\ job'[u].req.name = n) <=>
            (job[u].at = "write" /\ job[u].req.name = n)
    BY <1>0, <1>8, <1>9
  <2>3. \A u \in Threads : (job[u].at = "write" /\ job[u].req.name = n) => job'[u] = job[u]
    BY <1>0, <1>9
  <2> QED
    BY <2>1, <2>2, <2>3 DEF Writing
<1>11. TypeOK'
  BY <1>2, <1>9 DEF Inv, TypeOK
<1>12. SessionInv' /\ SessionsSlide'
  BY <1>2, <1>8, <1>9, SessionsKept
<1>13. WindowInv' /\ RefusalInv' /\ RateFair'
  BY <1>2, <1>8, <1>9, RatesKept
<1>14. FilesInv'
  <2>1. ASSUME NEW u \in Threads, job'[u].at = "write"
        PROVE  /\ job'[u].req.name \in DOMAIN files'
               /\ job'[u].req \in sharing'[job'[u].req.name]
    BY <1>2, <1>7, <1>8, <1>9, <2>1 DEF Inv, FilesInv, Has
  <2>2. ASSUME NEW n \in DOMAIN files'
        PROVE  /\ files'[n] \in Seq(Nat) /\ sharing'[n] \subseteq Uploads
               /\ \A q \in sharing'[n] : sharing'[n] = {q} => Len(files'[n]) <= q.size
    <3>1. CASE n = name
      <4>1. sharing[name] \subseteq Uploads
        BY <1>4 DEF Inv, FilesInv
      <4>2. ASSUME NEW q \in sharing[name], sharing[name] = {q} PROVE Len(new) <= q.size
        <5>1. q = r
          BY <1>4, <4>2
        <5> QED
          BY <1>1, <1>3, <1>4, <1>5, <1>6, <4>2, <5>1
      <4> QED
        BY <1>2, <1>6, <1>7, <3>1, <4>1, <4>2
    <3>2. CASE n # name
      BY <1>2, <1>7, <3>2 DEF Inv, FilesInv
    <3> QED
      BY <3>1, <3>2
  <2>3. DOMAIN sharing' = DOMAIN files'
    BY <1>2, <1>7 DEF Inv, FilesInv
  <2>4. \A u \in Threads : job'[u].at = "write" =>
            job'[u].req.name \in DOMAIN files' /\ job'[u].req \in sharing'[job'[u].req.name]
    BY <2>1
  <2> QED
    BY <2>2, <2>3, <2>4 DEF FilesInv, Has
<1>15. FilesFresh'
  <2> SUFFICES ASSUME NEW n \in DOMAIN files'
               PROVE  /\ \A k \in DOMAIN files'[n] : files'[n][k] \in {q.id : q \in sharing'[n]}
                      /\ \A q \in sharing'[n] : sharing'[n] = {q} /\ Writing(n)' = {} /\ q \notin cut' =>
                             Len(files'[n]) = q.size
    BY DEF FilesFresh
  <2>1. CASE n = name
    <3>1. \A k \in DOMAIN old : old[k] \in {q.id : q \in sharing[name]}
      BY <1>4, <1>5 DEF Inv, FilesFresh
    <3>2. ASSUME NEW k \in DOMAIN new PROVE new[k] \in {q.id : q \in sharing[name]}
      <4>1. r.id \in {q.id : q \in sharing[name]}
        BY <1>4
      <4>2. k \in 1 .. Len(new) /\ DOMAIN old = 1 .. Len(old)
        BY <1>4, <1>5, <1>6
      <4> QED
        BY <1>6, <3>1, <4>1, <4>2
    <3>3. ASSUME NEW q \in sharing[name], sharing[name] = {q}, q \notin cut'
          PROVE  Len(new) = q.size
      <4>1. q = r
        BY <1>4, <3>3
      <4>2. m = r.size
        BY <1>1, <1>3, <3>3, <4>1
      <4>3. Len(old) <= r.size /\ Len(old) \in Nat
        BY <1>4, <1>5, <3>3, <4>1
      <4> QED
        BY <1>3, <1>6, <4>1, <4>2, <4>3
    <3> QED
      BY <1>2, <1>7, <2>1, <3>2, <3>3
  <2>2. CASE n # name
    <3>1. n \in DOMAIN files /\ Writing(n)' = Writing(n) /\ files'[n] = files[n] /\ sharing'[n] = sharing[n]
      BY <1>2, <1>7, <1>10, <2>2
    <3>2. cut \subseteq cut'
      BY <1>1
    <3> QED
      BY <3>1, <3>2 DEF Inv, FilesFresh
  <2> QED
    BY <2>1, <2>2
<1> QED
  BY <1>11, <1>12, <1>13, <1>14, <1>15 DEF Inv
----------------------------------------------------------------------------
(* The limiters                                                            *)

\* A request is let through now.
LEMMA LetThrough ==
    ASSUME NEW times \in Seq(Nat), NEW time \in Nat, Ordered(times, time)
    PROVE  LET more == Append(times, time) IN
           /\ more \in Seq(Nat) /\ Len(more) = Len(times) + 1 /\ Len(times) \in Nat
           /\ more[Len(times) + 1] = time
           /\ \A i \in 1 .. Len(times) : more[i] = times[i] /\ more[i] \in Nat /\ more[i] <= time
           /\ Ordered(more, time)
<1> DEFINE more == Append(times, time)
<1>1. /\ more \in Seq(Nat) /\ Len(more) = Len(times) + 1 /\ Len(times) \in Nat
      /\ more[Len(times) + 1] = time
      /\ \A i \in 1 .. Len(times) : more[i] = times[i] /\ times[i] \in Nat
  OBVIOUS
<1>2. \A i \in 1 .. Len(times) : times[i] <= time
  BY <1>1 DEF Ordered
<1> HIDE DEF more
<1>3. Ordered(more, time)
  <2> SUFFICES ASSUME NEW i \in 1 .. Len(more), NEW j \in 1 .. Len(more), i <= j
               PROVE  more[i] <= more[j] /\ more[j] <= time
    BY DEF Ordered
  <2>1. CASE j = Len(times) + 1
    BY <1>1, <1>2, <2>1
  <2>2. CASE j # Len(times) + 1
    <3>1. i \in 1 .. Len(times) /\ j \in 1 .. Len(times)
      BY <1>1, <2>2
    <3>2. times[i] <= times[j] /\ times[j] <= time
      BY <3>1 DEF Ordered
    <3> QED
      BY <1>1, <3>1, <3>2
  <2> QED
    BY <2>1, <2>2
<1> QED
  BY <1>1, <1>2, <1>3 DEF more

\* A new request keeps the requests spread out if the one before it by twice the
\* limit is a period old.
LEMMA SpreadOn ==
    ASSUME NEW times \in Seq(Nat), NEW time \in Nat, Spread(times),
           NEW n, n = Len(times) + 1, n > Burst => time - times[n - Burst] >= Period
    PROVE  Spread(Append(times, time))
<1> DEFINE more == Append(times, time)
<1>1. /\ more \in Seq(Nat) /\ Len(more) = n /\ n \in Nat /\ more[n] = time
      /\ \A i \in 1 .. Len(times) : more[i] = times[i]
      /\ DOMAIN more = 1 .. n /\ DOMAIN times = 1 .. Len(times) /\ Len(times) \in Nat
  OBVIOUS
<1>2. Burst \in Nat /\ Burst >= 1
  BY Constants
<1>3. \A k \in 1 .. Len(times) : k > Burst => times[k] - times[k - Burst] >= Period
  BY <1>1 DEF Spread
<1> HIDE DEF more
<1> SUFFICES ASSUME NEW k \in 1 .. n, k > Burst PROVE more[k] - more[k - Burst] >= Period
  BY <1>1 DEF Spread, more
<1>4. k - Burst \in 1 .. Len(times)
  BY <1>1, <1>2
<1>5. CASE k = n
  <2>1. time - times[n - Burst] >= Period
    BY <1>5
  <2>2. more[k] = time /\ more[k - Burst] = times[n - Burst]
    BY <1>1, <1>4, <1>5
  <2> QED
    BY <2>1, <2>2
<1>6. CASE k # n
  <2>1. k \in 1 .. Len(times)
    BY <1>1, <1>6
  <2>2. times[k] - times[k - Burst] >= Period
    BY <1>3, <2>1
  <2>3. more[k] = times[k] /\ more[k - Burst] = times[k - Burst]
    BY <1>1, <1>4, <2>1
  <2> QED
    BY <2>2, <2>3
<1> QED
  BY <1>5, <1>6

\* A request opens a window: the first of its address, or the last window is over.
LEMMA OpensWindow ==
    ASSUME NEW times \in Seq(Nat), NEW time \in Nat, Ordered(times, time), Spread(times), NEW e,
           times = <<>> \/ (InWindow(times, e, time) /\ time - e.windowStart >= Period)
    PROVE  /\ InWindow(Append(times, time), [count |-> 1, windowStart |-> time], time)
           /\ Spread(Append(times, time))
<1>0. PICK n : n = Len(times) + 1
  OBVIOUS
<1> DEFINE more == Append(times, time)
           fresh == [count |-> 1, windowStart |-> time]
<1>1. /\ Len(more) = n /\ Len(times) \in Nat /\ more[n] = time
      /\ \A i \in 1 .. Len(times) : more[i] = times[i] /\ times[i] \in Nat
  BY <1>0, LetThrough
<1>2. /\ MaxRequests \in Nat /\ MaxRequests >= 1 /\ Period \in Nat
      /\ Burst \in Nat /\ Burst = MaxRequests + MaxRequests
  BY Constants
<1>3. \A i \in 1 .. n - MaxRequests : i \in 1 .. Len(times) /\ time - times[i] >= Period
  <2> TAKE i \in 1 .. n - MaxRequests
  <2>1. i \in 1 .. Len(times)
    BY <1>1, <1>2
  <2>2. CASE times = <<>>
    BY <2>1, <2>2
  <2>3. CASE InWindow(times, e, time) /\ time - e.windowStart >= Period
    <3> DEFINE first == Len(times) - e.count + 1
    <3>1. /\ e.count \in 1 .. MaxRequests /\ e.windowStart \in 0 .. time
          /\ first \in 1 .. Len(times) /\ times[first] = e.windowStart
      BY <2>3 DEF InWindow
    <3>2. i <= first
      <4>1. ASSUME NEW len \in Nat, NEW c \in 1 .. MaxRequests, NEW x \in 1 .. len + 1 - MaxRequests
            PROVE  x <= len - c + 1
        BY <1>2
      <4>2. i \in 1 .. Len(times) + 1 - MaxRequests
        BY <1>0, <1>1, <1>2
      <4> QED
        BY <1>1, <3>1, <4>1, <4>2
    <3>3. times[i] <= e.windowStart
      BY <2>1, <3>1, <3>2 DEF Ordered
    <3> QED
      BY <1>1, <1>2, <2>1, <2>3, <3>1, <3>3
  <2> QED
    BY <2>2, <2>3
<1>4. InWindow(more, fresh, time)
  <2>1. fresh \in [count : 1 .. MaxRequests, windowStart : 0 .. time]
        /\ fresh.count = 1 /\ fresh.windowStart = time
    BY <1>2
  <2>2. Len(more) - fresh.count + 1 = n
    BY <1>1, <2>1
  <2>3. \A i \in 1 .. n - MaxRequests : time - more[i] >= Period
    BY <1>1, <1>3
  <2> HIDE DEF fresh, more
  <2> QED
    BY <1>0, <1>1, <2>1, <2>2, <2>3 DEF InWindow
<1>5. n > Burst => time - times[n - Burst] >= Period
  <2>1. n > Burst => n - Burst \in 1 .. n - MaxRequests
    BY <1>1, <1>2
  <2> QED
    BY <1>3, <2>1
<1>6. Spread(more)
  BY <1>0, <1>5, SpreadOn
<1> QED
  BY <1>4, <1>6

\* One more request in a window that has room.
LEMMA GrowsWindow ==
    ASSUME NEW times \in Seq(Nat), NEW time \in Nat, Ordered(times, time), Spread(times), NEW e,
           InWindow(times, e, time), e.count < MaxRequests
    PROVE  /\ InWindow(Append(times, time), [e EXCEPT !.count = @ + 1], time)
           /\ Spread(Append(times, time))
<1>0. PICK n : n = Len(times) + 1
  OBVIOUS
<1> DEFINE more == Append(times, time)
           grown == [e EXCEPT !.count = @ + 1]
           first == Len(times) - e.count + 1
<1>1. /\ Len(more) = n /\ Len(times) \in Nat /\ more[n] = time
      /\ \A i \in 1 .. Len(times) : more[i] = times[i] /\ times[i] \in Nat
  BY <1>0, LetThrough
<1>2. /\ MaxRequests \in Nat /\ MaxRequests >= 1 /\ Period \in Nat
      /\ Burst \in Nat /\ Burst = MaxRequests + MaxRequests
  BY Constants
<1>3. /\ e \in [count : 1 .. MaxRequests, windowStart : 0 .. time]
      /\ first \in 1 .. Len(times) /\ times[first] = e.windowStart
      /\ \A i \in 1 .. first - MaxRequests : e.windowStart - times[i] >= Period
  BY DEF InWindow
<1>4. /\ grown \in [count : 1 .. MaxRequests, windowStart : 0 .. time]
      /\ grown.count = e.count + 1 /\ grown.windowStart = e.windowStart
      /\ e.count \in 1 .. MaxRequests /\ e.windowStart \in 0 .. time
  <2>1. e.count \in 1 .. MaxRequests /\ e.windowStart \in 0 .. time
    BY <1>3
  <2>2. e.count + 1 \in 1 .. MaxRequests
    BY <1>2, <2>1
  <2>3. grown \in [count : 1 .. MaxRequests, windowStart : 0 .. time]
        /\ grown.count = e.count + 1 /\ grown.windowStart = e.windowStart
    BY <1>3, <2>2
  <2> QED
    BY <2>1, <2>3
<1>5. Len(more) - grown.count + 1 = first
  BY <1>1, <1>4
<1>6. InWindow(more, grown, time)
  <2>1. first \in 1 .. Len(more) /\ more[first] = grown.windowStart
    BY <1>1, <1>3, <1>4
  <2>2. \A i \in 1 .. first - MaxRequests : i \in 1 .. Len(times)
    BY <1>1, <1>2, <1>3
  <2>3. \A i \in 1 .. first - MaxRequests : grown.windowStart - more[i] >= Period
    BY <1>1, <1>3, <1>4, <2>2
  <2> HIDE DEF grown, more, first
  <2> QED
    BY <1>4, <1>5, <2>1, <2>3 DEF InWindow
<1>7. n > Burst => time - times[n - Burst] >= Period
  <2>1. n > Burst => /\ n - Burst \in 1 .. first - MaxRequests
                     /\ n - Burst \in 1 .. Len(times)
    <3>1. PICK len \in Nat, c \in 1 .. MaxRequests : len = Len(times) /\ c = e.count
      BY <1>1, <1>4
    <3>2. len + 1 > Burst => /\ len + 1 - Burst \in 1 .. (len - c + 1) - MaxRequests
                             /\ len + 1 - Burst \in 1 .. len
      BY <1>2
    <3>3. first = len - c + 1 /\ n = len + 1
      BY <1>0, <3>1
    <3> HIDE DEF first
    <3> QED
      BY <1>2, <3>1, <3>2, <3>3
  <2>2. ASSUME NEW x \in Nat, e.windowStart - x >= Period PROVE time - x >= Period
    BY <1>2, <1>4, <2>2
  <2> QED
    BY <1>1, <1>3, <2>1, <2>2
<1>8. Spread(more)
  BY <1>0, <1>7, SpreadOn
<1> QED
  BY <1>6, <1>8

\* A full window shows the requests that were let through within the period.
LEMMA FullWindow ==
    ASSUME NEW times \in Seq(Nat), NEW time \in Nat, Ordered(times, time), NEW e,
           InWindow(times, e, time), ~(e.count < MaxRequests), ~(time - e.windowStart >= Period)
    PROVE  \E n \in 0 .. Len(times) - MaxRequests : \A k \in n + 1 .. n + MaxRequests :
               times[k] <= time /\ times[k] > time - Period
<1>1. /\ e.count = MaxRequests /\ e.windowStart \in 0 .. time
      /\ Len(times) - e.count + 1 \in 1 .. Len(times)
      /\ times[Len(times) - e.count + 1] = e.windowStart
      /\ MaxRequests \in Nat /\ MaxRequests >= 1 /\ Period \in Nat
  BY Constants DEF InWindow
<1> DEFINE n == Len(times) - MaxRequests
<1>2. n \in 0 .. Len(times) - MaxRequests /\ n + MaxRequests = Len(times) /\ n \in Nat
      /\ times[n + 1] = e.windowStart
  BY <1>1
<1>3. ASSUME NEW k \in n + 1 .. n + MaxRequests
      PROVE  times[k] <= time /\ times[k] > time - Period
  <2>1. k \in 1 .. Len(times) /\ n + 1 \in 1 .. Len(times) /\ n + 1 <= k
    BY <1>1, <1>2
  <2>2. times[k] \in Nat
    BY <2>1
  <2>3. times[n + 1] <= times[k] /\ times[k] <= time
    BY <2>1 DEF Ordered
  <2> QED
    BY <1>1, <1>2, <2>2, <2>3
<1> QED
  BY <1>2, <1>3

\* So many requests in a row are that many.
LEMMA RunCounted ==
    ASSUME NEW times \in Seq(Nat), NEW time \in Nat,
           \E n \in 0 .. Len(times) - MaxRequests : \A k \in n + 1 .. n + MaxRequests :
               times[k] <= time /\ times[k] > time - Period
    PROVE  Cardinality({k \in DOMAIN times : times[k] <= time /\ times[k] > time - Period})
               >= MaxRequests
<1> DEFINE S == {k \in DOMAIN times : times[k] <= time /\ times[k] > time - Period}
<1>1. PICK n \in 0 .. Len(times) - MaxRequests : \A k \in n + 1 .. n + MaxRequests :
          times[k] <= time /\ times[k] > time - Period
  OBVIOUS
<1>2. DOMAIN times = 1 .. Len(times) /\ Len(times) \in Nat /\ MaxRequests \in Nat /\ n \in Nat
      /\ MaxRequests >= 1
  BY Constants
<1>3. (n + 1) .. (n + MaxRequests) \subseteq S
  BY <1>1, <1>2
<1>4. IsFiniteSet(S)
  <2>1. S \subseteq 1 .. Len(times) /\ IsFiniteSet(1 .. Len(times))
    BY <1>2, FS_Interval
  <2> QED
    BY <2>1, FS_Subset
<1>5. Cardinality((n + 1) .. (n + MaxRequests)) = MaxRequests
  <2>1. n + 1 \in Int /\ n + MaxRequests \in Int
    BY <1>2
  <2>2. Cardinality((n + 1) .. (n + MaxRequests))
            = IF n + 1 > n + MaxRequests THEN 0 ELSE (n + MaxRequests) - (n + 1) + 1
    BY <2>1, FS_Interval
  <2> QED
    BY <1>2, <2>2
<1>6. Cardinality((n + 1) .. (n + MaxRequests)) <= Cardinality(S)
  BY <1>3, <1>4, FS_Subset
<1>7. Cardinality(S) \in Nat
  BY <1>4, FS_CardinalityType
<1> QED
  BY <1>2, <1>5, <1>6, <1>7

\* What check does to the limiter and address it is asked about, and to no other.
LEMMA CheckEffect ==
    ASSUME Inv, NEW l \in Limiters, NEW a \in Addrs, NEW ok \in BOOLEAN, check(l, a, ok)
    PROVE  LET e == m_table[l][a]
               opens == a \notin DOMAIN m_table[l] \/ WindowOver(e)
           IN
           /\ DOMAIN m_table' = Limiters
           /\ \A m \in Limiters, b \in Addrs : m # l \/ b # a =>
                  /\ passed'[m][b] = passed[m][b]
                  /\ Has(m_table'[m], b) <=> Has(m_table[m], b)
                  /\ Has(m_table[m], b) => m_table'[m][b] = m_table[m][b]
           /\ opens => /\ ok /\ Has(m_table'[l], a)
                       /\ m_table'[l][a] = [count |-> 1, windowStart |-> now]
           /\ ~opens /\ MayPass(e) => /\ ok /\ Has(m_table'[l], a)
                                      /\ m_table'[l][a] = [e EXCEPT !.count = @ + 1]
           /\ ~opens /\ ~MayPass(e) => ~ok /\ m_table' = m_table
           /\ IF ok THEN passed'[l][a] = Append(passed[l][a], now) ELSE passed' = passed
<1> DEFINE e == m_table[l][a]
           opens == a \notin DOMAIN m_table[l] \/ WindowOver(e)
           fresh == [count |-> 1, windowStart |-> now]
           grown == [e EXCEPT !.count = @ + 1]
<1>1. /\ DOMAIN m_table = Limiters /\ passed \in [Limiters -> [Addrs -> Seq(Nat)]]
  BY DEF Inv, TypeOK
<1>2. ok <=> opens \/ MayPass(e)
  BY DEF check, Has
<1>3. m_table' = IF opens THEN [m_table EXCEPT ![l] = Set(m_table[l], a, fresh)]
                 ELSE IF ok THEN [m_table EXCEPT ![l] = [m_table[l] EXCEPT ![a] = grown]]
                 ELSE m_table
  BY <1>1 DEF check, Has
<1>4. passed' = IF ok THEN [passed EXCEPT ![l][a] = Append(@, now)] ELSE passed
  BY DEF check
<1>5. ~opens => Has(m_table[l], a)
  BY DEF Has
<1> HIDE DEF opens, fresh, grown
<1>6. DOMAIN m_table' = Limiters /\ \A m \in Limiters : m # l => m_table'[m] = m_table[m]
  BY <1>1, <1>3
<1>7. /\ \A b \in Addrs : b # a => /\ Has(m_table'[l], b) <=> Has(m_table[l], b)
                                   /\ Has(m_table[l], b) => m_table'[l][b] = m_table[l][b]
      /\ opens => Has(m_table'[l], a) /\ m_table'[l][a] = fresh
      /\ ~opens /\ ok => Has(m_table'[l], a) /\ m_table'[l][a] = grown
  <2>1. CASE opens
    <3>1. m_table'[l] = Set(m_table[l], a, fresh)
      BY <1>1, <1>3, <2>1
    <3> QED
      BY <2>1, <3>1 DEF Set, Has
  <2>2. CASE ~opens /\ ok
    <3>1. m_table'[l] = [m_table[l] EXCEPT ![a] = grown]
      BY <1>1, <1>3, <2>2
    <3> QED
      BY <1>5, <2>2, <3>1 DEF Has
  <2>3. CASE ~opens /\ ~ok
    BY <1>3, <2>3
  <2> QED
    BY <2>1, <2>2, <2>3
<1>8. ~opens /\ ~ok => m_table' = m_table
  BY <1>3
<1>9. /\ IF ok THEN passed'[l][a] = Append(passed[l][a], now) ELSE passed' = passed
      /\ \A m \in Limiters, b \in Addrs : m # l \/ b # a => passed'[m][b] = passed[m][b]
  BY <1>1, <1>4
<1> QED
  BY <1>2, <1>6, <1>7, <1>8, <1>9 DEF opens, fresh, grown

\* A request passes a limiter, or is refused by a full window.
LEMMA LimitedStep ==
    ASSUME Inv, NEW t \in Threads, NEW l \in Limiters, NEW a \in Addrs, NEW next \in Jobs,
           next.at \in {"free", "login", "validate"}, Limited(t, l, a, next)
    PROVE  Inv'
<1>1. PICK ok \in BOOLEAN : /\ check(l, a, ok)
                            /\ Go(t, IF ok THEN next ELSE TooMany(l, a))
  BY DEF Limited
<1>2. /\ now' = now /\ m_sessions' = m_sessions /\ files' = files /\ lastUse' = lastUse
      /\ sharing' = sharing /\ cut' = cut /\ jobs' = jobs + 1 /\ job[t] = Free
  BY DEF Limited, Take
<1>3. PICK times, e : times = passed[l][a] /\ e = m_table[l][a]
  OBVIOUS
<1> DEFINE opens == a \notin DOMAIN m_table[l] \/ WindowOver(e)
<1>4. /\ DOMAIN m_table' = Limiters
      /\ \A m \in Limiters, b \in Addrs : m # l \/ b # a =>
             /\ passed'[m][b] = passed[m][b]
             /\ Has(m_table'[m], b) <=> Has(m_table[m], b)
             /\ Has(m_table[m], b) => m_table'[m][b] = m_table[m][b]
      /\ opens => /\ ok /\ Has(m_table'[l], a)
                  /\ m_table'[l][a] = [count |-> 1, windowStart |-> now]
      /\ ~opens /\ MayPass(e) => /\ ok /\ Has(m_table'[l], a)
                                 /\ m_table'[l][a] = [e EXCEPT !.count = @ + 1]
      /\ ~opens /\ ~MayPass(e) => ~ok /\ m_table' = m_table
      /\ IF ok THEN passed'[l][a] = Append(times, now) ELSE passed' = passed
  BY <1>1, <1>3, CheckEffect
<1>5. /\ times \in Seq(Nat) /\ now \in Nat /\ Ordered(times, now) /\ Spread(times)
      /\ IF a \in DOMAIN m_table[l] THEN InWindow(times, e, now) ELSE times = <<>>
  BY <1>3 DEF Inv, TypeOK, WindowInv, RateFair, AtMostTwice, Has
<1>6. a \in DOMAIN m_table[l] => (WindowOver(e) <=> now - e.windowStart >= Period)
  <2>1. a \in DOMAIN m_table[l] => e.windowStart \in 0 .. now
    BY <1>5 DEF InWindow
  <2> QED
    BY <1>5, <2>1, WindowTest
<1>7. ok => Append(times, now) \in Seq(Nat) /\ Ordered(Append(times, now), now)
  BY <1>5, LetThrough
<1>8. /\ Has(m_table'[l], a) /\ InWindow(passed'[l][a], m_table'[l][a], now)
      /\ Ordered(passed'[l][a], now) /\ Spread(passed'[l][a])
  <2>1. CASE opens
    <3>1. times = <<>> \/ (InWindow(times, e, now) /\ now - e.windowStart >= Period)
      BY <1>5, <1>6, <2>1
    <3>2. /\ InWindow(Append(times, now), [count |-> 1, windowStart |-> now], now)
          /\ Spread(Append(times, now))
      BY <1>5, <3>1, OpensWindow
    <3> QED
      BY <1>4, <1>7, <2>1, <3>2
  <2>2. CASE ~opens /\ MayPass(e)
    <3>1. InWindow(times, e, now) /\ e.count < MaxRequests
      BY <1>5, <2>2 DEF MayPass
    <3>2. /\ InWindow(Append(times, now), [e EXCEPT !.count = @ + 1], now)
          /\ Spread(Append(times, now))
      BY <1>5, <3>1, GrowsWindow
    <3> QED
      BY <1>4, <1>7, <2>2, <3>2
  <2>3. CASE ~opens /\ ~MayPass(e)
    <3>1. Has(m_table[l], a) /\ InWindow(times, e, now)
      BY <1>5, <2>3 DEF Has
    <3> QED
      BY <1>3, <1>4, <1>5, <2>3, <3>1
  <2> QED
    BY <2>1, <2>2, <2>3
<1>9. ~ok => \E n \in 0 .. Len(times) - MaxRequests : \A k \in n + 1 .. n + MaxRequests :
                 times[k] <= now /\ times[k] > now - Period
  <2>1. ~ok => /\ InWindow(times, e, now) /\ ~(e.count < MaxRequests)
               /\ ~(now - e.windowStart >= Period)
    BY <1>4, <1>5, <1>6 DEF MayPass
  <2> QED
    BY <1>5, <2>1, FullWindow
<1> HIDE DEF opens
<1>10. /\ TooMany(l, a) \in Jobs /\ TooMany(l, a).at = "refused" /\ TooMany(l, a).why = "rate"
       /\ TooMany(l, a).limiter = l /\ TooMany(l, a).addr = a /\ TooMany(l, a).time = now
  BY <1>5 DEF Jobs, TooMany
<1>11. /\ (ok => job'[t] = next) /\ (~ok => job'[t] = TooMany(l, a))
       /\ \A u \in Threads : u # t => job'[u] = job[u]
       /\ job' \in [Threads -> Jobs]
  <2>1. CASE ok
    BY <1>1, <2>1, Moved DEF Inv
  <2>2. CASE ~ok
    BY <1>1, <1>10, <2>2, Moved DEF Inv
  <2> QED
    BY <2>1, <2>2
<1>12. Free.at = "free"
  BY DEF Free
<1>13. passed' \in [Limiters -> [Addrs -> Seq(Nat)]]
  <2>1. passed \in [Limiters -> [Addrs -> Seq(Nat)]]
    BY DEF Inv, TypeOK
  <2>2. passed' = IF ok THEN [passed EXCEPT ![l] = [passed[l] EXCEPT ![a] = Append(times, now)]]
                  ELSE passed
    BY <1>1, <1>3, <2>1 DEF check
  <2>3. ok => [passed[l] EXCEPT ![a] = Append(times, now)] \in [Addrs -> Seq(Nat)]
    BY <1>7, <2>1
  <2> QED
    BY <2>1, <2>2, <2>3
<1>14. TypeOK'
  <2>1. job' \in [Threads -> Jobs] /\ DOMAIN m_table' = Limiters
    BY <1>4, <1>11
  <2> QED
    BY <1>2, <1>13, <2>1 DEF Inv, TypeOK
<1>15. SessionInv' /\ SessionsSlide'
  BY <1>2, <1>10, <1>11, SessionsKept
<1>16. FilesInv' /\ FilesFresh'
  BY <1>2, <1>10, <1>11, <1>12, FilesKept
<1>17. WindowInv'
  <2> SUFFICES ASSUME NEW m \in Limiters, NEW b \in Addrs
               PROVE  /\ Ordered(passed'[m][b], now)
                      /\ IF Has(m_table'[m], b) THEN InWindow(passed'[m][b], m_table'[m][b], now)
                         ELSE passed'[m][b] = <<>>
    BY <1>2 DEF WindowInv, Has
  <2>1. CASE m = l /\ b = a
    BY <1>8, <2>1
  <2>2. CASE m # l \/ b # a
    BY <1>4, <2>2 DEF Inv, WindowInv
  <2> QED
    BY <2>1, <2>2
<1>18. AtMostTwice'
  <2> SUFFICES ASSUME NEW m \in Limiters, NEW b \in Addrs PROVE Spread(passed'[m][b])
    BY DEF AtMostTwice, Spread
  <2>1. CASE m = l /\ b = a
    BY <1>8, <2>1
  <2>2. CASE m # l \/ b # a
    BY <1>4, <2>2 DEF Inv, RateFair, AtMostTwice
  <2> QED
    BY <2>1, <2>2
<1>19. ASSUME NEW u \in Threads, job'[u].at = "refused", job'[u].why = "rate"
       PROVE  LET ts == passed'[job'[u].limiter][job'[u].addr] IN
              \E n \in 0 .. Len(ts) - MaxRequests : \A k \in n + 1 .. n + MaxRequests :
                  ts[k] <= job'[u].time /\ ts[k] > job'[u].time - Period
  <2>1. CASE u = t
    <3>1. ~ok /\ job'[u] = TooMany(l, a)
      BY <1>11, <1>19, <2>1
    <3>2. passed'[l][a] = times
      BY <1>3, <1>4, <3>1
    <3> QED
      BY <1>9, <1>10, <3>1, <3>2
  <2>2. CASE u # t
    <3>1. PICK j : j = job[u] /\ j = job'[u]
      BY <1>11, <2>2
    <3>2. j \in Jobs
      <4>1. job \in [Threads -> Jobs]
        BY DEF Inv, TypeOK
      <4> QED
        BY <3>1, <4>1
    <3>3. j.limiter \in Limiters /\ j.addr \in Addrs
      BY <1>19, <3>1, <3>2, JobFields
    <3>4. PICK old : old = passed[j.limiter][j.addr]
      OBVIOUS
    <3>5. PICK n \in 0 .. Len(old) - MaxRequests : \A k \in n + 1 .. n + MaxRequests :
              old[k] <= j.time /\ old[k] > j.time - Period
      BY <1>19, <3>1, <3>4 DEF Inv, RefusalInv
    <3>6. PICK ts : ts = passed'[j.limiter][j.addr]
      OBVIOUS
    <3>7. old \in Seq(Nat)
      BY <3>3, <3>4 DEF Inv, TypeOK
    <3>8. Len(ts) >= Len(old) /\ Len(ts) \in Nat /\ \A k \in 1 .. Len(old) : ts[k] = old[k]
      <4>1. CASE ts = old
        BY <3>7, <4>1
      <4>2. CASE ts = Append(old, now)
        BY <1>5, <3>7, <4>2
      <4>3. ts = old \/ ts = Append(old, now)
        BY <1>3, <1>4, <3>3, <3>4, <3>6
      <4> QED
        BY <4>1, <4>2, <4>3
    <3>9. n \in 0 .. Len(ts) - MaxRequests /\ \A k \in n + 1 .. n + MaxRequests : k \in 1 .. Len(old)
      BY <3>5, <3>7, <3>8, Constants
    <3>10. \A k \in n + 1 .. n + MaxRequests : ts[k] <= j.time /\ ts[k] > j.time - Period
      BY <3>5, <3>8, <3>9
    <3> QED
      BY <3>1, <3>6, <3>9, <3>10
  <2> QED
    BY <2>1, <2>2
<1>20. RefusalInv'
  BY <1>19 DEF RefusalInv
<1>21. RefusedWhenFull'
  <2> SUFFICES ASSUME NEW u \in Threads, job'[u].at = "refused", job'[u].why = "rate"
               PROVE  LET ts == passed'[job'[u].limiter][job'[u].addr] IN
                      Cardinality({k \in DOMAIN ts : /\ ts[k] <= job'[u].time
                                                     /\ ts[k] > job'[u].time - Period}) >= MaxRequests
    BY DEF RefusedWhenFull
  <2>1. PICK j : j = job'[u]
    OBVIOUS
  <2>2. j \in Jobs
    <3>1. job' \in [Threads -> Jobs]
      BY <1>11
    <3> QED
      BY <2>1, <3>1
  <2>3. j.limiter \in Limiters /\ j.addr \in Addrs /\ j.time \in Nat
    BY <2>1, <2>2, JobFields
  <2>4. PICK ts : ts = passed'[j.limiter][j.addr]
    OBVIOUS
  <2>5. ts \in Seq(Nat)
    BY <1>13, <2>3, <2>4
  <2>6. \E n \in 0 .. Len(ts) - MaxRequests : \A k \in n + 1 .. n + MaxRequests :
            ts[k] <= j.time /\ ts[k] > j.time - Period
    BY <1>19, <2>1, <2>4
  <2>7. Cardinality({k \in DOMAIN ts : ts[k] <= j.time /\ ts[k] > j.time - Period}) >= MaxRequests
    BY <2>3, <2>5, <2>6, RunCounted
  <2> QED
    BY <2>1, <2>4, <2>7
<1> QED
  BY <1>14, <1>15, <1>16, <1>17, <1>18, <1>20, <1>21 DEF Inv, RateFair

----------------------------------------------------------------------------
(* The theorems                                                            *)

\* Every step keeps the invariant.
LEMMA NextPreserves == Inv /\ [Next]_vars => Inv'
<1> SUFFICES ASSUME Inv, [Next]_vars PROVE Inv'
  OBVIOUS
<1>1. CASE UNCHANGED vars
  <2>1. /\ now' = now /\ m_table' = m_table /\ m_sessions' = m_sessions /\ files' = files
        /\ job' = job /\ jobs' = jobs /\ passed' = passed /\ lastUse' = lastUse
        /\ sharing' = sharing /\ cut' = cut
    BY <1>1 DEF vars
  <2>2. TypeOK' /\ now \in Nat
    BY <2>1 DEF Inv, TypeOK
  <2>3. SessionInv' /\ SessionsSlide'
    BY <2>1, SessionsKept
  <2>4. FilesInv' /\ FilesFresh'
    BY <2>1, FilesKept
  <2>5. WindowInv' /\ RefusalInv' /\ RateFair'
    BY <2>1, <2>2, RatesKept
  <2> QED
    BY <2>2, <2>3, <2>4, <2>5 DEF Inv
<1>2. CASE Tick
  BY <1>2, TickStep
<1>3. ASSUME NEW t \in Threads, Arrive(t)
      PROVE  Inv'
  <2>1. /\ Free \in Jobs /\ Free.at = "free"
        /\ [at |-> "login"] \in Jobs /\ [at |-> "login"].at = "login"
        /\ "login" \in Limiters /\ "upload" \in Limiters
    BY DEF Jobs, Free, Limiters
  <2>2. ASSUME NEW a \in Addrs, LoginRoute(t, a) \/ StaticRoute(t, a)
        PROVE  Inv'
    BY <2>1, <2>2, LimitedStep DEF LoginRoute, StaticRoute
  <2>3. \A token \in {Tokens[k] : k \in 1 .. Len(Tokens)} : token \in STRING
    BY Constants
  <2>4. ASSUME NEW token \in STRING, ListRoute(t, token)
        PROVE  Inv'
    BY <2>4, ListStep
  <2>5. ASSUME NEW token \in STRING, NEW a \in Addrs, NEW name \in Names, NEW size \in Sizes,
               UploadRoute(t, a, token, name, size)
        PROVE  Inv'
    <3> DEFINE r == [route |-> "upload", token |-> token, name |-> name, size |-> size,
                     id |-> jobs + 1]
               j == [at |-> "validate", req |-> r]
    <3>1. r \in Uploads
      BY DEF Uploads, Inv, TypeOK
    <3>2. j \in Jobs /\ j.at = "validate"
      <4> HIDE DEF r
      <4> QED
        BY <3>1 DEF Jobs
    <3>3. Limited(t, "upload", a, j)
      BY <2>5 DEF UploadRoute
    <3> HIDE DEF j
    <3> QED
      BY <2>1, <3>2, <3>3, LimitedStep
  <2> QED
    BY <1>3, <2>2, <2>3, <2>4, <2>5 DEF Arrive
<1>4. ASSUME NEW t \in Threads, Handle(t)
      PROVE  Inv'
  <2>1. CASE RefuseBody(t) \/ Respond(t)
    BY <2>1, DoneStep DEF RefuseBody, Respond
  <2> QED
    BY <1>4, <2>1, LoginStep, ValidateStep, NameStep, OpenStep, WriteStep DEF Handle
<1> QED
  BY <1>1, <1>2, <1>3, <1>4 DEF Next

\* The invariant holds.
LEMMA Invariance == Spec => []Inv
  BY InitEstablishes, NextPreserves, PTL DEF Spec

\* A limiter lets an address have at most twice its number of requests in any period,
\* and turns one away only if the address had that number within the last period:
\* for every limit, window and unit of the clock, and however many threads ask it.
THEOREM RatesFair == Spec => []RateFair
<1>1. Inv => RateFair
  BY DEF Inv
<1> QED
  BY Invariance, <1>1, PTL

\* A token is accepted exactly while it was used within its lifetime, though the
\* session is looked up twice and other requests expire and renew it in between.
THEOREM SessionsLast == Spec => []SessionsSlide
<1>1. Inv => SessionsSlide
  BY DEF Inv
<1> QED
  BY Invariance, <1>1, PTL

\* Nothing of an earlier upload is left in a file, however many uploads of one name
\* overlap and wherever a full disk cuts them short; an upload that had the file to itself
\* and was not cut short is all of it.
THEOREM UploadsFresh == Spec => []FilesFresh
<1>1. Inv => FilesFresh
  BY DEF Inv
<1> QED
  BY Invariance, <1>1, PTL

=============================================================================
