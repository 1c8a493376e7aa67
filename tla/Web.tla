--------------------------------- MODULE Web ---------------------------------
(***************************************************************************)
(* The web server: rate limits, sessions and uploads.                      *)
(*                                                                         *)
(* Every request runs in a thread of the global pool.  A request is cut at *)
(* the mutexes of RateLimiter and WebSessionStore and at the operations on *)
(* files; the clock moves in between.                                      *)
(*                                                                         *)
(* External: the pool, the file system and bcrypt, whose verdict is a      *)
(* choice, as is that of a login hook.                                     *)
(***************************************************************************)
EXTENDS Integers, Sequences, FiniteSets

CONSTANTS
    Threads,        \* of the pool
    Addrs,          \* addresses of clients
    Accounts,       \* names in accounts_lookup_name
    Guests,         \* names without an account, which only a hook lets in
    Tokens,         \* what randomToken returns, in this order
    Names, Sizes,   \* names and lengths of uploads
    Ticks,          \* of the clock in a second
    MaxRequests, Window,    \* m_maxRequests, and m_windowSeconds in seconds
    Ttl,            \* of a session, in seconds
    MaxTime, MaxJobs        \* bounds

Users == Accounts \cup Guests
Limiters == {"login", "upload"}
Lifetime == Ttl * Ticks     \* of a session that is not used, in ticks
Period == Window * Ticks    \* of a limiter's window, in ticks
Burst == 2 * MaxRequests    \* what two windows let through

ASSUME WebAssumption ==
    /\ Sizes \subseteq Nat \ {0}
    /\ Ticks \in Nat \ {0} /\ MaxRequests \in Nat \ {0} /\ Window \in Nat \ {0} /\ Ttl \in Nat
    /\ MaxTime \in Nat /\ MaxJobs \in Nat
    /\ Tokens \in Seq(STRING)

VARIABLES
    now,        \* the clock
    m_table,    \* of each limiter: entries [count, windowStart] by address
    m_sessions, \* entries [username, expires] by token
    files,      \* the upload directory: by file, the upload each of its bytes is from
    job,        \* what each thread works on
    jobs,       \* how many there were
    passed,     \* history: when requests were let through, by limiter and address
    lastUse,    \* history: when each token was issued or last accepted
    sharing,    \* history: the uploads that had each file open since it was last emptied
    cut         \* history: the uploads that were not written to the end

vars == <<now, m_table, m_sessions, files, job, jobs, passed, lastUse, sharing, cut>>
history == <<jobs, passed, lastUse, sharing, cut>>

Free == [at |-> "free"]

Init ==
    /\ now = 0
    /\ m_table = [l \in Limiters |-> <<>>]
    /\ m_sessions = <<>>
    /\ files = <<>>
    /\ job = [t \in Threads |-> Free]
    /\ jobs = 0
    /\ passed = [l \in Limiters |-> [a \in Addrs |-> <<>>]]
    /\ lastUse = <<>>
    /\ sharing = <<>>
    /\ cut = {}

Has(f, x) == x \in DOMAIN f
Set(f, x, v) == [y \in DOMAIN f \cup {x} |-> IF y = x THEN v ELSE f[y]]
Without(f, x) == [y \in DOMAIN f \ {x} |-> f[y]]

Go(t, to) == job' = [job EXCEPT ![t] = to]
Done(t) == Go(t, Free)

\* A refusal is kept for the properties until the answer is sent.
TooMany(l, a) == [at |-> "refused", why |-> "rate", limiter |-> l, addr |-> a, time |-> now]
NoSession(idle) == [at |-> "refused", why |-> "session", idle |-> idle]

----------------------------------------------------------------------------
(* RateLimiter                                                             *)

\* secsTo counts whole seconds.
secsTo(from, to) == (to - from) \div Ticks

MayPass(e) == e.count < MaxRequests

\* Mutant of WindowOver: the window is a second short.
WindowShort(e) == secsTo(e.windowStart, now) >= Window - 1

WindowOver(e) == secsTo(e.windowStart, now) >= Window

\* check, under its mutex: a first request or one after the window opens a new one.
check(l, a, ok) ==
    LET entries == m_table[l]
        opens == ~Has(entries, a) \/ WindowOver(entries[a])
        fresh == [count |-> 1, windowStart |-> now]
    IN
    /\ ok = (opens \/ MayPass(entries[a]))
    /\ m_table' = IF opens THEN [m_table EXCEPT ![l] = Set(@, a, fresh)]
                  ELSE IF ok THEN [m_table EXCEPT ![l][a].count = @ + 1] ELSE m_table
    /\ passed' = IF ok THEN [passed EXCEPT ![l][a] = Append(@, now)] ELSE passed

----------------------------------------------------------------------------
(* Requests                                                                *)

\* A thread of the pool takes a request up.
Take(t) ==
    /\ job[t] = Free /\ jobs < MaxJobs
    /\ jobs' = jobs + 1

\* A request that has to pass a limiter first.
Limited(t, l, a, next) ==
    /\ Take(t)
    /\ \E ok \in BOOLEAN :
        /\ check(l, a, ok)
        /\ Go(t, IF ok THEN next ELSE TooMany(l, a))
    /\ UNCHANGED <<now, m_sessions, files, lastUse, sharing, cut>>

LoginRoute(t, a) == Limited(t, "login", a, [at |-> "login"])

\* Static files share the uploads' limiter.
StaticRoute(t, a) == Limited(t, "upload", a, Free)

UploadRoute(t, a, token, name, size) ==
    Limited(t, "upload", a, [at |-> "validate",
                             req |-> [route |-> "upload", token |-> token, name |-> name,
                                      size |-> size, id |-> jobs + 1]])

\* The lists of users and channels have no limiter.
ListRoute(t, token) ==
    /\ Take(t)
    /\ Go(t, [at |-> "validate", req |-> [route |-> "list", token |-> token]])
    /\ UNCHANGED <<now, m_table, m_sessions, files, passed, lastUse, sharing, cut>>

\* createSession: a token that never was, good for Ttl seconds.
createSession(user) ==
    LET used == Cardinality(DOMAIN lastUse) IN
    /\ used < Len(Tokens)
    /\ m_sessions' = Set(m_sessions, Tokens[used + 1],
                         [username |-> user, expires |-> now + Lifetime])
    /\ lastUse' = Set(lastUse, Tokens[used + 1], now)

\* POST /api/1/login: bad JSON, an unknown name and a wrong password are refused; a
\* hook decides alone, also for a name without an account.
Login(t) ==
    /\ job[t].at = "login"
    /\ \/ /\ Done(t)
          /\ UNCHANGED <<m_sessions, lastUse>>
       \/ /\ \E user \in Users : createSession(user)
          /\ Done(t)
    /\ UNCHANGED <<now, m_table, files, jobs, passed, sharing, cut>>

----------------------------------------------------------------------------
(* WebSessionStore::get_user                                               *)

\* Mutant of Expired: a session ends a tick early.
ExpiredEarly(e) == e.expires <= now

Expired(e) == e.expires < now

\* validateToken, under its mutex: an expired session is erased, any other lives on
\* for Ttl seconds from now.
validateToken(t) ==
    LET token == job[t].req.token
        known == Has(m_sessions, token)
        ok == known /\ ~Expired(m_sessions[token])
        idle == IF Has(lastUse, token) THEN now - lastUse[token] ELSE Lifetime + 1
    IN
    /\ job[t].at = "validate"
    /\ m_sessions' =
           IF ok THEN [m_sessions EXCEPT ![token].expires = now + Lifetime]
           ELSE Without(m_sessions, token)
    /\ lastUse' = IF ok THEN Set(lastUse, token, now) ELSE lastUse
    /\ Go(t, IF ok THEN [at |-> "name", req |-> job[t].req, since |-> now, idle |-> idle]
             ELSE NoSession(idle))
    /\ UNCHANGED <<now, m_table, files, jobs, passed, sharing, cut>>

\* usernameForToken, under the mutex again, and the account of that name.
usernameForToken(t) ==
    LET j == job[t]
        found == Has(m_sessions, j.req.token)
        user == m_sessions[j.req.token].username
    IN
    /\ j.at = "name"
    /\ Go(t, IF ~found THEN NoSession(now - j.since)
             ELSE IF user \notin Accounts \/ j.req.route = "list" THEN Free
             ELSE [at |-> "body", req |-> j.req])
    /\ UNCHANGED <<now, m_table, m_sessions, files, history>>

----------------------------------------------------------------------------
(* Uploads                                                                 *)

\* Size, type and an empty body are looked at before the file is opened, which may fail.
RefuseBody(t) ==
    /\ job[t].at = "body"
    /\ Done(t)
    /\ UNCHANGED <<now, m_table, m_sessions, files, history>>

\* The uploads that are being written to a file.
Writing(name) == {job[t].req : t \in {u \in Threads : job[u].at = "write" /\ job[u].req.name = name}}

\* Mutant of Opened: opened for writing without truncation.
NotTruncated(name) == IF Has(files, name) THEN files[name] ELSE <<>>

\* QFile::open(WriteOnly) makes or truncates the file.
Opened(name) == <<>>

OpenFile(t) ==
    LET r == job[t].req IN
    /\ job[t].at = "body"
    /\ files' = Set(files, r.name, Opened(r.name))
    /\ sharing' = Set(sharing, r.name, Writing(r.name) \cup {r})
    /\ Go(t, [at |-> "write", req |-> r])
    /\ UNCHANGED <<now, m_table, m_sessions, jobs, passed, lastUse, cut>>

\* The bytes go where the writer's own position is, from the start of the file.
Overwritten(old, id, size) ==
    [k \in 1..(IF Len(old) > size THEN Len(old) ELSE size) |-> IF k <= size THEN id ELSE old[k]]

\* write, flush and close.  On a full disk only part is written, or nothing; nobody
\* looks at the results, and the answer is the location of the file either way.
WriteFile(t) ==
    LET r == job[t].req IN
    /\ job[t].at = "write"
    /\ \E n \in 0 .. r.size :
          /\ files' = [files EXCEPT ![r.name] = Overwritten(@, r.id, n)]
          /\ cut' = IF n < r.size THEN cut \cup {r} ELSE cut
    /\ Done(t)
    /\ UNCHANGED <<now, m_table, m_sessions, jobs, passed, lastUse, sharing>>

----------------------------------------------------------------------------
\* The refusal is sent and the thread goes back to the pool.
Respond(t) ==
    /\ job[t].at = "refused"
    /\ Done(t)
    /\ UNCHANGED <<now, m_table, m_sessions, files, history>>

Tick ==
    /\ now < MaxTime
    /\ now' = now + 1
    /\ UNCHANGED <<m_table, m_sessions, files, job, history>>

\* Requests of all kinds.
Arrive(t) ==
    \/ \E a \in Addrs : LoginRoute(t, a) \/ StaticRoute(t, a)
    \/ \E token \in {Tokens[k] : k \in 1 .. Len(Tokens)} :
          \/ ListRoute(t, token)
          \/ \E a \in Addrs, name \in Names, size \in Sizes : UploadRoute(t, a, token, name, size)

Handle(t) == \/ Login(t) \/ validateToken(t) \/ usernameForToken(t)
             \/ RefuseBody(t) \/ OpenFile(t) \/ WriteFile(t) \/ Respond(t)

Next == Tick \/ \E t \in Threads : Arrive(t) \/ Handle(t)

Spec == Init /\ [][Next]_vars

----------------------------------------------------------------------------
(* Properties                                                              *)

\* Fixed windows let an address have at most twice m_maxRequests in any m_windowSeconds:
\* at the end of one window and the start of the next.
Spread(times) ==
    \A k \in DOMAIN times : k > Burst => times[k] - times[k - Burst] >= Period

AtMostTwice == \A l \in Limiters, a \in Addrs : Spread(passed[l][a])

\* A request is only turned away when m_maxRequests of its address were let through
\* within the last m_windowSeconds.
RefusedWhenFull ==
    \A t \in Threads : job[t].at = "refused" /\ job[t].why = "rate" =>
        LET times == passed[job[t].limiter][job[t].addr] IN
        Cardinality({k \in DOMAIN times : /\ times[k] <= job[t].time
                                          /\ times[k] > job[t].time - Period}) >= MaxRequests

\* What RateLimiter::check promises, to both sides.
RateFair == AtMostTwice /\ RefusedWhenFull

\* A session lasts until it has not been used for an hour, and no longer: a request
\* with its token is turned away as unknown or expired, or loses its session between
\* validateToken and usernameForToken, only after that time; and it is answered only
\* within it (WebSessionStore).
SessionsSlide ==
    \A t \in Threads :
        /\ job[t].at = "name" => job[t].idle <= Lifetime
        /\ job[t].at = "refused" /\ job[t].why = "session" => job[t].idle > Lifetime

\* The upload route: whatever uploads of one name overlap or are cut short by a full disk,
\* a file has no byte of an upload that was over when it was last opened; and one that
\* a single upload has had open since then, and that wrote to the end, is that upload.
FilesFresh ==
    \A name \in DOMAIN files :
        /\ \A k \in DOMAIN files[name] : files[name][k] \in {r.id : r \in sharing[name]}
        /\ \A r \in sharing[name] : sharing[name] = {r} /\ Writing(name) = {} /\ r \notin cut =>
               Len(files[name]) = r.size

----------------------------------------------------------------------------
(* The inductive invariant                                                 *)

Lists == [route : {"list"}, token : STRING]
Uploads == [route : {"upload"}, token : STRING, name : Names, size : Sizes, id : Nat]

Jobs ==
    {Free} \cup [at : {"login"}]
    \cup [at : {"validate"}, req : Lists \cup Uploads]
    \cup [at : {"name"}, req : Lists \cup Uploads, since : Nat, idle : Nat]
    \cup [at : {"body", "write"}, req : Uploads]
    \cup [at : {"refused"}, why : {"rate"}, limiter : Limiters, addr : Addrs, time : Nat]
    \cup [at : {"refused"}, why : {"session"}, idle : Nat]

TypeOK ==
    /\ now \in Nat /\ jobs \in Nat
    /\ job \in [Threads -> Jobs]
    /\ passed \in [Limiters -> [Addrs -> Seq(Nat)]]
    /\ DOMAIN m_table = Limiters
    /\ \A k \in DOMAIN m_sessions : m_sessions[k] \in [username : Users, expires : Nat]

\* A session expires Lifetime after its last use.  A token that was issued and has no
\* session any more was not used for longer than that.
SessionInv ==
    /\ DOMAIN m_sessions \subseteq DOMAIN lastUse
    /\ \A k \in DOMAIN lastUse :
          /\ lastUse[k] \in 0 .. now
          /\ IF Has(m_sessions, k) THEN m_sessions[k].expires = lastUse[k] + Lifetime
             ELSE now - lastUse[k] > Lifetime
    /\ \A t \in Threads : job[t].at = "name" =>
          /\ Has(lastUse, job[t].req.token)
          /\ job[t].since <= lastUse[job[t].req.token]

\* An upload that writes is one of those that share the file; alone it does not write
\* beyond its end.
FilesInv ==
    /\ DOMAIN sharing = DOMAIN files
    /\ \A t \in Threads : job[t].at = "write" =>
           Has(files, job[t].req.name) /\ job[t].req \in sharing[job[t].req.name]
    /\ \A name \in DOMAIN files :
           /\ files[name] \in Seq(Nat) /\ sharing[name] \subseteq Uploads
           /\ \A r \in sharing[name] : sharing[name] = {r} => Len(files[name]) <= r.size

\* Requests are let through one after the other, up to now.
Ordered(times, until) ==
    \A i, j \in 1 .. Len(times) : i <= j => times[i] <= times[j] /\ times[j] <= until

\* The requests of the current window are the last ones that were let through, and
\* those from the window before on back are at least a period older than its start.
InWindow(times, e, until) ==
    LET first == Len(times) - e.count + 1 IN
    /\ e \in [count : 1 .. MaxRequests, windowStart : 0 .. until]
    /\ first \in 1 .. Len(times) /\ times[first] = e.windowStart
    /\ \A i \in 1 .. first - MaxRequests : e.windowStart - times[i] >= Period

WindowInv ==
    \A l \in Limiters, a \in Addrs :
        /\ Ordered(passed[l][a], now)
        /\ IF Has(m_table[l], a) THEN InWindow(passed[l][a], m_table[l][a], now)
           ELSE passed[l][a] = <<>>

\* A refusal for the rate has MaxRequests requests in a row to show for it.
RefusalInv ==
    \A t \in Threads : job[t].at = "refused" /\ job[t].why = "rate" =>
        LET times == passed[job[t].limiter][job[t].addr] IN
        \E n \in 0 .. Len(times) - MaxRequests : \A k \in n + 1 .. n + MaxRequests :
            times[k] <= job[t].time /\ times[k] > job[t].time - Period

Inv == TypeOK /\ SessionInv /\ FilesInv /\ WindowInv /\ RefusalInv
           /\ RateFair /\ SessionsSlide /\ FilesFresh
=============================================================================
