\* Two connections on one worker, one database account, three nicks without
\* capitals, a NICK_CHANGE handler that may cancel or rewrite.
CONSTANTS
    c1 = c1
    c2 = c2
    c3 = c3
    s1 = s1
    bob = bob
    Bob = Bob
    amy = amy
    alice = alice
    NULL = NULL
    Conns = {c1, c2}
    Worker <- OneWorker
    Snakes = {}
    PyCalls = {}
    Named = {alice}
    DbNick <- DbNickAmy
    Nicks = {bob, Bob, amy}
    Lower <- LowerSame
    NickHook = TRUE
SPECIFICATION FairSpec
INVARIANTS TypeOK 
PROPERTIES RegistrationSettles
CHECK_DEADLOCK FALSE
