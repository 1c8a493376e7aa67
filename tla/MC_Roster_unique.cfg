\* Two connections on one worker; two spellings of one nick.
CONSTANTS
    c1 = c1
    c2 = c2
    c3 = c3
    s1 = s1
    bob = bob
    Bob = Bob
    amy = amy
    alice = alice
    NULL = NULL
    Conns = {c1, c2}
    Worker <- OneWorker
    Snakes = {}
    PyCalls = {}
    Named = {alice}
    DbNick <- DbNickAmy
    Nicks = {bob, Bob, amy}
    Lower <- LowerMixed
    NickHook = FALSE
SPECIFICATION Spec
INVARIANT NicksUnique
CHECK_DEADLOCK FALSE
