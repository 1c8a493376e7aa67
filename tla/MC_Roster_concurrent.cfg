\* Two connections on two workers and one Python thread that renames guests to bob;
\* the account alice, and no capitals.
CONSTANTS
    c1 = c1
    c2 = c2
    c3 = c3
    s1 = s1
    bob = bob
    Bob = Bob
    amy = amy
    alice = alice
    NULL = NULL
    Conns = {c1, c2}
    Worker <- OwnWorker
    Snakes = {s1}
    PyCalls <- PyCallsBob
    Named = {alice}
    DbNick <- DbNickAmy
    Nicks = {bob, amy}
    Lower <- LowerSame
    NickHook = FALSE
SPECIFICATION Spec
INVARIANTS RosterExact AnonymousConnections Registration NickIndexExact ConnectionsTracked
PROPERTIES NoNickTheft
CHECK_DEADLOCK FALSE
SYMMETRY ConnSymmetry
