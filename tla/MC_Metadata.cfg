\* Two accounts on two workers, an account and a channel without a uid, all commands.
CONSTANTS
    a1 = a1
    a2 = a2
    me = me
    lobby = lobby
    w1 = w1
    w2 = w2
    Accts = {a1, a2}
    Targets = {me, lobby}
    Owner <- WithLobby
    Keys = {k1}
    Vals = {v1, v2}
    Unset = Unset
    Empty = Empty
    Silent = Silent
    Nobody = Nobody
    Closed = Closed
    Broken = Broken
    Saved = {me}
    Objs = {o1, o2, o3, o4}
    Null = Null
    Commands = {"SET", "CLEAR", "GET", "LIST", "SUB", "UNSUB", "SUBS"}
    Worker <- TwoWorkers
    MaxRequests = 3
    MaxFailures = 1
    MaxRestarts = 1
SPECIFICATION Spec
INVARIANTS StaleOnlyIf GoneOnlyIf
PROPERTIES SubscriptionsKept OwnersOnly ImplementsStore
CHECK_DEADLOCK FALSE
